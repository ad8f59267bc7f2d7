--------------------------- MODULE ServiceProofs ---------------------------
(***************************************************************************)
(* Three results about the requests and their statements, for every set of *)
(* clients, backends, users, accounts and requests, in three parts.        *)
(*                                                                         *)
(* I.   The tables are whole.  The constraints of the schema keep them so; *)
(*      that they are tables at all rests on the checks a request has      *)
(*      passed, and on every slot waiting for one statement only.          *)
(* II.  The service implements the directory.  A statement acts on the     *)
(*      directory when it commits; one whose slot was answered 500 is in   *)
(*      limbo until its backend is done.  That no id is given out twice,   *)
(*      and that no two users and no two accounts go by one key, is        *)
(*      ServiceInv.                                                        *)
(* III. Answers are promises: what was created stays until its deletion is *)
(*      asked for, what is gone no later request finds.  Both rest on ids  *)
(*      being drawn once, on no DELETE running that nobody has sent, and   *)
(*      on holding of the answers about to be given as well.               *)
(***************************************************************************)
EXTENDS ServiceHistory, TLAPS

(* I. The tables. *)

TablesInv == TablesTyped /\ NoStrangers /\ Integrity
CallsInv  == CallsTyped /\ Attached

LEMMA Parts == ServiceInv <=> TablesInv /\ CallsInv /\ Drawn
BY DEF ServiceInv, TablesInv, CallsInv, TypeOK

LEMMA InitInv == Init => ServiceInv
BY SlotAssumption
   DEF Init, ServiceInv, TypeOK, TablesTyped, CallsTyped, Attached, NoStrangers,
       Integrity, Drawn, Running, Busy

-----------------------------------------------------------------------------
(* What the checks leave of a request. *)

LEMMA Kinds ==
  /\ \A r \in CreateUser : r.op = "createUser" /\ r.id \in UserKey
  /\ \A r \in UpdateUser : r.op = "updateUser" /\ r.id \in UserKey
  /\ \A r \in DeleteUser : r.op = "deleteUser" /\ r.id \in UserKey
  /\ \A r \in GetUser : r.op = "getUser"
  /\ \A r \in CreateAccount :
       r.op = "createAccount" /\ r.id \in AccountKey /\ r.owner \in UserKey
  /\ \A r \in UpdateAccount : r.op = "updateAccount" /\ r.id \in AccountKey
  /\ \A r \in DeleteAccount : r.op = "deleteAccount" /\ r.id \in AccountKey
  /\ \A r \in GetAccount : r.op = "getAccount"
BY DEF CreateUser, UpdateUser, DeleteUser, GetUser, CreateAccount, UpdateAccount,
       DeleteAccount, GetAccount, UserKey, AccountKey

LEMMA CreateUserFacts ==
  ASSUME NEW r \in CreateUser, Accepted(r)
  PROVE  r.id \in UserId /\ [email |-> r.email, name |-> r.name] \in UserRow
BY DEF CreateUser, Accepted, BadRequest, SchemaRejects, UserRow, EmailParam,
       NameParam

LEMMA UpdateUserFacts ==
  ASSUME NEW r \in UpdateUser, Accepted(r), NEW old \in UserRow
  PROVE  /\ r.id \in UserKey
         /\ [email |-> COALESCE(r.email, old.email),
             name  |-> COALESCE(r.name, old.name)] \in UserRow
BY DEF UpdateUser, Accepted, BadRequest, SchemaRejects, UserRow, EmailParam,
       NameParam, COALESCE

LEMMA CreateAccountFacts ==
  ASSUME NEW r \in CreateAccount, Accepted(r)
  PROVE  r.id \in AccountId /\ r.owner \in UserKey /\ r.name \in Name
<1>1. r.id \in AccountId /\ r.owner \in UserKey /\ r.name \in NameParam
  BY DEF CreateAccount
<1>2. r.name \notin {Absent, Empty}
  BY DEF Accepted, BadRequest, SchemaRejects
<1> QED BY <1>1, <1>2 DEF NameParam

LEMMA UpdateAccountFacts ==
  ASSUME NEW r \in UpdateAccount, Accepted(r), NEW old \in AccountRow
  PROVE  /\ r.id \in AccountKey
         /\ [old EXCEPT !.name = COALESCE(r.name, @)] \in AccountRow
         /\ [old EXCEPT !.name = COALESCE(r.name, @)].owner = old.owner
<1>1. r.id \in AccountKey /\ r.name \in NameParam
  BY DEF UpdateAccount
<1>2. r.name # Empty
  BY DEF Accepted, BadRequest, SchemaRejects
<1> QED BY <1>1, <1>2 DEF AccountRow, NameParam, COALESCE

LEMMA KeyFacts ==
  /\ \A r \in GetUser \cup DeleteUser : r.id \in UserKey
  /\ \A r \in GetAccount \cup DeleteAccount : r.id \in AccountKey
BY DEF GetUser, DeleteUser, GetAccount, DeleteAccount

-----------------------------------------------------------------------------
(* The tables. *)

\* The tables and calls a running statement finds.
LEMMA RunningFacts ==
  ASSUME ServiceInv, NEW b \in Backend, NEW Op, Running(b, Op)
  PROVE  backend[b].req \in Op /\ Accepted(backend[b].req)
BY DEF ServiceInv, Attached, Running

LEMMA InsertUserTables ==
  ASSUME ServiceInv, NEW b \in Backend, InsertUser(b)
  PROVE  TablesInv'
<1> DEFINE r   == backend[b].req
           row == [email |-> r.email, name |-> r.name]
<1>1. r \in CreateUser /\ Accepted(r)
  BY RunningFacts DEF InsertUser
<1>2. r.id \in UserId /\ row \in UserRow /\ row.email = r.email
  BY <1>1, CreateUserFacts
<1>3. TablesTyped /\ NoStrangers /\ Integrity
  BY Parts DEF TablesInv
<1>4. CASE UNCHANGED db
  BY <1>3, <1>4 DEF TablesInv, TablesTyped, NoStrangers, Integrity, db
<1>5. CASE /\ ~Taken(r.email, r.id)
           /\ users' = [users EXCEPT ![r.id] = row]
           /\ drawn' = drawn \cup {r.id}
           /\ UNCHANGED accounts
  <2> HIDE DEF r, row
  <2>1. TablesTyped'
    BY <1>2, <1>3, <1>5 DEF TablesTyped
  <2>2. NoStrangers'
    BY <1>2, <1>3, <1>5 DEF NoStrangers, TablesTyped, UserKey
  <2>3. row # None
    BY <1>2, NoneAssumption
  <2>4. \A u \in UserKey : users'[u] = IF u = r.id THEN row ELSE users[u]
    BY <1>2, <1>3, <1>5 DEF TablesTyped
  <2>5. \A u \in UserKey : u # r.id /\ users[u] # None => users[u].email # r.email
    BY <1>3, <1>5 DEF Taken, NoStrangers
  <2>6. Integrity'
    <3>1. \A u, v \in UserKey :
            users'[u] # None /\ users'[v] # None /\ users'[u].email = users'[v].email
              => u = v
      BY <1>2, <1>3, <2>4, <2>5 DEF Integrity
    <3>2. \A a \in AccountKey :
            accounts[a] # None => accounts[a].owner \in UserKey
      BY <1>3, NoneAssumption DEF TablesTyped, AccountRow, UserKey
    <3>3. \A a \in AccountKey : accounts'[a] # None => users'[accounts'[a].owner] # None
      BY <1>3, <1>5, <2>3, <2>4, <3>2 DEF Integrity
    <3> QED BY <3>1, <3>3 DEF Integrity
  <2> QED BY <2>1, <2>2, <2>6 DEF TablesInv
<1> QED BY <1>4, <1>5 DEF InsertUser

LEMMA PatchUserTables ==
  ASSUME ServiceInv, NEW b \in Backend, PatchUser(b)
  PROVE  TablesInv'
<1> DEFINE r   == backend[b].req
           old == users[r.id]
           row == [email |-> COALESCE(r.email, old.email),
                   name  |-> COALESCE(r.name, old.name)]
<1>1. r \in UpdateUser /\ Accepted(r)
  BY RunningFacts DEF PatchUser
<1>2. r.id \in UserKey
  BY <1>1 DEF UpdateUser
<1>3. TablesTyped /\ NoStrangers /\ Integrity
  BY Parts DEF TablesInv
<1>4. CASE UNCHANGED db
  BY <1>3, <1>4 DEF TablesInv, TablesTyped, NoStrangers, Integrity, db
<1>5. CASE /\ old # None
           /\ ~Taken(row.email, r.id)
           /\ users' = [users EXCEPT ![r.id] = row]
           /\ UNCHANGED <<accounts, drawn>>
  <2>1. old \in UserRow
    BY <1>2, <1>3, <1>5 DEF TablesTyped
  <2>2. row \in UserRow
    BY <1>1, <2>1, UpdateUserFacts
  <2> HIDE DEF r, old, row
  <2>3. TablesTyped'
    BY <1>2, <1>3, <1>5, <2>2 DEF TablesTyped
  <2>4. row # None
    BY <2>2, NoneAssumption
  <2>5. \A u \in UserKey : users'[u] = IF u = r.id THEN row ELSE users[u]
    BY <1>2, <1>3, <1>5 DEF TablesTyped
  <2>6. r.id \in UserId
    BY <1>2, <1>3, <1>5 DEF NoStrangers, old
  <2>7. NoStrangers'
    BY <1>3, <2>5, <2>6 DEF NoStrangers
  <2>8. \A u \in UserKey : u # r.id /\ users[u] # None => users[u].email # row.email
    BY <1>3, <1>5 DEF Taken, NoStrangers
  <2>9. Integrity'
    <3>1. \A u, v \in UserKey :
            users'[u] # None /\ users'[v] # None /\ users'[u].email = users'[v].email
              => u = v
      BY <1>2, <1>3, <2>5, <2>8 DEF Integrity
    <3>2. \A a \in AccountKey :
            accounts[a] # None => accounts[a].owner \in UserKey
      BY <1>3, NoneAssumption DEF TablesTyped, AccountRow, UserKey
    <3>3. \A a \in AccountKey : accounts'[a] # None => users'[accounts'[a].owner] # None
      BY <1>3, <1>5, <2>4, <2>5, <3>2 DEF Integrity
    <3> QED BY <3>1, <3>3 DEF Integrity
  <2> QED BY <2>3, <2>7, <2>9 DEF TablesInv
<1> QED BY <1>4, <1>5 DEF PatchUser

LEMMA EraseUserTables ==
  ASSUME ServiceInv, NEW b \in Backend, EraseUser(b)
  PROVE  TablesInv'
<1> DEFINE u == backend[b].req.id
<1>1. u \in UserKey
  BY RunningFacts, KeyFacts DEF EraseUser
<1>2. TablesTyped /\ NoStrangers /\ Integrity
  BY Parts DEF TablesInv
<1>3. CASE UNCHANGED db
  BY <1>2, <1>3 DEF TablesInv, TablesTyped, NoStrangers, Integrity, db
<1>4. CASE /\ users' = [users EXCEPT ![u] = None]
           /\ accounts' = [a \in AccountKey |->
                IF accounts[a] # None /\ accounts[a].owner = u THEN None
                ELSE accounts[a]]
           /\ UNCHANGED drawn
  <2> HIDE DEF u
  <2>1. \A v \in UserKey : users'[v] = IF v = u THEN None ELSE users[v]
    BY <1>1, <1>2, <1>4 DEF TablesTyped
  <2>2. TablesTyped' /\ NoStrangers'
    BY <1>1, <1>2, <1>4, <2>1 DEF TablesTyped, NoStrangers
  <2>3. \A v, w \in UserKey :
          users'[v] # None /\ users'[w] # None /\ users'[v].email = users'[w].email
            => v = w
    BY <1>2, <2>1 DEF Integrity
  <2>4. ASSUME NEW a \in AccountKey, accounts'[a] # None
        PROVE  users'[accounts'[a].owner] # None
    <3>1. accounts'[a] = accounts[a] /\ accounts[a] # None /\ accounts[a].owner # u
      BY <1>4, <2>4
    <3>2. accounts[a].owner \in UserKey
      BY <1>2, <3>1 DEF TablesTyped, AccountRow, UserKey
    <3> QED BY <1>2, <2>1, <3>1, <3>2 DEF Integrity
  <2> QED BY <2>2, <2>3, <2>4 DEF TablesInv, Integrity
<1> QED BY <1>3, <1>4 DEF EraseUser

LEMMA InsertAccountTables ==
  ASSUME ServiceInv, NEW b \in Backend, InsertAccount(b)
  PROVE  TablesInv'
<1> DEFINE r   == backend[b].req
           row == [owner |-> r.owner, name |-> r.name]
<1>1. r.id \in AccountId /\ r.owner \in UserKey /\ r.name \in Name
  BY RunningFacts, CreateAccountFacts DEF InsertAccount
<1>2. TablesTyped /\ NoStrangers /\ Integrity
  BY Parts DEF TablesInv
<1>3. CASE UNCHANGED db
  BY <1>2, <1>3 DEF TablesInv, TablesTyped, NoStrangers, Integrity, db
<1>4. CASE /\ users[r.owner] # None
           /\ accounts' = [accounts EXCEPT ![r.id] = row]
           /\ drawn' = drawn \cup {r.id}
           /\ UNCHANGED users
  <2>1. row \in AccountRow /\ row.owner = r.owner
    BY <1>1, <1>2, <1>4 DEF NoStrangers, AccountRow
  <2> HIDE DEF r, row
  <2>2. TablesTyped' /\ NoStrangers'
    BY <1>1, <1>2, <1>4, <2>1 DEF TablesTyped, NoStrangers, AccountKey
  <2>3. \A a \in AccountKey : accounts'[a] = IF a = r.id THEN row ELSE accounts[a]
    BY <1>1, <1>2, <1>4 DEF TablesTyped, AccountKey
  <2>4. Integrity'
    BY <1>2, <1>4, <2>1, <2>3 DEF Integrity
  <2> QED BY <2>2, <2>4 DEF TablesInv
<1> QED BY <1>3, <1>4 DEF InsertAccount

LEMMA PatchAccountTables ==
  ASSUME ServiceInv, NEW b \in Backend, PatchAccount(b)
  PROVE  TablesInv'
<1> DEFINE r   == backend[b].req
           old == accounts[r.id]
           row == [old EXCEPT !.name = COALESCE(r.name, @)]
<1>1. r \in UpdateAccount /\ Accepted(r)
  BY RunningFacts DEF PatchAccount
<1>2. r.id \in AccountKey
  BY <1>1 DEF UpdateAccount
<1>3. TablesTyped /\ NoStrangers /\ Integrity
  BY Parts DEF TablesInv
<1>4. CASE UNCHANGED db
  BY <1>3, <1>4 DEF TablesInv, TablesTyped, NoStrangers, Integrity, db
<1>5. CASE /\ old # None
           /\ accounts' = [accounts EXCEPT ![r.id] = row]
           /\ UNCHANGED <<users, drawn>>
  <2>1. old \in AccountRow
    BY <1>2, <1>3, <1>5 DEF TablesTyped
  <2>2. row \in AccountRow /\ row.owner = old.owner
    BY <1>1, <2>1, UpdateAccountFacts
  <2>3. users[old.owner] # None
    BY <1>2, <1>3, <1>5 DEF Integrity
  <2> HIDE DEF r, old, row
  <2>4. TablesTyped' /\ NoStrangers'
    BY <1>2, <1>3, <1>5, <2>2 DEF TablesTyped, NoStrangers
  <2>5. \A a \in AccountKey : accounts'[a] = IF a = r.id THEN row ELSE accounts[a]
    BY <1>2, <1>3, <1>5 DEF TablesTyped
  <2>6. Integrity'
    BY <1>3, <1>5, <2>2, <2>3, <2>5 DEF Integrity
  <2> QED BY <2>4, <2>6 DEF TablesInv
<1> QED BY <1>4, <1>5 DEF PatchAccount

LEMMA EraseAccountTables ==
  ASSUME ServiceInv, NEW b \in Backend, EraseAccount(b)
  PROVE  TablesInv'
<1> DEFINE k == backend[b].req.id
<1>1. k \in AccountKey
  BY RunningFacts, KeyFacts DEF EraseAccount
<1>2. TablesTyped /\ NoStrangers /\ Integrity
  BY Parts DEF TablesInv
<1>3. CASE UNCHANGED db
  BY <1>2, <1>3 DEF TablesInv, TablesTyped, NoStrangers, Integrity, db
<1>4. CASE accounts' = [accounts EXCEPT ![k] = None] /\ UNCHANGED <<users, drawn>>
  <2> HIDE DEF k
  <2>1. \A a \in AccountKey : accounts'[a] = IF a = k THEN None ELSE accounts[a]
    BY <1>1, <1>2, <1>4 DEF TablesTyped
  <2>2. TablesTyped' /\ NoStrangers'
    BY <1>1, <1>2, <1>4 DEF TablesTyped, NoStrangers
  <2>3. Integrity'
    BY <1>2, <1>4, <2>1 DEF Integrity
  <2> QED BY <2>2, <2>3 DEF TablesInv
<1> QED BY <1>3, <1>4 DEF EraseAccount

\* No statement breaks a table.
LEMMA StatementTables ==
  ASSUME ServiceInv, NEW b \in Backend, Statement(b)
  PROVE  TablesInv'
<1>1. CASE SelectUser(b) \/ SelectAccount(b)
  <2>1. UNCHANGED db
    BY <1>1 DEF SelectUser, SelectAccount
  <2> QED BY <2>1, Parts DEF TablesInv, TablesTyped, NoStrangers, Integrity, db
<1> QED BY <1>1, InsertUserTables, PatchUserTables, EraseUserTables,
           InsertAccountTables, PatchAccountTables, EraseAccountTables
        DEF Statement

-----------------------------------------------------------------------------
(* The calls. *)

LEMMA StatusFacts ==
  /\ \A r : Success(r) \in Status
  /\ \A err : mapDomainError(err) \in Status
BY DEF Success, mapDomainError, Status

\* The slot a statement answers waits for it, without an answer.
LEMMA AttachedSlot ==
  ASSUME CallsTyped, Attached, NEW b \in Backend, Busy(b), backend[b].slot # None
  PROVE  LET s == backend[b].slot
         IN  /\ s \in Slot /\ Waiting(s) /\ answer[s] = None
             /\ backend[b].req \in Request /\ calls[s] = backend[b].req
<1>1. backend[b] \in Job
  BY DEF CallsTyped, Busy
<1>2. backend[b].req \in Request /\ backend[b].slot \in Slot
  BY <1>1 DEF Job
<1> QED BY <1>2, NoneAssumption DEF Attached, Waiting

\* A slot is told its answer by its own statement only.
LEMMA ReplyCalls ==
  ASSUME ServiceInv, NEW b \in Backend, Busy(b), NEW result, NEW body,
         Reply(b, result, body)
  PROVE  CallsInv'
<1> DEFINE s == backend[b].slot
           status == IF result = "ok" THEN Success(backend[b].req)
                     ELSE mapDomainError(mapError(result))
<1>1. CallsTyped /\ Attached
  BY Parts DEF CallsInv
<1>2. backend' = [backend EXCEPT ![b] = None] /\ calls' = calls
  BY DEF Reply
<1>3. \A c \in Backend : backend'[c] = IF c = b THEN None ELSE backend[c]
  BY <1>1, <1>2 DEF CallsTyped
<1>4. backend' \in [Backend -> Job \cup {None}]
  BY <1>1, <1>2 DEF CallsTyped
<1>5. CASE s = None
  <2>1. answer' = answer
    BY <1>5 DEF Reply
  <2>2. CallsTyped'
    BY <1>1, <1>2, <1>4, <2>1 DEF CallsTyped, Waiting
  <2>3. Attached'
    BY <1>1, <1>2, <1>3, <2>1 DEF Attached, Busy
  <2> QED BY <2>2, <2>3 DEF CallsInv
<1>6. CASE s # None
  <2>1. answer' = [answer EXCEPT ![s] = Answer(status, body)]
    BY <1>6 DEF Reply
  <2>2. s \in Slot /\ Waiting(s)
    BY <1>1, <1>6, AttachedSlot
  <2>3. status \in Status
    BY StatusFacts
  <2> HIDE DEF status
  <2>4. /\ DOMAIN answer' = Slot /\ answer'[s].status \in Status
        /\ \A t \in Slot \ {s} : answer'[t] = answer[t]
    BY <1>1, <2>1, <2>2, <2>3 DEF CallsTyped, Answer
  <2>5. CallsTyped'
    BY <1>1, <1>2, <1>4, <2>2, <2>4 DEF CallsTyped, Waiting
  <2>6. ASSUME NEW c \in Backend, Busy(c)', backend'[c].slot # None
        PROVE  /\ calls'[backend'[c].slot] = backend'[c].req
               /\ answer'[backend'[c].slot] = None
    <3>1. c # b /\ Busy(c) /\ backend'[c] = backend[c]
      BY <1>3, <2>6 DEF Busy
    <3>2. backend[c].slot # s
      BY <1>1, <1>6, <2>6, <3>1 DEF Attached
    <3> QED BY <1>1, <1>2, <2>4, <2>6, <3>1, <3>2, AttachedSlot
  <2>7. Attached'
    BY <1>1, <1>3, <2>6 DEF Attached, Busy
  <2> QED BY <2>5, <2>7 DEF CallsInv
<1> QED BY <1>5, <1>6

LEMMA StatementCalls ==
  ASSUME ServiceInv, NEW b \in Backend, Statement(b)
  PROVE  CallsInv'
<1>1. PICK result, body : Busy(b) /\ Reply(b, result, body)
  BY DEF Statement, InsertUser, SelectUser, PatchUser, EraseUser, InsertAccount,
         SelectAccount, PatchAccount, EraseAccount, Running
<1> QED BY <1>1, ReplyCalls

LEMMA AbandonCalls ==
  ASSUME ServiceInv, NEW b \in Backend, Abandon(b)
  PROVE  CallsInv'
<1> DEFINE s == backend[b].slot
           status == mapDomainError(mapError("failed"))
<1>1. CallsTyped /\ Attached
  BY Parts DEF CallsInv
<1>2. /\ Busy(b) /\ s # None /\ calls' = calls
      /\ backend' = [backend EXCEPT ![b].slot = None]
      /\ answer' = [answer EXCEPT ![s] = Answer(status, None)]
  BY DEF Abandon
<1>3. backend[b] \in Job /\ s \in Slot /\ Waiting(s)
  BY <1>1, <1>2, AttachedSlot DEF CallsTyped, Busy
<1>4. backend'[b] \in Job /\ backend'[b].req = backend[b].req /\ backend'[b].slot = None
  BY <1>1, <1>2, <1>3 DEF CallsTyped, Job
<1>5. \A c \in Backend : c # b => backend'[c] = backend[c]
  BY <1>1, <1>2 DEF CallsTyped
<1>6. backend' \in [Backend -> Job \cup {None}]
  BY <1>1, <1>2, <1>4, <1>5 DEF CallsTyped
<1>7. status \in Status
  BY StatusFacts
<1> HIDE DEF status
<1>8. /\ DOMAIN answer' = Slot /\ answer'[s].status \in Status
      /\ \A t \in Slot \ {s} : answer'[t] = answer[t]
  BY <1>1, <1>2, <1>3, <1>7 DEF CallsTyped, Answer
<1>9. CallsTyped'
  BY <1>1, <1>2, <1>3, <1>6, <1>8 DEF CallsTyped, Waiting
<1>10. ASSUME NEW c \in Backend, Busy(c)', backend'[c].slot # None
       PROVE  /\ c # b /\ backend'[c] = backend[c] /\ Busy(c)
              /\ calls'[backend'[c].slot] = backend'[c].req
              /\ answer'[backend'[c].slot] = None
  <2>1. c # b /\ backend'[c] = backend[c] /\ Busy(c)
    BY <1>4, <1>5, <1>10 DEF Busy
  <2>2. backend[c].slot # s
    BY <1>1, <1>2, <1>10, <2>1 DEF Attached
  <2> QED BY <1>1, <1>2, <1>8, <1>10, <2>1, <2>2, AttachedSlot
<1>11. \A c \in Backend : Busy(c)' => Busy(c) /\ backend'[c].req = backend[c].req
  BY <1>2, <1>4, <1>5 DEF Busy
<1>12. Attached'
  BY <1>1, <1>10, <1>11 DEF Attached
<1> QED BY <1>9, <1>12 DEF CallsInv

LEMMA SendCalls ==
  ASSUME ServiceInv, NEW s \in Slot, NEW r \in Request, NEW b \in Backend,
         Send(s, r, b)
  PROVE  CallsInv'
<1> DEFINE job == [req |-> r, slot |-> s]
<1>1. CallsTyped /\ Attached
  BY Parts DEF CallsInv
<1>2. /\ ~Waiting(s) /\ Accepted(r) /\ ~Busy(b)
      /\ calls' = [calls EXCEPT ![s] = r]
      /\ backend' = [backend EXCEPT ![b] = job]
      /\ answer' = answer
  BY DEF Send
<1>3. job \in Job /\ job.req = r /\ job.slot = s
  BY DEF Job
<1> HIDE DEF job
<1>4. calls'[s] = r /\ answer'[s] = None /\ \A t \in Slot \ {s} : calls'[t] = calls[t]
  BY <1>1, <1>2 DEF CallsTyped
<1>5. CallsTyped'
  BY <1>1, <1>2, <1>3, <1>4 DEF CallsTyped, Waiting
<1>6. \A c \in Backend : backend'[c] = IF c = b THEN job ELSE backend[c]
  BY <1>1, <1>2 DEF CallsTyped
<1>7. \A c \in Backend : Busy(c) /\ backend[c].slot # None => backend[c].slot \in Slot \ {s}
  BY <1>1, <1>2, AttachedSlot
<1>8. s # None
  BY SlotAssumption
<1>9. ASSUME NEW c \in Backend, Busy(c)'
      PROVE  /\ Accepted(backend'[c].req)
             /\ backend'[c].slot # None =>
                  /\ calls'[backend'[c].slot] = backend'[c].req
                  /\ answer'[backend'[c].slot] = None
             /\ \A d \in Backend :
                  Busy(d)' /\ backend'[d].slot = backend'[c].slot
                    /\ backend'[c].slot # None => d = c
  <2>1. CASE c = b
    BY <1>2, <1>3, <1>4, <1>6, <1>7, <1>8, <2>1 DEF Busy
  <2>2. CASE c # b
    <3>1. backend'[c] = backend[c] /\ Busy(c)
      BY <1>6, <1>9, <2>2 DEF Busy
    <3> QED BY <1>1, <1>2, <1>3, <1>4, <1>6, <1>7, <2>2, <3>1 DEF Attached, Busy
  <2> QED BY <2>1, <2>2
<1>10. Attached'
  BY <1>9 DEF Attached
<1> QED BY <1>5, <1>10 DEF CallsInv

LEMMA RefuseCalls ==
  ASSUME ServiceInv, NEW s \in Slot, NEW r \in Request, Refuse(s, r)
  PROVE  CallsInv'
<1> DEFINE status == IF BadRequest(r) THEN 400 ELSE 422
<1>1. CallsTyped /\ Attached
  BY Parts DEF CallsInv
<1>2. /\ ~Waiting(s) /\ backend' = backend
      /\ calls' = [calls EXCEPT ![s] = r]
      /\ answer' = [answer EXCEPT ![s] = Answer(status, None)]
  BY DEF Refuse
<1>3. status \in Status
  BY DEF Status
<1> HIDE DEF status
<1>4. /\ DOMAIN answer' = Slot /\ answer'[s].status \in Status /\ calls'[s] = r
      /\ \A t \in Slot \ {s} : answer'[t] = answer[t] /\ calls'[t] = calls[t]
  BY <1>1, <1>2, <1>3 DEF CallsTyped, Answer
<1>5. CallsTyped'
  BY <1>1, <1>2, <1>4, NoneAssumption DEF CallsTyped, Waiting
<1>6. \A c \in Backend : Busy(c) /\ backend[c].slot # None => backend[c].slot \in Slot \ {s}
  BY <1>1, <1>2, AttachedSlot
<1>7. Attached'
  BY <1>1, <1>2, <1>4, <1>6 DEF Attached, Busy
<1> QED BY <1>5, <1>7 DEF CallsInv

LEMMA RespondCalls ==
  ASSUME ServiceInv, NEW s \in Slot, Respond(s)
  PROVE  CallsInv'
<1>1. CallsTyped /\ Attached
  BY Parts DEF CallsInv
<1>2. /\ answer[s] # None /\ backend' = backend
      /\ calls' = [calls EXCEPT ![s] = None]
      /\ answer' = [answer EXCEPT ![s] = None]
  BY DEF Respond
<1>3. /\ DOMAIN answer' = Slot /\ answer'[s] = None
      /\ \A t \in Slot \ {s} : answer'[t] = answer[t] /\ calls'[t] = calls[t]
  BY <1>1, <1>2 DEF CallsTyped
<1>4. CallsTyped'
  BY <1>1, <1>2, <1>3 DEF CallsTyped, Waiting
<1>5. \A c \in Backend : Busy(c) /\ backend[c].slot # None => backend[c].slot \in Slot \ {s}
  BY <1>1, <1>2, AttachedSlot
<1>6. Attached'
  BY <1>1, <1>2, <1>3, <1>5 DEF Attached, Busy
<1> QED BY <1>4, <1>6 DEF CallsInv

-----------------------------------------------------------------------------

\* Whatever leaves the tables alone keeps them whole.
LEMMA SameTables == ServiceInv /\ UNCHANGED db => TablesInv'
BY Parts DEF TablesInv, TablesTyped, NoStrangers, Integrity, db

-----------------------------------------------------------------------------
(* The ids. *)

Create == CreateUser \cup CreateAccount

LEMMA SameDrawn ==
  ASSUME ServiceInv, UNCHANGED db,
         \A c \in Backend : Running(c, Create)' =>
           Running(c, Create) /\ backend'[c].req = backend[c].req
  PROVE  Drawn'
BY DEF ServiceInv, Drawn, db, Create

\* Rows that appear have the id of the request that made them.
LEMMA ReplyDrawn ==
  ASSUME ServiceInv, NEW b \in Backend, NEW result, NEW body, Reply(b, result, body),
         \/ UNCHANGED drawn
         \/ Running(b, Create) /\ drawn' = drawn \cup {backend[b].req.id},
         \A u \in UserKey : users'[u] # None => users[u] # None \/ u \in drawn',
         \A a \in AccountKey : accounts'[a] # None =>
           accounts[a] # None \/ a \in drawn' \cap AccountId
  PROVE  Drawn'
<1>1. \A c \in Backend : backend'[c] = IF c = b THEN None ELSE backend[c]
  BY DEF Reply, ServiceInv, TypeOK, CallsTyped
<1>2. \A c \in Backend : Running(c, Create)' =>
        c # b /\ Running(c, Create) /\ backend'[c].req = backend[c].req
  BY <1>1 DEF Running, Busy
<1>3. Drawn
  BY DEF ServiceInv
<1>4. \A c \in Backend : Running(c, Create)' => backend[c].req.id \notin drawn'
  BY <1>2, <1>3 DEF Drawn, Create
<1> QED BY <1>2, <1>3, <1>4 DEF Drawn, Create

LEMMA StatementDrawn ==
  ASSUME ServiceInv, NEW b \in Backend, Statement(b)
  PROVE  Drawn'
<1> DEFINE r == backend[b].req
<1>1. TablesTyped
  BY DEF ServiceInv, TypeOK
<1>2. CASE UNCHANGED db
  <2>1. \E result, body : Reply(b, result, body)
    BY DEF Statement, InsertUser, SelectUser, PatchUser, EraseUser, InsertAccount,
           SelectAccount, PatchAccount, EraseAccount
  <2> QED BY <1>2, <2>1, ReplyDrawn DEF db
<1>3. CASE InsertUser(b) /\ ~UNCHANGED db
  <2>1. /\ Running(b, CreateUser) /\ r.id \in UserKey
        /\ \E row : users' = [users EXCEPT ![r.id] = row]
        /\ drawn' = drawn \cup {r.id} /\ UNCHANGED accounts
        /\ \E result, body : Reply(b, result, body)
    BY <1>3, Kinds DEF InsertUser, Running
  <2> QED BY <1>1, <2>1, ReplyDrawn DEF TablesTyped, Create, Running
<1>4. CASE InsertAccount(b) /\ ~UNCHANGED db
  <2>1. /\ Running(b, CreateAccount) /\ r.id \in AccountId
        /\ \E row : accounts' = [accounts EXCEPT ![r.id] = row]
        /\ drawn' = drawn \cup {r.id} /\ UNCHANGED users
        /\ \E result, body : Reply(b, result, body)
    BY <1>4 DEF InsertAccount, Running, CreateAccount
  <2> QED BY <1>1, <2>1, ReplyDrawn DEF TablesTyped, AccountKey, Create, Running
<1>5. CASE PatchUser(b) /\ ~UNCHANGED db
  <2>1. /\ r.id \in UserKey /\ users[r.id] # None
        /\ \E row : users' = [users EXCEPT ![r.id] = row]
        /\ UNCHANGED <<accounts, drawn>>
        /\ \E result, body : Reply(b, result, body)
    BY <1>5, Kinds DEF PatchUser, Running
  <2> QED BY <1>1, <2>1, ReplyDrawn DEF TablesTyped
<1>6. CASE PatchAccount(b) /\ ~UNCHANGED db
  <2>1. /\ r.id \in AccountKey /\ accounts[r.id] # None
        /\ \E row : accounts' = [accounts EXCEPT ![r.id] = row]
        /\ UNCHANGED <<users, drawn>>
        /\ \E result, body : Reply(b, result, body)
    BY <1>6, Kinds DEF PatchAccount, Running
  <2> QED BY <1>1, <2>1, ReplyDrawn DEF TablesTyped
<1>7. CASE EraseUser(b) /\ ~UNCHANGED db
  <2>1. /\ r.id \in UserKey
        /\ users' = [users EXCEPT ![r.id] = None]
        /\ \A a \in AccountKey : accounts'[a] # None => accounts[a] # None
        /\ UNCHANGED drawn
        /\ \E result, body : Reply(b, result, body)
    BY <1>7, Kinds DEF EraseUser, Running
  <2> QED BY <1>1, <2>1, ReplyDrawn DEF TablesTyped
<1>8. CASE EraseAccount(b) /\ ~UNCHANGED db
  <2>1. /\ r.id \in AccountKey
        /\ accounts' = [accounts EXCEPT ![r.id] = None]
        /\ UNCHANGED <<users, drawn>>
        /\ \E result, body : Reply(b, result, body)
    BY <1>8, Kinds DEF EraseAccount, Running
  <2> QED BY <1>1, <2>1, ReplyDrawn DEF TablesTyped
<1> QED BY <1>2, <1>3, <1>4, <1>5, <1>6, <1>7, <1>8 DEF Statement, SelectUser, SelectAccount

LEMMA SendDrawn ==
  ASSUME ServiceInv, NEW s \in Slot, NEW r \in Inputs, NEW b \in Backend,
         Nameable(r), Send(s, r, b)
  PROVE  Drawn'
<1>1. \A c \in Backend :
        backend'[c] = IF c = b THEN [req |-> r, slot |-> s] ELSE backend[c]
  BY DEF Send, ServiceInv, TypeOK, CallsTyped
<1>2. Drawn /\ ~Busy(b) /\ UNCHANGED db
  BY DEF ServiceInv, Send
<1>3. ASSUME NEW c \in Backend \ {b}, Running(c, Create)'
      PROVE  Running(c, Create) /\ backend'[c].req = backend[c].req
  BY <1>1, <1>3 DEF Running, Busy
<1>4. ASSUME Running(b, Create)'
      PROVE  /\ backend'[b].req.id \notin drawn
             /\ \A c \in Backend \ {b} :
                  Busy(c) => backend[c].req.id # backend'[b].req.id
  <2>1. backend'[b].req = r /\ r \in Create
    BY <1>1, <1>4 DEF Running
  <2> QED BY <1>2, <2>1 DEF Nameable, Fresh, Create
<1> QED BY <1>2, <1>3, <1>4 DEF Drawn, Create, db, Running

LEMMA AbandonDrawn ==
  ASSUME ServiceInv, NEW b \in Backend, Abandon(b)
  PROVE  Drawn'
<1>1. /\ Busy(b) /\ UNCHANGED db /\ backend' = [backend EXCEPT ![b].slot = None]
      /\ backend \in [Backend -> Job \cup {None}]
  BY DEF Abandon, ServiceInv, TypeOK, CallsTyped
<1>2. backend[b] \in Job
  BY <1>1 DEF Busy
<1>3. \A c \in Backend : Running(c, Create)' =>
        Running(c, Create) /\ backend'[c].req = backend[c].req
  BY <1>1, <1>2 DEF Running, Busy, Job
<1> QED BY <1>1, <1>3, SameDrawn

-----------------------------------------------------------------------------

LEMMA NextInv == ServiceInv /\ [Next]_vars => ServiceInv'
<1> SUFFICES ASSUME ServiceInv, [Next]_vars
             PROVE  TablesInv' /\ CallsInv' /\ Drawn'
  BY Parts DEF ServiceInv, TablesInv, CallsInv, TypeOK
<1>1. ASSUME NEW s \in Slot, NEW r \in Inputs, Receive(s, r)
      PROVE  TablesInv' /\ CallsInv' /\ Drawn'
  <2>1. r \in Request /\ Nameable(r)
    BY <1>1, InputsAssumption DEF Receive
  <2>2. UNCHANGED db
    BY <1>1 DEF Receive, Refuse, Send
  <2>3. CASE Refuse(s, r)
    <3>1. Drawn'
      BY <2>2, <2>3, SameDrawn DEF Refuse, Running, Busy
    <3> QED BY <2>1, <2>2, <2>3, <3>1, SameTables, RefuseCalls
  <2>4. ASSUME NEW b \in Backend, Send(s, r, b)
        PROVE  TablesInv' /\ CallsInv' /\ Drawn'
    BY <2>1, <2>2, <2>4, SameTables, SendCalls, SendDrawn
  <2> QED BY <1>1, <2>3, <2>4 DEF Receive
<1>2. ASSUME NEW b \in Backend, Statement(b)
      PROVE  TablesInv' /\ CallsInv' /\ Drawn'
  BY <1>2, StatementTables, StatementCalls, StatementDrawn
<1>3. ASSUME NEW b \in Backend, Fail(b)
      PROVE  TablesInv' /\ CallsInv' /\ Drawn'
  <2>1. Drawn'
    BY <1>3, ReplyDrawn DEF Fail, db
  <2> QED BY <1>3, <2>1, SameTables, ReplyCalls DEF Fail
<1>4. ASSUME NEW b \in Backend, Abandon(b)
      PROVE  TablesInv' /\ CallsInv' /\ Drawn'
  <2>1. UNCHANGED db
    BY <1>4 DEF Abandon
  <2> QED BY <1>4, <2>1, SameTables, AbandonCalls, AbandonDrawn
<1>5. ASSUME NEW s \in Slot, Respond(s)
      PROVE  TablesInv' /\ CallsInv' /\ Drawn'
  <2>1. UNCHANGED db
    BY <1>5 DEF Respond
  <2>2. Drawn'
    BY <1>5, <2>1, SameDrawn DEF Respond, Running, Busy
  <2> QED BY <1>5, <2>1, <2>2, SameTables, RespondCalls
<1>6. CASE UNCHANGED vars
  <2>1. UNCHANGED db /\ UNCHANGED <<calls, backend, answer>>
    BY <1>6 DEF vars, db
  <2>2. CallsInv'
    BY <2>1, Parts DEF CallsInv, CallsTyped, Attached, Busy, Waiting
  <2>3. Drawn'
    BY <2>1, SameDrawn DEF Running, Busy
  <2> QED BY <2>1, <2>2, <2>3, SameTables
<1> QED BY <1>1, <1>2, <1>3, <1>4, <1>5, <1>6 DEF Next

\* The tables are whole and every waiting slot has at most one statement.
THEOREM ServiceInvariant == Spec => []ServiceInv
<1> QED BY InitInv, NextInv, PTL DEF Spec

\* Tables, calls and answers keep their types.
THEOREM ServiceTypes == Spec => []TypeOK
<1>1. ServiceInv => TypeOK
  BY DEF ServiceInv
<1> QED BY <1>1, ServiceInvariant, PTL

\* No two users share an e-mail address and no account is without its user,
\* however many requests, cancelled or not, overlap.
THEOREM TablesWhole == Spec => []Integrity
<1>1. ServiceInv => Integrity
  BY DEF ServiceInv
<1> QED BY <1>1, ServiceInvariant, PTL

-----------------------------------------------------------------------------
(* II. The directory. *)

-----------------------------------------------------------------------------
(* The directory the tables make. *)

People   == {User(u, users[u]) : u \in {v \in UserKey : users[v] # None}}
Holdings == {Account(a, accounts[a]) : a \in {v \in AccountKey : accounts[v] # None}}
Limbo    == [b \in Backend |-> IF Lost(b) THEN backend[b].req ELSE None]

LEMMA Records ==
  /\ \A u, row : /\ User(u, row).id = u /\ User(u, row).email = row.email
                 /\ User(u, row).name = row.name
  /\ \A a, row : /\ Account(a, row).id = a /\ Account(a, row).owner = row.owner
                 /\ Account(a, row).name = row.name
BY DEF User, Account

LEMMA Found ==
  ASSUME NEW k
  PROVE  /\ k \in UserKey => Dir!UserOf(k) = IF users[k] = None THEN {}
                                             ELSE {User(k, users[k])}
         /\ k \in AccountKey => Dir!AccountOf(k) = IF accounts[k] = None THEN {}
                                                   ELSE {Account(k, accounts[k])}
<1>1. ASSUME k \in UserKey
      PROVE  Dir!UserOf(k) = IF users[k] = None THEN {} ELSE {User(k, users[k])}
  BY <1>1, Records DEF Dir!UserOf
<1>2. ASSUME k \in AccountKey
      PROVE  Dir!AccountOf(k) = IF accounts[k] = None THEN {} ELSE {Account(k, accounts[k])}
  BY <1>2, Records DEF Dir!AccountOf
<1> QED BY <1>1, <1>2

\* The unique index sees the addresses the directory sees.
LEMMA HoldsTaken ==
  ASSUME ServiceInv, NEW id, NEW email
  PROVE  Dir!Holds(email, id) <=> Taken(email, id)
<1>1. NoStrangers
  BY DEF ServiceInv
<1> QED BY <1>1, Records DEF Dir!Holds, Taken, NoStrangers, UserKey

LEMMA PutUser ==
  ASSUME ServiceInv, NEW u \in UserKey, NEW row, row # None,
         users' = [users EXCEPT ![u] = row]
  PROVE  People' = (People \ Dir!UserOf(u)) \cup {User(u, row)}
<1>1. \A v \in UserKey : users'[v] = IF v = u THEN row ELSE users[v]
  BY DEF ServiceInv, TypeOK, TablesTyped
<1>2. \A x : x \in People' <=>
        \E v \in UserKey : users'[v] # None /\ x = User(v, users'[v])
  BY DEF People
<1>3. \A x : x \in People <=>
        \E v \in UserKey : users[v] # None /\ x = User(v, users[v])
  BY DEF People
<1>4. \A x : x \in Dir!UserOf(u) <=> users[u] # None /\ x = User(u, users[u])
  BY Found
<1> QED BY <1>1, <1>2, <1>3, <1>4, Records

LEMMA DropUser ==
  ASSUME ServiceInv, NEW u \in UserKey, users' = [users EXCEPT ![u] = None]
  PROVE  People' = People \ Dir!UserOf(u)
<1>1. \A v \in UserKey : users'[v] = IF v = u THEN None ELSE users[v]
  BY DEF ServiceInv, TypeOK, TablesTyped
<1>2. \A x : x \in People' <=>
        \E v \in UserKey : users'[v] # None /\ x = User(v, users'[v])
  BY DEF People
<1>3. \A x : x \in People <=>
        \E v \in UserKey : users[v] # None /\ x = User(v, users[v])
  BY DEF People
<1>4. \A x : x \in Dir!UserOf(u) <=> users[u] # None /\ x = User(u, users[u])
  BY Found
<1> QED BY <1>1, <1>2, <1>3, <1>4, Records

LEMMA PutAccount ==
  ASSUME ServiceInv, NEW a \in AccountKey, NEW row, row # None,
         accounts' = [accounts EXCEPT ![a] = row]
  PROVE  Holdings' = (Holdings \ Dir!AccountOf(a)) \cup {Account(a, row)}
<1>1. \A v \in AccountKey : accounts'[v] = IF v = a THEN row ELSE accounts[v]
  BY DEF ServiceInv, TypeOK, TablesTyped
<1>2. \A x : x \in Holdings' <=>
        \E v \in AccountKey : accounts'[v] # None /\ x = Account(v, accounts'[v])
  BY DEF Holdings
<1>3. \A x : x \in Holdings <=>
        \E v \in AccountKey : accounts[v] # None /\ x = Account(v, accounts[v])
  BY DEF Holdings
<1>4. \A x : x \in Dir!AccountOf(a) <=> accounts[a] # None /\ x = Account(a, accounts[a])
  BY Found
<1> QED BY <1>1, <1>2, <1>3, <1>4, Records

LEMMA DropAccount ==
  ASSUME ServiceInv, NEW a \in AccountKey, accounts' = [accounts EXCEPT ![a] = None]
  PROVE  Holdings' = Holdings \ Dir!AccountOf(a)
<1>1. \A v \in AccountKey : accounts'[v] = IF v = a THEN None ELSE accounts[v]
  BY DEF ServiceInv, TypeOK, TablesTyped
<1>2. \A x : x \in Holdings' <=>
        \E v \in AccountKey : accounts'[v] # None /\ x = Account(v, accounts'[v])
  BY DEF Holdings
<1>3. \A x : x \in Holdings <=>
        \E v \in AccountKey : accounts[v] # None /\ x = Account(v, accounts[v])
  BY DEF Holdings
<1>4. \A x : x \in Dir!AccountOf(a) <=> accounts[a] # None /\ x = Account(a, accounts[a])
  BY Found
<1> QED BY <1>1, <1>2, <1>3, <1>4, Records

\* The cascade.
LEMMA DropHoldings ==
  ASSUME ServiceInv, NEW b \in Backend,
         accounts' = [a \in AccountKey |->
           IF accounts[a] # None /\ accounts[a].owner = backend[b].req.id THEN None
           ELSE accounts[a]]
  PROVE  Holdings' = {h \in Holdings : h.owner # backend[b].req.id}
<1> DEFINE u == backend[b].req.id
<1>1. \A a \in AccountKey :
        accounts'[a] = IF accounts[a] # None /\ accounts[a].owner = u THEN None
                       ELSE accounts[a]
  OBVIOUS
<1>2. \A x : x \in Holdings' <=>
        \E v \in AccountKey : accounts'[v] # None /\ x = Account(v, accounts'[v])
  BY DEF Holdings
<1>3. \A x : x \in Holdings <=>
        \E v \in AccountKey : accounts[v] # None /\ x = Account(v, accounts[v])
  BY DEF Holdings
<1>4. \A x : x \in Holdings' <=> x \in Holdings /\ x.owner # u
  BY <1>1, <1>2, <1>3, Records
<1> QED BY <1>4

\* Records with new fields.
LEMMA PatchedEmail ==
  ASSUME NEW i, NEW e, NEW n, NEW x
  PROVE  [[id |-> i, email |-> e, name |-> n] EXCEPT !.email = x] =
           [id |-> i, email |-> x, name |-> n]
<1> DEFINE f == [k \in {"id", "email", "name"} |->
                   IF k = "id" THEN i ELSE IF k = "email" THEN x ELSE n]
<1>1. [[id |-> i, email |-> e, name |-> n] EXCEPT !.email = x] = f
  OBVIOUS
<1>2. [id |-> i, email |-> x, name |-> n] = f
  OBVIOUS
<1> QED BY <1>1, <1>2

LEMMA PatchedName ==
  ASSUME NEW i, NEW e, NEW n, NEW y
  PROVE  [[id |-> i, email |-> e, name |-> n] EXCEPT !.name = y] =
           [id |-> i, email |-> e, name |-> y]
<1> DEFINE f == [k \in {"id", "email", "name"} |->
                   IF k = "id" THEN i ELSE IF k = "email" THEN e ELSE y]
<1>1. [[id |-> i, email |-> e, name |-> n] EXCEPT !.name = y] = f
  OBVIOUS
<1>2. [id |-> i, email |-> e, name |-> y] = f
  OBVIOUS
<1> QED BY <1>1, <1>2

AsPatched(p, e, n)    == [p EXCEPT !.email = Dir!Patched(@, e), !.name = Dir!Patched(@, n)]
RowPatched(old, e, n) == [email |-> COALESCE(e, old.email), name |-> COALESCE(n, old.name)]

LEMMA PatchedUser ==
  ASSUME NEW i, NEW old, NEW e, NEW n
  PROVE  AsPatched(User(i, old), e, n) = User(i, RowPatched(old, e, n))
<1> DEFINE oe == old.email
           on == old.name
           x == COALESCE(e, oe)
           y == COALESCE(n, on)
           q == User(i, old)
<1>1. [q EXCEPT !.email = Dir!Patched(@, e), !.name = Dir!Patched(@, n)] =
        [[q EXCEPT !.email = x] EXCEPT !.name = y]
  <2>1. q.email = oe /\ q.name = on
    BY DEF User
  <2> HIDE DEF q
  <2>2. Dir!Patched(q.email, e) = x /\ Dir!Patched(q.name, n) = y
    BY <2>1 DEF COALESCE, Dir!Patched
  <2> HIDE DEF x, y
  <2> QED BY <2>2
<1>2. q = [id |-> i, email |-> oe, name |-> on]
  BY DEF User
<1>3. [q EXCEPT !.email = x] = [id |-> i, email |-> x, name |-> on]
  <2> HIDE DEF oe, on, x, y, q
  <2> QED BY <1>2, PatchedEmail
<1>4. [[id |-> i, email |-> x, name |-> on] EXCEPT !.name = y] =
        [id |-> i, email |-> x, name |-> y]
  <2> HIDE DEF oe, on, x, y, q
  <2> QED BY PatchedName
<1>5. User(i, [email |-> x, name |-> y]) = [id |-> i, email |-> x, name |-> y]
  BY DEF User
<1> HIDE DEF oe, on, x, y, q
<1>6. [q EXCEPT !.email = Dir!Patched(@, e), !.name = Dir!Patched(@, n)] =
        User(i, [email |-> x, name |-> y])
  BY <1>1, <1>3, <1>4, <1>5
<1> QED BY <1>6 DEF oe, on, x, y, q, AsPatched, RowPatched

LEMMA PatchedAccount ==
  ASSUME NEW i, NEW o, NEW n, NEW y
  PROVE  [[id |-> i, owner |-> o, name |-> n] EXCEPT !.name = y] =
           [id |-> i, owner |-> o, name |-> y]
<1> DEFINE f == [k \in {"id", "owner", "name"} |->
                   IF k = "id" THEN i ELSE IF k = "owner" THEN o ELSE y]
<1>1. [[id |-> i, owner |-> o, name |-> n] EXCEPT !.name = y] = f
  OBVIOUS
<1>2. [id |-> i, owner |-> o, name |-> y] = f
  OBVIOUS
<1> QED BY <1>1, <1>2

LEMMA Chosen == \A v : (CHOOSE x \in {v} : TRUE) = v
OBVIOUS

\* The directory has the requests of the service.
LEMMA SameRequests ==
  /\ Dir!CreateUser = CreateUser /\ Dir!GetUser = GetUser
  /\ Dir!UpdateUser = UpdateUser /\ Dir!DeleteUser = DeleteUser
  /\ Dir!CreateAccount = CreateAccount /\ Dir!GetAccount = GetAccount
  /\ Dir!UpdateAccount = UpdateAccount /\ Dir!DeleteAccount = DeleteAccount
  /\ \A r : Dir!BadRequest(r) <=> BadRequest(r)
  /\ \A r : Dir!Accepted(r) <=> Accepted(r)
<1>1. /\ Dir!CreateUser = CreateUser /\ Dir!GetUser = GetUser
      /\ Dir!UpdateUser = UpdateUser /\ Dir!DeleteUser = DeleteUser
      /\ Dir!CreateAccount = CreateAccount /\ Dir!GetAccount = GetAccount
      /\ Dir!UpdateAccount = UpdateAccount /\ Dir!DeleteAccount = DeleteAccount
  BY DEF Dir!CreateUser, Dir!GetUser, Dir!UpdateUser, Dir!DeleteUser,
         Dir!CreateAccount, Dir!GetAccount, Dir!UpdateAccount, Dir!DeleteAccount,
         CreateUser, GetUser, UpdateUser, DeleteUser, CreateAccount, GetAccount,
         UpdateAccount, DeleteAccount, Dir!EmailParam, Dir!NameParam, Dir!UserKey,
         Dir!AccountKey, Dir!Currency, EmailParam, NameParam, UserKey, AccountKey,
         Currency
<1>2. \A r : /\ Dir!SchemaRejects(r) <=> SchemaRejects(r)
             /\ Dir!PathRejects(r) <=> PathRejects(r)
             /\ Dir!Unprocessable(r) <=> Unprocessable(r)
  BY <1>1 DEF Dir!SchemaRejects, Dir!PathRejects, Dir!Unprocessable, SchemaRejects,
              PathRejects, Unprocessable
<1> QED BY <1>1, <1>2 DEF Dir!BadRequest, Dir!Accepted, BadRequest, Accepted

LEMMA Outcomes ==
  /\ \A r \in CreateUser    : Dir!Outcome(r) = Dir!AddUser(r)
  /\ \A r \in GetUser       : Dir!Outcome(r) = Dir!Look(Dir!UserOf(r.id))
  /\ \A r \in UpdateUser    : Dir!Outcome(r) = Dir!ChangeUser(r)
  /\ \A r \in DeleteUser    : Dir!Outcome(r) = Dir!RemoveUser(r)
  /\ \A r \in CreateAccount : Dir!Outcome(r) = Dir!AddAccount(r)
  /\ \A r \in GetAccount    : Dir!Outcome(r) = Dir!Look(Dir!AccountOf(r.id))
  /\ \A r \in UpdateAccount : Dir!Outcome(r) = Dir!ChangeAccount(r)
  /\ \A r \in DeleteAccount : Dir!Outcome(r) = Dir!RemoveAccount(r)
BY Kinds, SameRequests DEF Dir!Outcome

LEMMA Successes ==
  /\ \A r \in Create : Success(r) = 201
  /\ \A r \in GetUser \cup UpdateUser \cup GetAccount \cup UpdateAccount : Success(r) = 200
  /\ \A r \in DeleteUser \cup DeleteAccount : Success(r) = 204
  /\ mapDomainError(mapError("no_rows")) = 404
  /\ mapDomainError(mapError("foreign_key_violation")) = 404
  /\ mapDomainError(mapError("unique_violation")) = 409
  /\ mapDomainError(mapError("failed")) = 500
BY Kinds DEF Create, Success, mapDomainError, mapError

-----------------------------------------------------------------------------
(* A statement does what its request does to the directory. *)

Verdict(b, result) ==
  IF result = "ok" THEN Success(backend[b].req) ELSE mapDomainError(mapError(result))

\* Statement b makes of the directory what it should and replies so.
Acts(b) ==
  LET r == backend[b].req
      o == Dir!Outcome(r)
  IN  /\ r \in Create => r.id \notin drawn
      /\ People' = o.people /\ Holdings' = o.holdings /\ drawn' = o.issued
      /\ \E result : Reply(b, result, o.body) /\ o.status = Verdict(b, result)

LEMMA SameFacts ==
  ASSUME NEW status, NEW body
  PROVE  Dir!Same(status, body) =
           [people |-> People, holdings |-> Holdings, issued |-> drawn,
            status |-> status, body |-> body]
BY DEF Dir!Same, People, Holdings

LEMMA Unchanged ==
  /\ users' = users => People' = People
  /\ accounts' = accounts => Holdings' = Holdings
BY DEF People, Holdings

\* A statement that changes nothing.
LEMMA Answers ==
  ASSUME ServiceInv, NEW b \in Backend, Busy(b), UNCHANGED db,
         NEW status, NEW body, NEW result, Reply(b, result, body),
         status = Verdict(b, result),
         Dir!Outcome(backend[b].req) = Dir!Same(status, body)
  PROVE  Acts(b)
<1> DEFINE r == backend[b].req
           o == Dir!Outcome(r)
<1>1. /\ o.people = People /\ o.holdings = Holdings /\ o.issued = drawn
      /\ o.status = status /\ o.body = body
  BY SameFacts
<1>2. r \in Create => r.id \notin drawn
  BY DEF ServiceInv, Drawn, Running, Create
<1>3. People' = People /\ Holdings' = Holdings /\ drawn' = drawn
  BY Unchanged DEF db
<1> QED BY <1>1, <1>2, <1>3 DEF Acts

LEMMA InsertUserActs ==
  ASSUME ServiceInv, NEW b \in Backend, InsertUser(b)
  PROVE  Acts(b)
<1> DEFINE r   == backend[b].req
           row == [email |-> r.email, name |-> r.name]
           p   == [id |-> r.id, email |-> r.email, name |-> r.name]
<1>1. Busy(b) /\ r \in CreateUser /\ Accepted(r)
  BY RunningFacts DEF InsertUser, Running
<1>2. Dir!Outcome(r) = IF Taken(r.email, r.id) THEN Dir!Same(409, None)
                       ELSE [Dir!Same(201, p) EXCEPT !.people = @ \cup {p},
                                                     !.issued = @ \cup {r.id}]
  <2>1. Dir!Outcome(r) = Dir!AddUser(r)
    BY <1>1, Outcomes
  <2> QED BY <2>1, HoldsTaken DEF Dir!AddUser
<1>3. CASE Taken(r.email, r.id) /\ Reply(b, "unique_violation", None) /\ UNCHANGED db
  <2>1. Verdict(b, "unique_violation") = 409
    BY Successes DEF Verdict
  <2> QED BY <1>1, <1>2, <1>3, <2>1, Answers
<1>4. CASE /\ ~Taken(r.email, r.id)
           /\ users' = [users EXCEPT ![r.id] = row]
           /\ drawn' = drawn \cup {r.id}
           /\ Reply(b, "ok", User(r.id, row))
           /\ UNCHANGED accounts
  <2> DEFINE o == Dir!Outcome(r)
  <2>1. /\ o.people = People \cup {p} /\ o.holdings = Holdings
        /\ o.issued = drawn \cup {r.id} /\ o.status = 201 /\ o.body = p
    <3> DEFINE m == Dir!Same(201, p)
    <3>1. m = [people |-> People, holdings |-> Holdings, issued |-> drawn,
               status |-> 201, body |-> p]
      BY SameFacts
    <3>2. o = [m EXCEPT !.people = @ \cup {p}, !.issued = @ \cup {r.id}]
      BY <1>2, <1>4
    <3> HIDE DEF m, o, p, r
    <3> QED BY <3>1, <3>2
  <2>2. User(r.id, row) = p
    BY DEF User
  <2>3. r.id \in UserKey /\ row # None
    BY <1>1, Kinds, CreateUserFacts, NoneAssumption
  <2>4. r.id \notin drawn /\ users[r.id] = None
    BY <1>1, <2>3 DEF ServiceInv, Drawn, Running
  <2>5. People' = (People \ Dir!UserOf(r.id)) \cup {User(r.id, row)}
    BY <1>4, <2>3, PutUser
  <2>6. Dir!UserOf(r.id) = {}
    BY <2>3, <2>4, Found
  <2>7. People' = People \cup {p}
    BY <2>2, <2>5, <2>6
  <2>8. Verdict(b, "ok") = 201
    BY <1>1, Successes DEF Verdict, Create
  <2> HIDE DEF row, p
  <2> QED BY <1>4, <2>1, <2>2, <2>4, <2>7, <2>8, Unchanged DEF Acts
<1> QED BY <1>3, <1>4 DEF InsertUser

LEMMA SelectUserActs ==
  ASSUME ServiceInv, NEW b \in Backend, SelectUser(b)
  PROVE  Acts(b)
<1> DEFINE r == backend[b].req
<1>1. Busy(b) /\ r \in GetUser /\ r.id \in UserKey /\ UNCHANGED db
  BY KeyFacts DEF SelectUser, Running
<1>2. Dir!Outcome(r) = IF users[r.id] = None THEN Dir!Same(404, None)
                       ELSE Dir!Same(200, User(r.id, users[r.id]))
  BY <1>1, Outcomes, Found, Chosen DEF Dir!Look
<1>3. Verdict(b, "no_rows") = 404 /\ Verdict(b, "ok") = 200
  BY <1>1, Successes DEF Verdict
<1> QED BY <1>1, <1>2, <1>3, Answers DEF SelectUser

LEMMA PatchUserActs ==
  ASSUME ServiceInv, NEW b \in Backend, PatchUser(b)
  PROVE  Acts(b)
<1> DEFINE r   == backend[b].req
           old == users[r.id]
           row == [email |-> COALESCE(r.email, old.email),
                   name  |-> COALESCE(r.name, old.name)]
           new == {[p EXCEPT !.email = Dir!Patched(@, r.email),
                             !.name  = Dir!Patched(@, r.name)] : p \in Dir!UserOf(r.id)}
<1>1. Busy(b) /\ r \in UpdateUser /\ r.id \in UserKey /\ Accepted(r)
  BY RunningFacts, Kinds DEF PatchUser, Running
<1>2. Dir!Outcome(r) = IF Dir!UserOf(r.id) # {} /\ Taken(r.email, r.id)
                       THEN Dir!Same(409, None)
                       ELSE [Dir!Look(new) EXCEPT
                               !.people = (@ \ Dir!UserOf(r.id)) \cup new]
  <2>1. Dir!Outcome(r) = Dir!ChangeUser(r)
    BY <1>1, Outcomes
  <2> QED BY <2>1, HoldsTaken DEF Dir!ChangeUser
<1>3. CASE old = None /\ Reply(b, "no_rows", None) /\ UNCHANGED db
  <2>1. Dir!UserOf(r.id) = {} /\ new = {}
    BY <1>1, <1>3, Found
  <2>2. Dir!Outcome(r) = [Dir!Same(404, None) EXCEPT !.people = (@ \ {}) \cup {}]
    BY <1>2, <2>1 DEF Dir!Look
  <2>3. Dir!Outcome(r) = Dir!Same(404, None)
    BY <2>2, SameFacts
  <2>4. Verdict(b, "no_rows") = 404
    BY Successes DEF Verdict
  <2> QED BY <1>1, <1>3, <2>3, <2>4, Answers
<1>4. ASSUME old # None
      PROVE  /\ Dir!UserOf(r.id) = {User(r.id, old)}
             /\ new = {User(r.id, row)}
             /\ row # None
             /\ Taken(row.email, r.id) <=> Taken(r.email, r.id)
  <2>1. Dir!UserOf(r.id) = {User(r.id, old)}
    BY <1>1, <1>4, Found
  <2>2. [User(r.id, old) EXCEPT !.email = Dir!Patched(@, r.email),
                                !.name  = Dir!Patched(@, r.name)] = User(r.id, row)
    <3>1. AsPatched(User(r.id, old), r.email, r.name) =
            User(r.id, RowPatched(old, r.email, r.name))
      BY PatchedUser
    <3> QED BY <3>1 DEF AsPatched, RowPatched
  <2>3. old \in UserRow
    BY <1>1, <1>4 DEF ServiceInv, TypeOK, TablesTyped
  <2>4. row # None
    BY <1>1, <2>3, UpdateUserFacts, NoneAssumption
  <2>5. r.email = Absent => ~Taken(r.email, r.id) /\ ~Taken(old.email, r.id)
    <3>1. \A u \in UserId : users[u] # None => users[u].email # Absent
      BY AbsentAssumption DEF ServiceInv, TypeOK, TablesTyped, UserRow, UserKey
    <3>2. ~Taken(old.email, r.id)
      BY <1>1, <1>4 DEF ServiceInv, Integrity, Taken, UserKey
    <3> QED BY <3>1, <3>2 DEF Taken
  <2>6. Taken(row.email, r.id) <=> Taken(r.email, r.id)
    BY <2>5 DEF COALESCE
  <2>7. new = {User(r.id, row)}
    <3> DEFINE F(q) == [q EXCEPT !.email = Dir!Patched(@, r.email),
                                 !.name  = Dir!Patched(@, r.name)]
    <3>1. F(User(r.id, old)) = User(r.id, row) /\ new = {F(q) : q \in Dir!UserOf(r.id)}
      BY <2>2
    <3> HIDE DEF F, new, row, old
    <3> QED BY <2>1, <3>1
  <2> QED BY <2>1, <2>4, <2>6, <2>7
<1>5. CASE /\ old # None /\ Taken(row.email, r.id)
           /\ Reply(b, "unique_violation", None) /\ UNCHANGED db
  <2>1. Verdict(b, "unique_violation") = 409
    BY Successes DEF Verdict
  <2>2. Dir!Outcome(r) = Dir!Same(409, None)
    BY <1>2, <1>4, <1>5
  <2> QED BY <1>1, <1>5, <2>1, <2>2, Answers
<1>6. CASE /\ old # None /\ ~Taken(row.email, r.id)
           /\ users' = [users EXCEPT ![r.id] = row]
           /\ Reply(b, "ok", User(r.id, row))
           /\ UNCHANGED <<accounts, drawn>>
  <2> DEFINE o == Dir!Outcome(r)
  <2> HIDE DEF row, old, new
  <2>1. Dir!Look(new) = Dir!Same(200, User(r.id, row))
    BY <1>4, <1>6, Chosen DEF Dir!Look
  <2>2. o = [Dir!Same(200, User(r.id, row)) EXCEPT
               !.people = (@ \ Dir!UserOf(r.id)) \cup {User(r.id, row)}]
    BY <1>2, <1>4, <1>6, <2>1
  <2>3. /\ o.people = (People \ Dir!UserOf(r.id)) \cup {User(r.id, row)}
        /\ o.holdings = Holdings /\ o.issued = drawn
        /\ o.status = 200 /\ o.body = User(r.id, row)
    BY <2>2, SameFacts
  <2>4. People' = (People \ Dir!UserOf(r.id)) \cup {User(r.id, row)}
    BY <1>1, <1>4, <1>6, PutUser
  <2>5. r \notin Create
    BY <1>1, Kinds DEF Create
  <2>6. Verdict(b, "ok") = 200
    BY <1>1, Successes DEF Verdict
  <2> QED BY <1>6, <2>3, <2>4, <2>5, <2>6, Unchanged DEF Acts
<1> QED BY <1>3, <1>5, <1>6 DEF PatchUser

LEMMA EraseUserActs ==
  ASSUME ServiceInv, NEW b \in Backend, EraseUser(b)
  PROVE  Acts(b)
<1> DEFINE r == backend[b].req
<1>1. Busy(b) /\ r \in DeleteUser /\ r.id \in UserKey
  BY Kinds DEF EraseUser, Running
<1>2. Dir!Outcome(r) = IF Dir!UserOf(r.id) = {} THEN Dir!Same(404, None)
                       ELSE [Dir!Same(204, None) EXCEPT
                               !.people   = @ \ Dir!UserOf(r.id),
                               !.holdings = {h \in @ : h.owner # r.id}]
  <2>1. Dir!Outcome(r) = Dir!RemoveUser(r)
    BY <1>1, Outcomes
  <2> QED BY <2>1 DEF Dir!RemoveUser
<1>3. CASE users[r.id] = None /\ Reply(b, "no_rows", None) /\ UNCHANGED db
  <2>1. Dir!Outcome(r) = Dir!Same(404, None)
    BY <1>1, <1>2, <1>3, Found
  <2>2. Verdict(b, "no_rows") = 404
    BY Successes DEF Verdict
  <2> QED BY <1>1, <1>3, <2>1, <2>2, Answers
<1>4. CASE /\ users[r.id] # None
           /\ users' = [users EXCEPT ![r.id] = None]
           /\ accounts' = [a \in AccountKey |->
                IF accounts[a] # None /\ accounts[a].owner = r.id THEN None
                ELSE accounts[a]]
           /\ Reply(b, "ok", None)
           /\ UNCHANGED drawn
  <2> DEFINE o == Dir!Outcome(r)
  <2>1. Dir!UserOf(r.id) # {}
    BY <1>1, <1>4, Found
  <2>2. /\ o.people = People \ Dir!UserOf(r.id)
        /\ o.holdings = {h \in Holdings : h.owner # r.id}
        /\ o.issued = drawn /\ o.status = 204 /\ o.body = None
    BY <1>2, <2>1, SameFacts
  <2>3. People' = o.people
    BY <1>1, <1>4, <2>2, DropUser
  <2>4. Holdings' = o.holdings
    BY <1>4, <2>2, DropHoldings
  <2>5. r \notin Create
    BY <1>1, Kinds DEF Create
  <2>6. Verdict(b, "ok") = 204
    BY <1>1, Successes DEF Verdict
  <2> QED BY <1>4, <2>2, <2>3, <2>4, <2>5, <2>6 DEF Acts
<1> QED BY <1>3, <1>4 DEF EraseUser

LEMMA InsertAccountActs ==
  ASSUME ServiceInv, NEW b \in Backend, InsertAccount(b)
  PROVE  Acts(b)
<1> DEFINE r   == backend[b].req
           row == [owner |-> r.owner, name |-> r.name]
           h   == [id |-> r.id, owner |-> r.owner, name |-> r.name]
<1>1. Busy(b) /\ r \in CreateAccount /\ Accepted(r) /\ r.owner \in UserKey
  BY RunningFacts, Kinds DEF InsertAccount, Running
<1>2. Dir!Outcome(r) = IF users[r.owner] = None THEN Dir!Same(404, None)
                       ELSE [Dir!Same(201, h) EXCEPT !.holdings = @ \cup {h},
                                                     !.issued = @ \cup {r.id}]
  <2>1. Dir!UserOf(r.owner) = {} <=> users[r.owner] = None
    BY <1>1, Found
  <2>2. Dir!Outcome(r) = Dir!AddAccount(r)
    BY <1>1, Outcomes
  <2> QED BY <2>1, <2>2 DEF Dir!AddAccount
<1>3. CASE users[r.owner] = None /\ Reply(b, "foreign_key_violation", None) /\ UNCHANGED db
  <2>1. Verdict(b, "foreign_key_violation") = 404
    BY Successes DEF Verdict
  <2> QED BY <1>1, <1>2, <1>3, <2>1, Answers
<1>4. CASE /\ users[r.owner] # None
           /\ accounts' = [accounts EXCEPT ![r.id] = row]
           /\ drawn' = drawn \cup {r.id}
           /\ Reply(b, "ok", Account(r.id, row))
           /\ UNCHANGED users
  <2> DEFINE o == Dir!Outcome(r)
  <2>1. /\ o.people = People /\ o.holdings = Holdings \cup {h}
        /\ o.issued = drawn \cup {r.id} /\ o.status = 201 /\ o.body = h
    <3> DEFINE m == Dir!Same(201, h)
    <3>1. m = [people |-> People, holdings |-> Holdings, issued |-> drawn,
               status |-> 201, body |-> h]
      BY SameFacts
    <3>2. o = [m EXCEPT !.holdings = @ \cup {h}, !.issued = @ \cup {r.id}]
      BY <1>2, <1>4
    <3> HIDE DEF m, o, h, r
    <3> QED BY <3>1, <3>2
  <2>2. Account(r.id, row) = h
    BY DEF Account
  <2>3. r.id \in AccountKey /\ row # None
    <3>1. r.owner \in UserId
      BY <1>1, <1>4 DEF ServiceInv, NoStrangers
    <3>2. row \in AccountRow
      BY <1>1, <3>1, CreateAccountFacts DEF AccountRow
    <3> QED BY <1>1, <3>2, Kinds, NoneAssumption
  <2>4. r.id \notin drawn /\ accounts[r.id] = None
    BY <1>1, <2>3 DEF ServiceInv, Drawn, Running
  <2>5. Holdings' = (Holdings \ Dir!AccountOf(r.id)) \cup {Account(r.id, row)}
    BY <1>4, <2>3, PutAccount
  <2>6. Dir!AccountOf(r.id) = {}
    BY <2>3, <2>4, Found
  <2>7. Holdings' = Holdings \cup {h}
    BY <2>2, <2>5, <2>6
  <2>8. Verdict(b, "ok") = 201
    BY <1>1, Successes DEF Verdict, Create
  <2> HIDE DEF row, h
  <2> QED BY <1>4, <2>1, <2>2, <2>4, <2>7, <2>8, Unchanged DEF Acts
<1> QED BY <1>3, <1>4 DEF InsertAccount

LEMMA SelectAccountActs ==
  ASSUME ServiceInv, NEW b \in Backend, SelectAccount(b)
  PROVE  Acts(b)
<1> DEFINE r == backend[b].req
<1>1. Busy(b) /\ r \in GetAccount /\ r.id \in AccountKey /\ UNCHANGED db
  BY KeyFacts DEF SelectAccount, Running
<1>2. Dir!Outcome(r) = IF accounts[r.id] = None THEN Dir!Same(404, None)
                       ELSE Dir!Same(200, Account(r.id, accounts[r.id]))
  BY <1>1, Outcomes, Found, Chosen DEF Dir!Look
<1>3. Verdict(b, "no_rows") = 404 /\ Verdict(b, "ok") = 200
  BY <1>1, Successes DEF Verdict
<1> QED BY <1>1, <1>2, <1>3, Answers DEF SelectAccount

LEMMA PatchAccountActs ==
  ASSUME ServiceInv, NEW b \in Backend, PatchAccount(b)
  PROVE  Acts(b)
<1> DEFINE r   == backend[b].req
           old == accounts[r.id]
           row == [old EXCEPT !.name = COALESCE(r.name, @)]
           new == {[h EXCEPT !.name = Dir!Patched(@, r.name)] : h \in Dir!AccountOf(r.id)}
<1>1. Busy(b) /\ r \in UpdateAccount /\ r.id \in AccountKey /\ Accepted(r)
  BY RunningFacts, Kinds DEF PatchAccount, Running
<1>2. Dir!Outcome(r) =
        [Dir!Look(new) EXCEPT !.holdings = (@ \ Dir!AccountOf(r.id)) \cup new]
  BY <1>1, Outcomes DEF Dir!ChangeAccount
<1>3. CASE old = None /\ Reply(b, "no_rows", None) /\ UNCHANGED db
  <2>1. Dir!AccountOf(r.id) = {} /\ new = {}
    BY <1>1, <1>3, Found
  <2>2. Dir!Outcome(r) = [Dir!Same(404, None) EXCEPT !.holdings = (@ \ {}) \cup {}]
    <3>1. Dir!Look({}) = Dir!Same(404, None)
      BY DEF Dir!Look
    <3> HIDE DEF new
    <3> QED BY <1>2, <2>1, <3>1
  <2>3. Dir!Outcome(r) = Dir!Same(404, None)
    BY <2>2, SameFacts
  <2>4. Verdict(b, "no_rows") = 404
    BY Successes DEF Verdict
  <2> QED BY <1>1, <1>3, <2>3, <2>4, Answers
<1>4. CASE /\ old # None
           /\ accounts' = [accounts EXCEPT ![r.id] = row]
           /\ Reply(b, "ok", Account(r.id, row))
           /\ UNCHANGED <<users, drawn>>
  <2> DEFINE o == Dir!Outcome(r)
  <2>1. old \in AccountRow
    BY <1>1, <1>4 DEF ServiceInv, TypeOK, TablesTyped
  <2>2. row # None /\ row.owner = old.owner /\ row.name = COALESCE(r.name, old.name)
    <3>1. row \in AccountRow /\ row.owner = old.owner
      BY <1>1, <2>1, UpdateAccountFacts
    <3>2. row.name = COALESCE(r.name, old.name)
      BY <2>1 DEF AccountRow
    <3> QED BY <3>1, <3>2, NoneAssumption
  <2>3. [Account(r.id, old) EXCEPT !.name = Dir!Patched(@, r.name)] = Account(r.id, row)
    BY <2>2, PatchedAccount DEF Account, COALESCE, Dir!Patched
  <2>4. Dir!AccountOf(r.id) = {Account(r.id, old)}
    BY <1>1, <1>4, Found
  <2>5. new = {Account(r.id, row)}
    <3> DEFINE F(h) == [h EXCEPT !.name = Dir!Patched(@, r.name)]
    <3>1. F(Account(r.id, old)) = Account(r.id, row)
          /\ new = {F(h) : h \in Dir!AccountOf(r.id)}
      BY <2>3
    <3> HIDE DEF F, new, row, old
    <3> QED BY <2>4, <3>1
  <2> HIDE DEF row, old, new
  <2>6. Dir!Look(new) = Dir!Same(200, Account(r.id, row))
    BY <2>5, Chosen DEF Dir!Look
  <2>7. o = [Dir!Same(200, Account(r.id, row)) EXCEPT
               !.holdings = (@ \ Dir!AccountOf(r.id)) \cup {Account(r.id, row)}]
    BY <1>2, <2>5, <2>6
  <2>8. /\ o.holdings = (Holdings \ Dir!AccountOf(r.id)) \cup {Account(r.id, row)}
        /\ o.people = People /\ o.issued = drawn
        /\ o.status = 200 /\ o.body = Account(r.id, row)
    BY <2>7, SameFacts
  <2>9. Holdings' = (Holdings \ Dir!AccountOf(r.id)) \cup {Account(r.id, row)}
    BY <1>1, <1>4, <2>2, PutAccount
  <2>10. r \notin Create
    BY <1>1, Kinds DEF Create
  <2>11. Verdict(b, "ok") = 200
    BY <1>1, Successes DEF Verdict
  <2> QED BY <1>4, <2>8, <2>9, <2>10, <2>11, Unchanged DEF Acts
<1> QED BY <1>3, <1>4 DEF PatchAccount

LEMMA EraseAccountActs ==
  ASSUME ServiceInv, NEW b \in Backend, EraseAccount(b)
  PROVE  Acts(b)
<1> DEFINE r == backend[b].req
<1>1. Busy(b) /\ r \in DeleteAccount /\ r.id \in AccountKey
  BY Kinds DEF EraseAccount, Running
<1>2. Dir!Outcome(r) = IF Dir!AccountOf(r.id) = {} THEN Dir!Same(404, None)
                       ELSE [Dir!Same(204, None) EXCEPT
                               !.holdings = @ \ Dir!AccountOf(r.id)]
  BY <1>1, Outcomes DEF Dir!RemoveAccount
<1>3. CASE accounts[r.id] = None /\ Reply(b, "no_rows", None) /\ UNCHANGED db
  <2>1. Dir!Outcome(r) = Dir!Same(404, None)
    BY <1>1, <1>2, <1>3, Found
  <2>2. Verdict(b, "no_rows") = 404
    BY Successes DEF Verdict
  <2> QED BY <1>1, <1>3, <2>1, <2>2, Answers
<1>4. CASE /\ accounts[r.id] # None
           /\ accounts' = [accounts EXCEPT ![r.id] = None]
           /\ Reply(b, "ok", None)
           /\ UNCHANGED <<users, drawn>>
  <2> DEFINE o == Dir!Outcome(r)
  <2>1. Dir!AccountOf(r.id) # {}
    BY <1>1, <1>4, Found
  <2>2. /\ o.people = People
        /\ o.holdings = Holdings \ Dir!AccountOf(r.id)
        /\ o.issued = drawn /\ o.status = 204 /\ o.body = None
    BY <1>2, <2>1, SameFacts
  <2>3. Holdings' = o.holdings
    BY <1>1, <1>4, <2>2, DropAccount
  <2>4. r \notin Create
    BY <1>1, Kinds DEF Create
  <2>5. Verdict(b, "ok") = 204
    BY <1>1, Successes DEF Verdict
  <2> QED BY <1>4, <2>2, <2>3, <2>4, <2>5, Unchanged DEF Acts
<1> QED BY <1>3, <1>4 DEF EraseAccount

LEMMA StatementActs ==
  ASSUME ServiceInv, NEW b \in Backend, Statement(b)
  PROVE  Acts(b)
BY InsertUserActs, SelectUserActs, PatchUserActs, EraseUserActs, InsertAccountActs,
   SelectAccountActs, PatchAccountActs, EraseAccountActs DEF Statement

-----------------------------------------------------------------------------
(* Every step of the service is one of the directory, or none. *)

LEMMA ReplyLimbo ==
  ASSUME ServiceInv, NEW b \in Backend, Busy(b), NEW result, NEW body,
         Reply(b, result, body)
  PROVE  /\ Limbo' = [Limbo EXCEPT ![b] = None]
         /\ backend[b].slot # None => Limbo' = Limbo
<1>1. \A c \in Backend : backend'[c] = IF c = b THEN None ELSE backend[c]
  BY DEF Reply, ServiceInv, TypeOK, CallsTyped
<1>2. \A c \in Backend : Limbo'[c] = IF c = b THEN None ELSE Limbo[c]
  BY <1>1 DEF Limbo, Lost, Busy
<1>3. Limbo' \in [Backend -> {Limbo'[c] : c \in Backend}]
  BY DEF Limbo
<1>4. backend[b].slot # None => Limbo[b] = None
  BY DEF Limbo, Lost
<1>5. Limbo = [c \in Backend |-> Limbo[c]] /\ Limbo' = [c \in Backend |-> Limbo'[c]]
  BY DEF Limbo
<1> QED BY <1>2, <1>4, <1>5

\* What the request of a slot will be answered.
LEMMA ReplyTells ==
  ASSUME ServiceInv, NEW b \in Backend, Busy(b), NEW result, NEW body,
         Reply(b, result, body)
  PROVE  LET r == backend[b].req
             s == backend[b].slot
         IN  /\ calls' = calls
             /\ s = None => answer' = answer
             /\ s # None =>
                  /\ s \in Slot /\ calls[s] = r /\ r # None /\ answer[s] = None
                  /\ answer' = [answer EXCEPT ![s] = Dir!Answer(Verdict(b, result), body)]
<1>1. CallsTyped /\ Attached
  BY Parts DEF CallsInv
<1>2. backend[b].slot # None =>
        /\ backend[b].slot \in Slot /\ calls[backend[b].slot] = backend[b].req
        /\ backend[b].req # None /\ answer[backend[b].slot] = None
  BY <1>1, AttachedSlot, NoneAssumption
<1> QED BY <1>2 DEF Reply, Verdict, Answer, Dir!Answer

LEMMA ActsInDirectory ==
  ASSUME ServiceInv, NEW b \in Backend, Busy(b), Acts(b)
  PROVE  Dir!Next
<1> DEFINE r == backend[b].req
           s == backend[b].slot
           o == Dir!Outcome(r)
<1>1. PICK result : Reply(b, result, o.body) /\ o.status = Verdict(b, result)
  BY DEF Acts
<1>2. /\ r \in Create => r.id \notin drawn
      /\ People' = o.people /\ Holdings' = o.holdings /\ drawn' = o.issued
  BY DEF Acts
<1>3. Limbo' = [Limbo EXCEPT ![b] = None] /\ (s # None => Limbo' = Limbo)
  BY <1>1, ReplyLimbo
<1>4. CASE s # None
  <2>1. /\ s \in Slot /\ calls[s] = r /\ r # None /\ answer[s] = None
        /\ calls' = calls
        /\ answer' = [answer EXCEPT ![s] = Dir!Answer(o.status, o.body)]
    BY <1>1, <1>4, ReplyTells
  <2>2. PICK t \in Slot : t = s
    BY <2>1
  <2>3. /\ calls[t] = r /\ r # None /\ answer[t] = None
        /\ answer' = [answer EXCEPT ![t] = Dir!Answer(o.status, o.body)]
    BY <2>1, <2>2
  <2>4. Dir!Perform(t)
    BY <1>2, <1>3, <1>4, <2>1, <2>3, SameRequests
       DEF Dir!Perform, Dir!Unanswered, Dir!Waiting, Dir!Act, Create, People, Holdings,
           Limbo
  <2> QED BY <2>4 DEF Dir!Next
<1>5. CASE s = None
  <2>1. answer' = answer /\ calls' = calls
    BY <1>1, <1>5, ReplyTells
  <2>2. Limbo[b] = r /\ r # None
    BY <1>5, NoneAssumption DEF Limbo, Lost, Busy, ServiceInv, TypeOK, CallsTyped, Job
  <2> QED BY <1>2, <1>3, <2>1, <2>2, SameRequests
             DEF Dir!Next, Dir!Settle, Dir!Act, Create, People, Holdings, Limbo
<1> QED BY <1>4, <1>5

\* Nothing of the directory moves.
LEMMA Idles == UNCHANGED db => Dir!Idle
BY DEF db, Dir!Idle

LEMMA FailInDirectory ==
  ASSUME ServiceInv, NEW b \in Backend, Fail(b)
  PROVE  Dir!Next
<1> DEFINE r == backend[b].req
           s == backend[b].slot
<1>1. Busy(b) /\ Reply(b, "failed", None) /\ Dir!Idle
  BY Idles DEF Fail
<1>2. Limbo' = [Limbo EXCEPT ![b] = None] /\ (s # None => Limbo' = Limbo)
  BY <1>1, ReplyLimbo
<1>3. Verdict(b, "failed") = 500
  BY Successes DEF Verdict
<1>4. CASE s # None
  <2>1. /\ s \in Slot /\ calls[s] = r /\ r # None /\ answer[s] = None
        /\ calls' = calls
        /\ answer' = [answer EXCEPT ![s] = Dir!Answer(500, None)]
    BY <1>1, <1>3, <1>4, ReplyTells
  <2> QED BY <1>1, <1>2, <1>4, <2>1
             DEF Dir!Next, Dir!GiveUp, Dir!Unanswered, Dir!Waiting, Limbo
<1>5. CASE s = None
  <2>1. answer' = answer /\ calls' = calls
    BY <1>1, <1>5, ReplyTells
  <2>2. Limbo[b] = r /\ r # None
    BY <1>1, <1>5, NoneAssumption DEF Limbo, Lost, Busy, ServiceInv, TypeOK, CallsTyped, Job
  <2> QED BY <1>1, <1>2, <2>1, <2>2 DEF Dir!Next, Dir!Settle, Limbo
<1> QED BY <1>4, <1>5

LEMMA AbandonInDirectory ==
  ASSUME ServiceInv, NEW b \in Backend, Abandon(b)
  PROVE  Dir!Next
<1> DEFINE r == backend[b].req
           s == backend[b].slot
<1>1. /\ Busy(b) /\ s # None /\ UNCHANGED db /\ calls' = calls
      /\ backend' = [backend EXCEPT ![b].slot = None]
      /\ answer' = [answer EXCEPT ![s] =
                     Answer(mapDomainError(mapError("failed")), None)]
  BY DEF Abandon
<1>2. backend[b] \in Job /\ backend \in [Backend -> Job \cup {None}]
  BY <1>1 DEF Busy, ServiceInv, TypeOK, CallsTyped
<1>3. s \in Slot /\ r \in Request /\ calls[s] = r /\ r # None /\ answer[s] = None
  BY <1>1, AttachedSlot, NoneAssumption DEF ServiceInv, TypeOK
<1>4. answer' = [answer EXCEPT ![s] = Dir!Answer(500, None)]
  BY <1>1, Successes DEF Answer, Dir!Answer
<1>5. \A c \in Backend : c # b => backend'[c] = backend[c]
  BY <1>1, <1>2
<1>6. backend'[b].req = r /\ backend'[b].slot = None /\ backend'[b] # None
  <2>1. backend'[b] = [backend[b] EXCEPT !.slot = None]
    BY <1>1, <1>2
  <2>2. backend'[b] \in Job
    BY <1>2, <2>1 DEF Job
  <2> QED BY <1>2, <2>1, <2>2, SlotAssumption DEF Job
<1>7. \A c \in Backend : Limbo'[c] = IF c = b THEN r ELSE Limbo[c]
  BY <1>5, <1>6 DEF Limbo, Lost, Busy
<1>8. Limbo = [c \in Backend |-> Limbo[c]] /\ Limbo' = [c \in Backend |-> Limbo'[c]]
  BY DEF Limbo
<1>9. Limbo[b] = None
  BY <1>1 DEF Limbo, Lost
<1>10. Limbo' = [Limbo EXCEPT ![b] = calls[s]]
  BY <1>3, <1>7, <1>8
<1> QED BY <1>1, <1>3, <1>4, <1>9, <1>10, Idles
           DEF Dir!Next, Dir!GiveUp, Dir!Unanswered, Dir!Waiting, Limbo

LEMMA ReceiveInDirectory ==
  ASSUME ServiceInv, NEW s \in Slot, NEW r \in Inputs, Receive(s, r)
  PROVE  Dir!Next
<1>0. ~Dir!Waiting(s) /\ Dir!Waiting(s)'
  <2>1. calls[s] = None /\ calls' = [calls EXCEPT ![s] = r]
    BY DEF Receive, Refuse, Send, Waiting
  <2>2. calls'[s] = r /\ r # None
    BY <2>1, InputsAssumption, NoneAssumption DEF ServiceInv, TypeOK, CallsTyped
  <2> QED BY <2>1, <2>2 DEF Dir!Waiting
<1>1. CASE Refuse(s, r)
  <2>1. Limbo' = Limbo
    BY <1>1 DEF Refuse, Limbo, Lost, Busy
  <2>2. answer' = [answer EXCEPT ![s] =
                    Dir!Answer(IF Dir!BadRequest(r) THEN 400 ELSE 422, None)]
    <3>1. Dir!BadRequest(r) <=> BadRequest(r)
      BY SameRequests
    <3>2. CASE BadRequest(r)
      BY <1>1, <3>1, <3>2 DEF Refuse, Answer, Dir!Answer
    <3>3. CASE ~BadRequest(r)
      BY <1>1, <3>1, <3>3 DEF Refuse, Answer, Dir!Answer
    <3> QED BY <3>2, <3>3
  <2>3. Dir!Refuse(s, r)
    BY <1>1, <2>1, <2>2, SameRequests, Idles
       DEF Refuse, Dir!Refuse, Waiting, Dir!Waiting, Limbo
  <2> QED BY <1>0, <2>3 DEF Dir!Next
<1>2. ASSUME NEW b \in Backend, Send(s, r, b)
      PROVE  Dir!Next
  <2>1. \A c \in Backend :
          backend'[c] = IF c = b THEN [req |-> r, slot |-> s] ELSE backend[c]
    BY <1>2 DEF Send, ServiceInv, TypeOK, CallsTyped
  <2>2. s # None /\ ~Busy(b)
    BY <1>2, SlotAssumption DEF Send
  <2>3. \A c \in Backend : Lost(c)' <=> Lost(c)
    BY <2>1, <2>2 DEF Lost, Busy
  <2>4. Limbo' = Limbo
    BY <2>1, <2>2, <2>3 DEF Limbo, Lost
  <2>5. Dir!Invoke(s, r)
    BY <1>2, <2>4, SameRequests, Idles DEF Send, Dir!Invoke, Waiting, Dir!Waiting, Limbo
  <2> QED BY <1>0, <2>5 DEF Dir!Next
<1> QED BY <1>1, <1>2 DEF Receive

LEMMA RespondInDirectory ==
  ASSUME NEW s \in Slot, Respond(s)
  PROVE  Dir!Next
<1>1. Limbo' = Limbo
  BY DEF Respond, Limbo, Lost, Busy
<1>2. Dir!Respond(s)
  BY <1>1, Idles DEF Respond, Dir!Respond, Limbo
<1> QED BY <1>2 DEF Dir!Next

LEMMA InitInDirectory == Init => Dir!Init
BY DEF Init, Dir!Init, Lost, Busy

LEMMA NextInDirectory == ServiceInv /\ [Next]_vars => [Dir!Next]_(Dir!vars)
<1> SUFFICES ASSUME ServiceInv, [Next]_vars
             PROVE  Dir!Next \/ UNCHANGED Dir!vars
  OBVIOUS
<1>1. CASE UNCHANGED vars
  BY <1>1 DEF vars, Dir!vars, Lost, Busy
<1>2. ASSUME NEW b \in Backend, Statement(b)
      PROVE  Dir!Next
  <2>1. Busy(b)
    BY <1>2 DEF Statement, InsertUser, SelectUser, PatchUser, EraseUser, InsertAccount,
                SelectAccount, PatchAccount, EraseAccount, Running
  <2> QED BY <1>2, <2>1, StatementActs, ActsInDirectory
<1> QED BY <1>1, <1>2, ReceiveInDirectory, RespondInDirectory, FailInDirectory,
           AbandonInDirectory DEF Next

\* To its clients the service is the directory: with any number of requests
\* and lost statements at once, each request acts in one step before its
\* answer, and only a 500 leaves its effect open.
THEOREM ServiceImplements == Spec => ImplementsDirectory
<1> QED BY InitInDirectory, NextInDirectory, ServiceInvariant, PTL
        DEF Spec, ImplementsDirectory, Dir!Spec

-----------------------------------------------------------------------------
(* III. The history. *)

UserOp    == GetUser \cup UpdateUser \cup DeleteUser
AccountOp == GetAccount \cup UpdateAccount \cup DeleteAccount
Delete    == DeleteUser \cup DeleteAccount

-----------------------------------------------------------------------------
(* What a statement does to rows. *)

RowsChange(b) ==
  /\ drawn \subseteq drawn'
  /\ \A u \in UserKey :
       /\ users[u] = None /\ users'[u] # None => u \notin drawn
       /\ users[u] # None /\ users'[u] = None =>
            Running(b, DeleteUser) /\ backend[b].req.id = u
  /\ \A a \in AccountKey :
       /\ accounts[a] = None /\ accounts'[a] # None => a \notin drawn
       /\ accounts[a] # None /\ accounts'[a] # None =>
            accounts'[a].owner = accounts[a].owner
       /\ accounts[a] # None /\ accounts'[a] = None =>
            \/ Running(b, DeleteUser) /\ backend[b].req.id = accounts[a].owner
            \/ Running(b, DeleteAccount) /\ backend[b].req.id = a

LEMMA StatementRows ==
  ASSUME ServiceInv, NEW b \in Backend, Statement(b)
  PROVE  RowsChange(b)
<1> DEFINE r == backend[b].req
<1>1. TablesTyped /\ Drawn
  BY DEF ServiceInv, TypeOK
<1>2. CASE UNCHANGED db
  BY <1>2 DEF db, RowsChange
<1>3. CASE InsertUser(b) /\ ~UNCHANGED db
  <2>1. /\ r.id \notin drawn /\ drawn' = drawn \cup {r.id}
        /\ \E row : users' = [users EXCEPT ![r.id] = row]
        /\ accounts' = accounts
    BY <1>1, <1>3 DEF InsertUser, Running, Drawn
  <2>2. r.id \in UserKey /\ users[r.id] = None
    BY <1>1, <1>3, <2>1, Kinds DEF Drawn, InsertUser, Running
  <2> QED BY <1>1, <2>1, <2>2 DEF RowsChange, TablesTyped
<1>4. CASE InsertAccount(b) /\ ~UNCHANGED db
  <2>1. /\ r.id \notin drawn /\ drawn' = drawn \cup {r.id}
        /\ \E row : accounts' = [accounts EXCEPT ![r.id] = row]
        /\ users' = users
    BY <1>1, <1>4 DEF InsertAccount, Running, Drawn
  <2>2. r.id \in AccountKey /\ accounts[r.id] = None
    BY <1>1, <1>4, <2>1, Kinds DEF Drawn, InsertAccount, Running
  <2> QED BY <1>1, <2>1, <2>2 DEF RowsChange, TablesTyped
<1>5. CASE PatchUser(b) /\ ~UNCHANGED db
  <2>1. /\ users[r.id] # None /\ Accepted(r) /\ r \in UpdateUser
        /\ users' = [users EXCEPT ![r.id] =
                       [email |-> COALESCE(r.email, users[r.id].email),
                        name  |-> COALESCE(r.name, users[r.id].name)]]
        /\ UNCHANGED <<accounts, drawn>>
    BY <1>5, RunningFacts DEF PatchUser
  <2>2. users[r.id] \in UserRow
    BY <1>1, <2>1, Kinds DEF TablesTyped
  <2>3. users'[r.id] # None
    BY <1>1, <2>1, <2>2, UpdateUserFacts, NoneAssumption DEF TablesTyped
  <2> QED BY <1>1, <2>1, <2>3 DEF RowsChange, TablesTyped
<1>6. CASE PatchAccount(b) /\ ~UNCHANGED db
  <2>1. /\ accounts[r.id] # None /\ Accepted(r) /\ r \in UpdateAccount
        /\ accounts' = [accounts EXCEPT ![r.id] =
                          [accounts[r.id] EXCEPT !.name = COALESCE(r.name, @)]]
        /\ UNCHANGED <<users, drawn>>
    BY <1>6, RunningFacts DEF PatchAccount
  <2>2. accounts[r.id] \in AccountRow
    BY <1>1, <2>1, Kinds DEF TablesTyped
  <2>3. accounts'[r.id] # None /\ accounts'[r.id].owner = accounts[r.id].owner
    BY <1>1, <2>1, <2>2, UpdateAccountFacts, NoneAssumption DEF TablesTyped
  <2> QED BY <1>1, <2>1, <2>3 DEF RowsChange, TablesTyped
<1>7. CASE EraseUser(b) /\ ~UNCHANGED db
  <2>1. /\ Running(b, DeleteUser)
        /\ users' = [users EXCEPT ![r.id] = None]
        /\ accounts' = [a \in AccountKey |->
             IF accounts[a] # None /\ accounts[a].owner = r.id THEN None
             ELSE accounts[a]]
        /\ drawn' = drawn
    BY <1>7 DEF EraseUser
  <2> QED BY <1>1, <2>1 DEF RowsChange, TablesTyped
<1>8. CASE EraseAccount(b) /\ ~UNCHANGED db
  <2>1. /\ Running(b, DeleteAccount)
        /\ accounts' = [accounts EXCEPT ![r.id] = None]
        /\ users' = users /\ drawn' = drawn
    BY <1>8 DEF EraseAccount
  <2> QED BY <1>1, <2>1 DEF RowsChange, TablesTyped
<1> QED BY <1>2, <1>3, <1>4, <1>5, <1>6, <1>7, <1>8
        DEF Statement, SelectUser, SelectAccount

-----------------------------------------------------------------------------
(* What an answer says of the rows. *)

\* The row of request r is there.
Has(us, as, r) ==
  \/ r \in UserOp /\ us[r.id] # None
  \/ r \in AccountOp /\ as[r.id] # None

Truthful(r, status) ==
  /\ status = 201 =>
       /\ r.id \notin drawn /\ r.id \in drawn'
       /\ \/ r \in CreateUser /\ users'[r.id] # None
          \/ /\ r \in CreateAccount
             /\ users[r.owner] # None
             /\ accounts'[r.id] # None
             /\ accounts'[r.id].owner = r.owner
  /\ status \in {200, 204} => Has(users, accounts, r)
  /\ status \in {204, 404} =>
       \/ r \in CreateAccount /\ status = 404 /\ users'[r.owner] = None
       \/ r \in UserOp /\ users'[r.id] = None
       \/ r \in AccountOp /\ accounts'[r.id] = None

\* The answer statement b is about to be given.
Says(b, status) ==
  Busy(b) /\ \E result, body : Reply(b, result, body) /\ Verdict(b, result) = status

LEMMA StatementTruthful ==
  ASSUME ServiceInv, NEW b \in Backend, Statement(b)
  PROVE  \E status : Says(b, status) /\ Truthful(backend[b].req, status)
<1> DEFINE r == backend[b].req
<1>1. TablesTyped /\ Drawn
  BY DEF ServiceInv, TypeOK
<1>2. \A result, body : Busy(b) /\ Reply(b, result, body) => Says(b, Verdict(b, result))
  BY DEF Says
<1>3. CASE InsertUser(b)
  <2>1. Busy(b) /\ r \in CreateUser /\ r.id \in UserKey
    BY <1>3, Kinds DEF InsertUser, Running
  <2>2. CASE Reply(b, "unique_violation", None)
    <3>1. Says(b, 409)
      BY <1>2, <2>1, <2>2, Successes DEF Verdict
    <3> QED BY <3>1 DEF Truthful
  <2>3. ASSUME NEW row, Reply(b, "ok", User(r.id, row)),
               users' = [users EXCEPT ![r.id] = row],
               row = [email |-> r.email, name |-> r.name],
               drawn' = drawn \cup {r.id}
        PROVE  \E status : Says(b, status) /\ Truthful(r, status)
    <3>1. Says(b, 201)
      BY <1>2, <2>1, <2>3, Successes DEF Verdict, Create
    <3>2. row # None
      BY <1>3, <2>1, <2>3, RunningFacts, CreateUserFacts, NoneAssumption DEF InsertUser
    <3>3. r.id \notin drawn
      BY <1>1, <2>1 DEF Drawn, Running
    <3> QED BY <1>1, <2>1, <2>3, <3>1, <3>2, <3>3 DEF Truthful, TablesTyped
  <2> QED BY <1>3, <2>2, <2>3 DEF InsertUser
<1>4. CASE InsertAccount(b)
  <2>1. Busy(b) /\ r \in CreateAccount /\ r.id \in AccountKey /\ r.owner \in UserKey
    BY <1>4, Kinds DEF InsertAccount, Running
  <2>2. CASE /\ users[r.owner] = None
             /\ Reply(b, "foreign_key_violation", None)
             /\ UNCHANGED db
    <3>1. Says(b, 404)
      BY <1>2, <2>1, <2>2, Successes DEF Verdict
    <3> QED BY <2>1, <2>2, <3>1 DEF Truthful, db
  <2>3. ASSUME NEW row, Reply(b, "ok", Account(r.id, row)), users[r.owner] # None,
               accounts' = [accounts EXCEPT ![r.id] = row],
               row = [owner |-> r.owner, name |-> r.name],
               drawn' = drawn \cup {r.id}
        PROVE  \E status : Says(b, status) /\ Truthful(r, status)
    <3>1. Says(b, 201)
      BY <1>2, <2>1, <2>3, Successes DEF Verdict, Create
    <3>2. row # None /\ row.owner = r.owner
      <4>1. r.owner \in UserId
        BY <2>1, <2>3 DEF ServiceInv, NoStrangers
      <4>2. r.name \in Name
        BY <1>4, <2>1, RunningFacts, CreateAccountFacts DEF InsertAccount
      <4>3. row \in AccountRow /\ row.owner = r.owner
        BY <2>3, <4>1, <4>2 DEF AccountRow
      <4> QED BY <4>3, NoneAssumption
    <3>3. r.id \notin drawn
      BY <1>1, <2>1 DEF Drawn, Running
    <3> QED BY <1>1, <2>1, <2>3, <3>1, <3>2, <3>3 DEF Truthful, TablesTyped
  <2> QED BY <1>4, <2>2, <2>3 DEF InsertAccount
<1>5. CASE SelectUser(b)
  <2>1. Busy(b) /\ r \in GetUser /\ UNCHANGED db
    BY <1>5 DEF SelectUser, Running
  <2>2. Verdict(b, "no_rows") = 404 /\ Verdict(b, "ok") = 200
    BY <2>1, Successes DEF Verdict
  <2>3. \/ users[r.id] = None /\ Says(b, 404)
        \/ users[r.id] # None /\ Says(b, 200)
    BY <1>2, <1>5, <2>1, <2>2 DEF SelectUser
  <2> QED BY <2>1, <2>3 DEF Truthful, Has, UserOp, db
<1>6. CASE PatchUser(b)
  <2>1. Busy(b) /\ r \in UpdateUser
    BY <1>6 DEF PatchUser, Running
  <2>2. /\ Verdict(b, "no_rows") = 404 /\ Verdict(b, "ok") = 200
        /\ Verdict(b, "unique_violation") = 409
    BY <2>1, Successes DEF Verdict
  <2>3. \/ users[r.id] = None /\ users' = users /\ Says(b, 404)
        \/ users[r.id] # None /\ Says(b, 200)
        \/ Says(b, 409)
    BY <1>2, <1>6, <2>1, <2>2 DEF PatchUser, db
  <2> QED BY <2>1, <2>3 DEF Truthful, Has, UserOp
<1>7. CASE EraseUser(b)
  <2>1. Busy(b) /\ r \in DeleteUser /\ r.id \in UserKey
    BY <1>7, Kinds DEF EraseUser, Running
  <2>2. Verdict(b, "no_rows") = 404 /\ Verdict(b, "ok") = 204
    BY <2>1, Successes DEF Verdict
  <2>3. \/ users[r.id] = None /\ users' = users /\ Says(b, 404)
        \/ /\ users[r.id] # None /\ Says(b, 204)
           /\ users' = [users EXCEPT ![r.id] = None]
    BY <1>2, <1>7, <2>1, <2>2 DEF EraseUser, db
  <2> QED BY <1>1, <2>1, <2>3 DEF Truthful, Has, UserOp, TablesTyped
<1>8. CASE SelectAccount(b)
  <2>1. Busy(b) /\ r \in GetAccount /\ UNCHANGED db
    BY <1>8 DEF SelectAccount, Running
  <2>2. Verdict(b, "no_rows") = 404 /\ Verdict(b, "ok") = 200
    BY <2>1, Successes DEF Verdict
  <2>3. \/ accounts[r.id] = None /\ Says(b, 404)
        \/ accounts[r.id] # None /\ Says(b, 200)
    BY <1>2, <1>8, <2>1, <2>2 DEF SelectAccount
  <2> QED BY <2>1, <2>3 DEF Truthful, Has, AccountOp, db
<1>9. CASE PatchAccount(b)
  <2>1. Busy(b) /\ r \in UpdateAccount
    BY <1>9 DEF PatchAccount, Running
  <2>2. Verdict(b, "no_rows") = 404 /\ Verdict(b, "ok") = 200
    BY <2>1, Successes DEF Verdict
  <2>3. \/ accounts[r.id] = None /\ accounts' = accounts /\ Says(b, 404)
        \/ accounts[r.id] # None /\ Says(b, 200)
    BY <1>2, <1>9, <2>1, <2>2 DEF PatchAccount, db
  <2> QED BY <2>1, <2>3 DEF Truthful, Has, AccountOp
<1>10. CASE EraseAccount(b)
  <2>1. Busy(b) /\ r \in DeleteAccount /\ r.id \in AccountKey
    BY <1>10, Kinds DEF EraseAccount, Running
  <2>2. Verdict(b, "no_rows") = 404 /\ Verdict(b, "ok") = 204
    BY <2>1, Successes DEF Verdict
  <2>3. \/ accounts[r.id] = None /\ accounts' = accounts /\ Says(b, 404)
        \/ /\ accounts[r.id] # None /\ Says(b, 204)
           /\ accounts' = [accounts EXCEPT ![r.id] = None]
    BY <1>2, <1>10, <2>1, <2>2 DEF EraseAccount, db
  <2> QED BY <1>1, <2>1, <2>3 DEF Truthful, Has, AccountOp, TablesTyped
<1> QED BY <1>3, <1>4, <1>5, <1>6, <1>7, <1>8, <1>9, <1>10 DEF Statement

-----------------------------------------------------------------------------
(* Every step. *)

LEMMA Steps == ServiceInv /\ Next => UNCHANGED db \/ \E b \in Backend : RowsChange(b)
BY StatementRows DEF Next, Receive, Refuse, Send, Respond, Fail, Abandon

\* What a statement that is done leaves of a slot.
LEMMA SaysSlot ==
  ASSUME ServiceInv, NEW b \in Backend, NEW status, Says(b, status), NEW s \in Slot
  PROVE  \/ calls'[s] = calls[s] /\ answer'[s] = answer[s]
         \/ /\ calls'[s] = calls[s] /\ calls[s] = backend[b].req
            /\ calls[s] \in Request /\ answer[s] = None /\ answer'[s].status = status
<1>1. PICK result, body : Busy(b) /\ Reply(b, result, body) /\ Verdict(b, result) = status
  BY DEF Says
<1>2. calls' = calls /\ CallsTyped /\ Attached
  BY <1>1, ReplyTells, Parts DEF CallsInv
<1>3. CASE backend[b].slot = None
  BY <1>1, <1>2, <1>3, ReplyTells
<1>4. CASE backend[b].slot # None
  <2>1. /\ backend[b].slot \in Slot /\ calls[backend[b].slot] = backend[b].req
        /\ backend[b].req \in Request /\ answer[backend[b].slot] = None
    BY <1>1, <1>2, <1>4, AttachedSlot
  <2>2. answer' = [answer EXCEPT ![backend[b].slot] = Dir!Answer(status, body)]
    BY <1>1, <1>4, ReplyTells
  <2>3. CASE s = backend[b].slot
    BY <1>2, <2>1, <2>2, <2>3 DEF CallsTyped, Dir!Answer
  <2>4. CASE s # backend[b].slot
    BY <1>2, <2>2, <2>4 DEF CallsTyped
  <2> QED BY <2>3, <2>4
<1> QED BY <1>3, <1>4

\* A slot stays as it is, is answered, gets a request, or knows its answer.
LEMMA SlotSteps ==
  ASSUME ServiceInv, Next, NEW s \in Slot
  PROVE  \/ calls'[s] = calls[s] /\ answer'[s] = answer[s]
         \/ answer[s] # None /\ answer'[s] = None /\ calls'[s] = None
         \/ /\ calls[s] = None /\ calls'[s] \in Request
            /\ Names(calls'[s]) \subseteq drawn \cup {Stranger, Malformed}
            /\ answer'[s] = None \/ answer'[s].status \in {400, 422}
         \/ /\ calls'[s] = calls[s] /\ calls[s] \in Request /\ answer[s] = None
            /\ \/ answer'[s].status = 500
               \/ \E status : answer'[s].status = status /\ Truthful(calls[s], status)
<1>1. CallsTyped /\ Attached
  BY Parts DEF CallsInv
<1>2. ASSUME NEW t \in Slot, NEW r \in Inputs, Receive(t, r)
      PROVE  \/ calls'[s] = calls[s] /\ answer'[s] = answer[s]
             \/ /\ calls[s] = None /\ calls'[s] \in Request
                /\ Names(calls'[s]) \subseteq drawn \cup {Stranger, Malformed}
                /\ answer'[s] = None \/ answer'[s].status \in {400, 422}
  <2>1. r \in Request /\ Names(r) \subseteq drawn \cup {Stranger, Malformed}
    BY <1>2, InputsAssumption DEF Receive, Nameable
  <2>2. calls[t] = None /\ answer[t] = None /\ calls' = [calls EXCEPT ![t] = r]
    BY <1>1, <1>2 DEF Receive, Refuse, Send, Waiting, CallsTyped
  <2>3. \/ answer' = answer
        \/ \E status \in {400, 422} : answer' = [answer EXCEPT ![t] = Answer(status, None)]
    BY <1>2 DEF Receive, Refuse, Send
  <2> QED BY <1>1, <2>1, <2>2, <2>3 DEF CallsTyped, Answer
<1>3. ASSUME NEW t \in Slot, Respond(t)
      PROVE  \/ calls'[s] = calls[s] /\ answer'[s] = answer[s]
             \/ answer[s] # None /\ answer'[s] = None /\ calls'[s] = None
  BY <1>1, <1>3 DEF Respond, CallsTyped
<1>4. ASSUME NEW b \in Backend, Statement(b)
      PROVE  \/ calls'[s] = calls[s] /\ answer'[s] = answer[s]
             \/ /\ calls'[s] = calls[s] /\ calls[s] \in Request /\ answer[s] = None
                /\ \E status : answer'[s].status = status /\ Truthful(calls[s], status)
  <2>1. PICK status : Says(b, status) /\ Truthful(backend[b].req, status)
    BY <1>4, StatementTruthful
  <2>2. calls[s] = backend[b].req => Truthful(calls[s], status)
    BY <2>1 DEF Truthful
  <2> QED BY <2>1, <2>2, SaysSlot
<1>5. ASSUME NEW b \in Backend, Fail(b)
      PROVE  \/ calls'[s] = calls[s] /\ answer'[s] = answer[s]
             \/ /\ calls'[s] = calls[s] /\ calls[s] \in Request /\ answer[s] = None
                /\ answer'[s].status = 500
  <2>1. Says(b, 500)
    BY <1>5, Successes DEF Fail, Says, Verdict
  <2> QED BY <2>1, SaysSlot
<1>6. ASSUME NEW b \in Backend, Abandon(b)
      PROVE  \/ calls'[s] = calls[s] /\ answer'[s] = answer[s]
             \/ /\ calls'[s] = calls[s] /\ calls[s] \in Request /\ answer[s] = None
                /\ answer'[s].status = 500
  <2>1. /\ Busy(b) /\ backend[b].slot # None /\ calls' = calls
        /\ answer' = [answer EXCEPT ![backend[b].slot] = Answer(500, None)]
    BY <1>6, Successes DEF Abandon
  <2>2. /\ backend[b].slot \in Slot /\ calls[backend[b].slot] = backend[b].req
        /\ backend[b].req \in Request /\ answer[backend[b].slot] = None
    BY <1>1, <2>1, AttachedSlot
  <2> QED BY <1>1, <2>1, <2>2 DEF CallsTyped, Answer
<1> QED BY <1>2, <1>3, <1>4, <1>5, <1>6 DEF Next

\* A DELETE that runs has run before or is sent now, for a known id.
DeletesSent ==
  \A c \in Backend : Running(c, Delete)' =>
    \/ Running(c, Delete) /\ backend'[c].req = backend[c].req
    \/ backend'[c].req \in Sent /\ backend'[c].req.id \in drawn \cup {Stranger, Malformed}

LEMMA ReplyDeletes ==
  ASSUME ServiceInv, NEW b \in Backend, NEW result, NEW body, Reply(b, result, body)
  PROVE  DeletesSent
<1>1. \A c \in Backend : backend'[c] = IF c = b THEN None ELSE backend[c]
  BY DEF Reply, ServiceInv, TypeOK, CallsTyped
<1> QED BY <1>1 DEF DeletesSent, Running, Busy

LEMMA StepDeletes ==
  ASSUME ServiceInv, Next
  PROVE  DeletesSent
<1>1. ASSUME UNCHANGED backend
      PROVE  DeletesSent
  BY <1>1 DEF DeletesSent, Running, Busy
<1>2. ASSUME NEW s \in Slot, NEW r \in Inputs, NEW b \in Backend, Nameable(r), Send(s, r, b)
      PROVE  DeletesSent
  <2>1. \A c \in Backend :
          backend'[c] = IF c = b THEN [req |-> r, slot |-> s] ELSE backend[c]
    BY <1>2 DEF Send, ServiceInv, TypeOK, CallsTyped
  <2>2. calls[s] = None /\ calls'[s] = r /\ r # None
    BY <1>2, InputsAssumption, NoneAssumption
       DEF Send, Waiting, ServiceInv, TypeOK, CallsTyped
  <2>3. r \in Delete => r \in Sent
    BY <2>2 DEF Sent, Called, Delete
  <2>4. r \in Delete => r.id \in drawn \cup {Stranger, Malformed}
    BY <1>2, Kinds DEF Nameable, Names, Delete
  <2> QED BY <2>1, <2>3, <2>4 DEF DeletesSent, Running, Busy
<1>3. ASSUME NEW b \in Backend, Statement(b)
      PROVE  DeletesSent
  <2>1. \E result, body : Reply(b, result, body)
    BY <1>3 DEF Statement, InsertUser, SelectUser, PatchUser, EraseUser, InsertAccount,
                SelectAccount, PatchAccount, EraseAccount
  <2> QED BY <2>1, ReplyDeletes
<1>4. ASSUME NEW b \in Backend, Fail(b)
      PROVE  DeletesSent
  BY <1>4, ReplyDeletes DEF Fail
<1>5. ASSUME NEW b \in Backend, Abandon(b)
      PROVE  DeletesSent
  <2>1. /\ Busy(b) /\ backend' = [backend EXCEPT ![b].slot = None]
        /\ backend \in [Backend -> Job \cup {None}]
    BY <1>5 DEF Abandon, ServiceInv, TypeOK, CallsTyped
  <2>2. backend[b] \in Job
    BY <2>1 DEF Busy
  <2>3. \A c \in Backend :
          /\ Busy(c)' => Busy(c)
          /\ backend'[c].req = backend[c].req
    BY <2>1, <2>2 DEF Busy, Job
  <2> QED BY <2>3 DEF DeletesSent, Running
<1>6. ASSUME NEW s \in Slot, NEW r \in Inputs, Receive(s, r)
      PROVE  DeletesSent
  BY <1>1, <1>2, <1>6 DEF Receive, Refuse
<1>7. ASSUME NEW s \in Slot, Respond(s)
      PROVE  DeletesSent
  BY <1>1, <1>7 DEF Respond
<1> QED BY <1>3, <1>4, <1>5, <1>6, <1>7 DEF Next

-----------------------------------------------------------------------------
(* The invariant.  It speaks of the answers given and of those about to be. *)

About(statuses) == {s \in Slot : answer[s] # None /\ answer[s].status \in statuses}

Acks  == created \cup {calls[s] : s \in About({201})}
Known == missing \cup (drawn \cap UNION {Names(calls[s]) : s \in About({204, 404})})

Created ==
  \A r \in Acks :
    /\ r \in Create
    /\ r.id \in drawn
    /\ r \in CreateAccount /\ accounts[r.id] # None => accounts[r.id].owner = r.owner

Stays ==
  \A r \in Acks :
    \/ r.id \in doomed
    \/ r \in CreateUser /\ users[r.id] # None
    \/ r \in CreateAccount /\ (accounts[r.id] # None \/ r.owner \in doomed)

Deleting ==
  \A b \in Backend :
    Running(b, Delete) => backend[b].req.id \in doomed \cup {Stranger, Malformed}

Gone ==
  \A m \in Known :
    /\ m \in drawn
    /\ m \in UserKey => users[m] = None
    /\ m \in AccountKey => accounts[m] = None

Named ==
  \A s \in Slot : Waiting(s) => Names(calls[s]) \subseteq drawn \cup {Stranger, Malformed}

Late ==
  \A s \in late : s \in Slot /\ Waiting(s) /\ Names(calls[s]) \cap missing # {}

HistoryInv ==
  ServiceInv /\ Created /\ Stays /\ Deleting /\ Gone /\ Named /\ Late /\ GoneIsFinal

LEMMA HistoryInit == HInit => HistoryInv
<1> SUFFICES ASSUME HInit PROVE HistoryInv
  OBVIOUS
<1>1. /\ ServiceInv /\ created = {} /\ missing = {} /\ late = {}
      /\ \A s \in Slot : calls[s] = None /\ answer[s] = None
      /\ \A b \in Backend : backend[b] = None
  BY InitInv DEF HInit, Init
<1>2. Acks = {} /\ Known = {}
  BY <1>1 DEF Acks, Known, About
<1> QED BY <1>1, <1>2
        DEF HistoryInv, Created, Stays, Deleting, Gone, Named, Late, GoneIsFinal,
            Running, Busy, Waiting

\* An id that was drawn is a user's or an account's, not both.
LEMMA DrawnApart ==
  ASSUME ServiceInv, NEW m \in drawn
  PROVE  /\ m \in UserKey => m \notin AccountKey
         /\ m \notin {Stranger, Malformed}
BY KeyAssumption DEF ServiceInv, TypeOK, TablesTyped, UserKey, AccountKey

LEMMA OpKeys ==
  /\ \A r \in UserOp : r.id \in UserKey /\ Names(r) = {r.id}
  /\ \A r \in AccountOp : r.id \in AccountKey /\ Names(r) = {r.id}
  /\ \A r \in CreateAccount : r.owner \in UserKey /\ Names(r) = {r.owner}
  /\ \A r \in CreateUser : Names(r) = {}
BY Kinds, KeyFacts DEF UserOp, AccountOp, Names

LEMMA DeletingKept == HistoryInv /\ HNext => Deleting'
<1> SUFFICES ASSUME HistoryInv, HNext, NEW c \in Backend, Running(c, Delete)'
             PROVE  backend'[c].req.id \in doomed' \cup {Stranger, Malformed}
  BY DEF Deleting
<1>1. DeletesSent /\ Deleting
  BY StepDeletes DEF HistoryInv, HNext
<1>2. doomed' = doomed \cup (drawn \cap {r.id : r \in Sent})
  BY DEF HNext
<1> QED BY <1>1, <1>2 DEF DeletesSent, Deleting

LEMMA DrawnGrows == ServiceInv /\ Next => drawn \subseteq drawn'
BY Steps DEF RowsChange, db

\* A create that is or will be acknowledged was so before, or has just made
\* its row.
LEMMA AcksGrow ==
  ASSUME HistoryInv, HNext, NEW r \in Acks'
  PROVE  r \in Acks \/ Truthful(r, 201)
<1>1. ServiceInv /\ Next
  BY DEF HistoryInv, HNext
<1>2. CASE r \in created'
  BY <1>2 DEF HNext, Told, Acks, About
<1>3. ASSUME NEW s \in Slot, answer'[s] # None, answer'[s].status = 201, r = calls'[s]
      PROVE  r \in Acks \/ Truthful(r, 201)
  <2>1. CASE calls'[s] = calls[s] /\ answer'[s] = answer[s]
    BY <1>3, <2>1 DEF Acks, About
  <2>2. ASSUME NEW status, answer'[s].status = status, Truthful(calls[s], status),
               calls'[s] = calls[s]
        PROVE  Truthful(r, 201)
    BY <1>3, <2>2 DEF Truthful
  <2> QED BY <1>1, <1>3, <2>1, <2>2, SlotSteps
<1> QED BY <1>2, <1>3 DEF Acks, About

\* Likewise for rows that are or will be told to be gone.
LEMMA KnownGrows ==
  ASSUME HistoryInv, HNext, NEW m \in Known'
  PROVE  /\ m \in drawn
         /\ \/ m \in Known
            \/ \E r, status : /\ status \in {204, 404} /\ m \in Names(r)
                              /\ Truthful(r, status)
<1>1. ServiceInv /\ Next /\ Named /\ Gone
  BY DEF HistoryInv, HNext
<1>2. CASE m \in missing'
  <2>1. m \in Known
    BY <1>2 DEF HNext, Told, Known, About
  <2> QED BY <1>1, <2>1 DEF Gone
<1>3. ASSUME NEW s \in Slot, answer'[s] # None, answer'[s].status \in {204, 404},
             m \in Names(calls'[s]), m \in drawn'
      PROVE  /\ m \in drawn
             /\ \/ m \in Known
                \/ \E r, status : /\ status \in {204, 404} /\ m \in Names(r)
                                  /\ Truthful(r, status)
  <2>1. ServiceInv'
    BY <1>1, NextInv
  <2>2. Waiting(s)'
    BY <1>3, <2>1 DEF ServiceInv, TypeOK, CallsTyped
  <2>3. m \notin {Stranger, Malformed}
    BY <1>3, <2>1, KeyAssumption DEF ServiceInv, TypeOK, TablesTyped
  <2>4. calls'[s] = calls[s] => m \in drawn
    BY <1>1, <1>3, <2>2, <2>3 DEF Named, Waiting
  <2>5. CASE calls'[s] = calls[s] /\ answer'[s] = answer[s]
    BY <1>3, <2>4, <2>5 DEF Known, About
  <2>6. ASSUME NEW status, answer'[s].status = status, Truthful(calls[s], status),
               calls'[s] = calls[s]
        PROVE  /\ m \in drawn
               /\ \E r, st : st \in {204, 404} /\ m \in Names(r) /\ Truthful(r, st)
    <3>1. PICK r : r = calls[s]
      OBVIOUS
    <3>2. Truthful(r, status)
      BY <2>6, <3>1 DEF Truthful
    <3> QED BY <1>3, <2>4, <2>6, <3>1, <3>2
  <2> QED BY <1>1, <1>3, <2>5, <2>6, SlotSteps
<1> QED BY <1>2, <1>3 DEF Known, About

LEMMA CreatedKept == HistoryInv /\ HNext => Created'
<1> SUFFICES ASSUME HistoryInv, HNext, NEW r \in Acks'
             PROVE  /\ r \in Create
                    /\ r.id \in drawn'
                    /\ r \in CreateAccount /\ accounts'[r.id] # None =>
                         accounts'[r.id].owner = r.owner
  BY DEF Created
<1>1. ServiceInv /\ Next /\ Created
  BY DEF HistoryInv, HNext
<1>2. CASE r \in Acks
  <2>1. /\ r \in Create /\ r.id \in drawn
        /\ r \in CreateAccount /\ accounts[r.id] # None => accounts[r.id].owner = r.owner
    BY <1>1, <1>2 DEF Created
  <2>2. r \in CreateAccount => r.id \in AccountKey
    BY Kinds
  <2> QED BY <1>1, <2>1, <2>2, Steps DEF RowsChange, db
<1>3. CASE Truthful(r, 201)
  <2>1. ~(r \in CreateUser /\ r \in CreateAccount)
    BY Kinds
  <2> QED BY <1>3, <2>1 DEF Truthful, Create
<1> QED BY <1>2, <1>3, AcksGrow

LEMMA GoneKept == HistoryInv /\ HNext => Gone'
<1> SUFFICES ASSUME HistoryInv, HNext, NEW m \in Known'
             PROVE  /\ m \in drawn'
                    /\ m \in UserKey => users'[m] = None
                    /\ m \in AccountKey => accounts'[m] = None
  BY DEF Gone
<1>1. ServiceInv /\ Next /\ Gone
  BY DEF HistoryInv, HNext
<1>2. m \in drawn /\ drawn \subseteq drawn'
  BY <1>1, DrawnGrows, KnownGrows
<1>3. CASE m \in Known
  <2>1. /\ m \in UserKey => users[m] = None
        /\ m \in AccountKey => accounts[m] = None
    BY <1>1, <1>3 DEF Gone
  <2> QED BY <1>1, <1>2, <2>1, Steps DEF RowsChange, db
<1>4. ASSUME NEW r, NEW status \in {204, 404}, m \in Names(r), Truthful(r, status)
      PROVE  /\ m \in UserKey => users'[m] = None
             /\ m \in AccountKey => accounts'[m] = None
  <2>1. m \in UserKey => m \notin AccountKey
    BY <1>1, <1>2, DrawnApart
  <2>2. CASE r \in CreateAccount /\ users'[r.owner] = None
    BY <1>4, <2>1, <2>2, OpKeys
  <2>3. CASE \/ r \in UserOp /\ users'[r.id] = None
             \/ r \in AccountOp /\ accounts'[r.id] = None
    BY <1>4, <2>1, <2>3, OpKeys
  <2> QED BY <1>4, <2>2, <2>3 DEF Truthful
<1> QED BY <1>2, <1>3, <1>4, KnownGrows

LEMMA StaysKept == HistoryInv /\ HNext => Stays'
<1> SUFFICES ASSUME HistoryInv, HNext, NEW r \in Acks'
             PROVE  \/ r.id \in doomed'
                    \/ r \in CreateUser /\ users'[r.id] # None
                    \/ r \in CreateAccount /\ (accounts'[r.id] # None \/ r.owner \in doomed')
  BY DEF Stays
<1>1. ServiceInv /\ Next /\ Created /\ Deleting /\ Stays
  BY DEF HistoryInv, HNext
<1>2. doomed \subseteq doomed'
  BY DEF HNext
<1>3. CASE Truthful(r, 201)
  BY <1>3 DEF Truthful
<1>4. CASE r \in Acks /\ r.id \notin doomed
  <2>1. CASE UNCHANGED db
    BY <1>1, <1>2, <1>4, <2>1 DEF Stays, db
  <2>2. ASSUME NEW b \in Backend, RowsChange(b)
        PROVE  \/ r.id \in doomed'
               \/ r \in CreateUser /\ users'[r.id] # None
               \/ r \in CreateAccount /\ (accounts'[r.id] # None \/ r.owner \in doomed')
    <3> DEFINE k == backend[b].req.id
    <3>1. Running(b, Delete) => k \in doomed \cup {Stranger, Malformed}
      BY <1>1 DEF Deleting
    <3>2. /\ Running(b, DeleteUser) => Running(b, Delete)
          /\ Running(b, DeleteAccount) => Running(b, Delete)
      BY DEF Running, Delete
    <3>3. r.id \in drawn /\ r.id \notin {Stranger, Malformed}
      BY <1>1, <1>4, DrawnApart DEF Created
    <3>4. CASE r \in CreateUser /\ users[r.id] # None
      <4>1. r.id \in UserKey
        BY <3>4, Kinds
      <4>2. users'[r.id] = None => Running(b, DeleteUser) /\ k = r.id
        BY <2>2, <3>4, <4>1 DEF RowsChange
      <4> QED BY <1>4, <3>1, <3>2, <3>3, <3>4, <4>2
    <3>5. CASE r \in CreateAccount /\ accounts[r.id] # None
      <4>1. r.id \in AccountKey /\ r.owner \in UserKey
        BY <3>5, Kinds
      <4>2. accounts[r.id].owner = r.owner
        BY <1>1, <1>4, <3>5 DEF Created
      <4>3. accounts'[r.id] = None =>
              \/ Running(b, DeleteUser) /\ k = r.owner
              \/ Running(b, DeleteAccount) /\ k = r.id
        BY <2>2, <3>5, <4>1, <4>2 DEF RowsChange
      <4>4. r.owner \notin {Stranger, Malformed}
        BY <1>1, <3>5, <4>1, <4>2, KeyAssumption, NoneAssumption
           DEF ServiceInv, TypeOK, TablesTyped, AccountRow
      <4> QED BY <1>2, <1>4, <3>1, <3>2, <3>3, <3>5, <4>3, <4>4
    <3>6. CASE r \in CreateAccount /\ r.owner \in doomed
      BY <1>2, <3>6
    <3> QED BY <1>1, <1>4, <3>4, <3>5, <3>6 DEF Stays
  <2> QED BY <1>1, <2>1, <2>2, Steps
<1>5. CASE r.id \in doomed
  BY <1>2, <1>5
<1> QED BY <1>3, <1>4, <1>5, AcksGrow

LEMMA NamedKept == HistoryInv /\ HNext => Named'
<1> SUFFICES ASSUME HistoryInv, HNext, NEW s \in Slot, Waiting(s)'
             PROVE  Names(calls'[s]) \subseteq drawn' \cup {Stranger, Malformed}
  BY DEF Named, Waiting
<1>1. ServiceInv /\ Next /\ Named /\ drawn \subseteq drawn'
  BY DrawnGrows DEF HistoryInv, HNext
<1>2. CASE calls'[s] = calls[s]
  <2>1. Names(calls[s]) \subseteq drawn \cup {Stranger, Malformed}
    BY <1>1, <1>2 DEF Named, Waiting
  <2> QED BY <1>1, <1>2, <2>1
<1>3. CASE calls'[s] # calls[s]
  BY <1>1, <1>3, SlotSteps DEF Waiting
<1> QED BY <1>2, <1>3

\* A slot that is late after a step was so before, or has just got its request.
LEMMA LateSteps ==
  ASSUME HistoryInv, HNext, NEW s \in late'
  PROVE  /\ s \in Slot
         /\ \/ /\ s \in late /\ calls'[s] = calls[s] /\ calls[s] # None
               /\ Names(calls[s]) \cap missing # {}
               /\ \/ answer'[s] = answer[s]
                  \/ answer'[s].status = 500
                  \/ \E status : answer'[s].status = status /\ Truthful(calls[s], status)
            \/ /\ calls'[s] # None /\ Names(calls'[s]) \cap missing # {}
               /\ answer'[s] = None \/ answer'[s].status \in {400, 422}
<1>1. ServiceInv /\ Next /\ Late
  BY DEF HistoryInv, HNext
<1>2. CASE s \in late /\ calls'[s] # None
  <2>1. s \in Slot /\ calls[s] # None /\ Names(calls[s]) \cap missing # {}
    BY <1>1, <1>2 DEF Late, Waiting
  <2> QED BY <1>1, <1>2, <2>1, SlotSteps
<1>3. CASE s \in Called /\ Names(calls'[s]) \cap missing # {}
  <2>1. s \in Slot /\ calls[s] = None /\ calls'[s] # None
    BY <1>3 DEF Called
  <2> QED BY <1>1, <1>3, <2>1, SlotSteps
<1> QED BY <1>2, <1>3 DEF HNext

LEMMA LateKept == HistoryInv /\ HNext => Late' /\ GoneIsFinal'
<1> SUFFICES ASSUME HistoryInv, HNext, NEW s \in late'
             PROVE  /\ s \in Slot /\ Waiting(s)' /\ Names(calls'[s]) \cap missing' # {}
                    /\ answer'[s] # None => answer'[s].status \notin {200, 201, 204}
  BY DEF Late, GoneIsFinal
<1>1. Gone /\ GoneIsFinal /\ missing \subseteq missing'
  BY DEF HistoryInv, HNext
<1>2. s \in Slot /\ Waiting(s)' /\ Names(calls'[s]) \cap missing' # {}
  BY <1>1, LateSteps DEF Waiting
<1>3. ASSUME NEW r, Names(r) \cap missing # {}, NEW status, Truthful(r, status)
      PROVE  status \notin {200, 201, 204}
  <2>1. \A m \in missing : /\ m \in drawn
                           /\ m \in UserKey => users[m] = None
                           /\ m \in AccountKey => accounts[m] = None
    BY <1>1 DEF Gone, Known
  <2>2. PICK m \in missing : m \in Names(r)
    BY <1>3
  <2>3. ASSUME r \in CreateUser PROVE FALSE
    BY <2>2, <2>3, OpKeys
  <2>4. ASSUME r \in CreateAccount, users[r.owner] # None PROVE FALSE
    BY <2>1, <2>2, <2>4, OpKeys
  <2>5. ASSUME Has(users, accounts, r) PROVE FALSE
    BY <2>1, <2>2, <2>5, OpKeys DEF Has
  <2> QED BY <1>3, <2>3, <2>4, <2>5 DEF Truthful
<1>4. ASSUME NEW status, answer'[s].status = status, Truthful(calls[s], status),
             Names(calls[s]) \cap missing # {}
      PROVE  answer'[s].status \notin {200, 201, 204}
  <2>1. PICK r : r = calls[s]
    OBVIOUS
  <2>2. Truthful(r, status)
    BY <1>4, <2>1 DEF Truthful
  <2> QED BY <1>3, <1>4, <2>1, <2>2
<1>5. answer'[s] # None => answer'[s].status \notin {200, 201, 204}
  <2>1. CASE s \in late /\ answer'[s] = answer[s]
    BY <1>1, <2>1 DEF GoneIsFinal
  <2> QED BY <1>4, <2>1, LateSteps
<1> QED BY <1>2, <1>5

LEMMA HistoryNext == HistoryInv /\ [HNext]_hvars => HistoryInv'
<1>1. HistoryInv /\ UNCHANGED hvars => HistoryInv'
  <2> SUFFICES ASSUME HistoryInv, UNCHANGED hvars PROVE HistoryInv'
    OBVIOUS
  <2>1. UNCHANGED vars /\ UNCHANGED <<created, doomed, missing, late>>
    BY DEF hvars, vars
  <2>2. ServiceInv'
    BY <2>1, NextInv DEF HistoryInv
  <2>3. Acks' = Acks /\ Known' = Known
    BY <2>1 DEF Acks, Known, About, vars
  <2>4. Created' /\ Stays' /\ Gone'
    BY <2>1, <2>3 DEF HistoryInv, Created, Stays, Gone, vars
  <2>5. Deleting' /\ Named' /\ Late' /\ GoneIsFinal'
    BY <2>1 DEF HistoryInv, Deleting, Named, Late, GoneIsFinal, vars, Running, Busy, Waiting
  <2> QED BY <2>2, <2>4, <2>5 DEF HistoryInv
<1>2. HistoryInv /\ HNext => ServiceInv'
  BY NextInv DEF HistoryInv, HNext
<1> QED BY <1>1, <1>2, CreatedKept, DeletingKept, GoneKept, StaysKept, NamedKept, LateKept
        DEF HistoryInv

\* Rows that were acknowledged are there until their deletion is asked for.
THEOREM CreationsLast == HSpec => []CreatedStays
<1>1. HistoryInv => CreatedStays
  BY DEF HistoryInv, Stays, CreatedStays, Acks
<1> QED BY <1>1, HistoryInit, HistoryNext, PTL DEF HSpec

\* What an answer has told to be gone, no later request finds, however the
\* answers of overlapping requests are ordered.
THEOREM GoneStaysGone == HSpec => []GoneIsFinal
<1>1. HistoryInv => GoneIsFinal
  BY DEF HistoryInv
<1> QED BY <1>1, HistoryInit, HistoryNext, PTL DEF HSpec
=============================================================================
