------------------------------ MODULE Service ------------------------------
(***************************************************************************)
(* The CRUD requests as the service runs them: validator, handler and      *)
(* domain service check a request, the repository sends one SQL statement  *)
(* over a connection of the pool, the PostgreSQL backend of the connection *)
(* commits it, mapError and mapDomainError turn its result into an answer, *)
(* and the goroutine of the request gives it.                              *)
(*                                                                         *)
(* Many requests are in flight, and what others do between a commit and    *)
(* its answer, the answer does not know.  A request whose context is       *)
(* cancelled, or whose connection breaks, is answered 500 while its        *)
(* backend may not have noticed: the statement goes on without anyone to   *)
(* report to.                                                              *)
(***************************************************************************)
EXTENDS Api, Naturals

CONSTANTS
  Slot,     \* bound: requests in flight at a time
  Backend,  \* bound: PostgreSQL backends with a statement at a time
  Inputs    \* bound: the requests clients make

Job == [req: Request, slot: Slot \cup {None}]

ASSUME InputsAssumption == Inputs \subseteq Request
ASSUME SlotAssumption == None \notin Slot /\ None \notin Job

VARIABLES
  users,     \* the users table, by uuid
  accounts,  \* the accounts table, by uuid
  drawn,     \* the uuids of all rows ever inserted
  calls,     \* per slot, the request it waits on
  backend,   \* per backend, its statement and the slot waiting for it
  answer     \* per slot, the answer its goroutine is about to give

db   == <<users, accounts, drawn>>
vars == <<users, accounts, drawn, calls, backend, answer>>

Init ==
  /\ users = [u \in UserKey |-> None]
  /\ accounts = [a \in AccountKey |-> None]
  /\ drawn = {}
  /\ calls = [s \in Slot |-> None]
  /\ backend = [b \in Backend |-> None]
  /\ answer = [s \in Slot |-> None]

Answer(status, body) == [status |-> status, body |-> body]

Waiting(s) == calls[s] # None
Busy(b)    == backend[b] # None

-----------------------------------------------------------------------------
(* Receiving a request. *)

\* uuid.New: an id no row has had and no other statement holds.
Fresh(id) ==
  /\ id \notin drawn
  /\ \A b \in Backend : Busy(b) => backend[b].req.id # id

\* The ids of rows a request names: the account of a create has none yet.
Names(r) ==
  IF r \in CreateUser THEN {}
  ELSE IF r \in CreateAccount THEN {r.owner} ELSE {r.id}

\* A client names rows there are or were, and wrong ids.
Nameable(r) ==
  /\ r \in CreateUser \cup CreateAccount => Fresh(r.id)
  /\ Names(r) \subseteq drawn \cup {Stranger, Malformed}

\* Validator and handler answer 400, the domain service 422.
Refuse(s, r) ==
  /\ ~Waiting(s)
  /\ ~Accepted(r)
  /\ calls' = [calls EXCEPT ![s] = r]
  /\ answer' = [answer EXCEPT ![s] =
                  Answer(IF BadRequest(r) THEN 400 ELSE 422, None)]
  /\ UNCHANGED <<db, backend>>

\* The repository sends its statement over a free connection.
Send(s, r, b) ==
  /\ ~Waiting(s)
  /\ Accepted(r)
  /\ ~Busy(b)
  /\ calls' = [calls EXCEPT ![s] = r]
  /\ backend' = [backend EXCEPT ![b] = [req |-> r, slot |-> s]]
  /\ UNCHANGED <<db, answer>>

-----------------------------------------------------------------------------
(* Answering it. *)

\* pgx.ErrNoRows and the SQLSTATEs, as domain errors.
mapError(result) ==
  CASE result = "no_rows"               -> "not_found"
    [] result = "unique_violation"      -> "conflict"
    [] result = "foreign_key_violation" -> "not_found"
    [] OTHER                            -> "database"

\* Broken: a conflict is told as a missing user.
mapDomainErrorWithoutConflict(err) ==
  CASE err = "not_found"  -> 404
    [] err = "conflict"   -> 404
    [] err = "validation" -> 422
    [] OTHER              -> 500

mapDomainError(err) ==
  CASE err = "not_found"  -> 404
    [] err = "conflict"   -> 409
    [] err = "validation" -> 422
    [] OTHER              -> 500

Success(r) ==
  IF r \in CreateUser \cup CreateAccount THEN 201
  ELSE IF r \in DeleteUser \cup DeleteAccount THEN 204 ELSE 200

\* Backend b is done; the slot that waits for it knows its answer.
Reply(b, result, body) ==
  LET s == backend[b].slot
      status == IF result = "ok" THEN Success(backend[b].req)
                ELSE mapDomainError(mapError(result))
  IN  /\ backend' = [backend EXCEPT ![b] = None]
      /\ IF s = None THEN UNCHANGED answer
         ELSE answer' = [answer EXCEPT ![s] = Answer(status, body)]
      /\ UNCHANGED calls

\* The handler writes the answer; the client may have gone.
Respond(s) ==
  /\ answer[s] # None
  /\ calls' = [calls EXCEPT ![s] = None]
  /\ answer' = [answer EXCEPT ![s] = None]
  /\ UNCHANGED <<db, backend>>

-----------------------------------------------------------------------------
(* The statements.  Each is a transaction of its own. *)

Running(b, Op) == Busy(b) /\ backend[b].req \in Op

\* What RETURNING and SELECT give of a row.
User(u, row)    == [id |-> u, email |-> row.email, name |-> row.name]
Account(a, row) == [id |-> a, owner |-> row.owner, name |-> row.name]

\* Broken: only an INSERT is held to the unique index.
TakenOnInsert(email, id) ==
  users[id] = None /\ \E u \in UserId : users[u] # None /\ users[u].email = email

\* idx_users_email.
Taken(email, id) ==
  \E u \in UserId \ {id} : users[u] # None /\ users[u].email = email

COALESCE(new, old) == IF new = Absent THEN old ELSE new

InsertUser(b) ==
  LET r   == backend[b].req
      row == [email |-> r.email, name |-> r.name]
  IN  /\ Running(b, CreateUser)
      /\ \/ /\ Taken(r.email, r.id)
            /\ Reply(b, "unique_violation", None)
            /\ UNCHANGED db
         \/ /\ ~Taken(r.email, r.id)
            /\ users' = [users EXCEPT ![r.id] = row]
            /\ drawn' = drawn \cup {r.id}
            /\ Reply(b, "ok", User(r.id, row))
            /\ UNCHANGED accounts

SelectUser(b) ==
  LET u == backend[b].req.id
  IN  /\ Running(b, GetUser)
      /\ IF users[u] = None THEN Reply(b, "no_rows", None)
         ELSE Reply(b, "ok", User(u, users[u]))
      /\ UNCHANGED db

PatchUser(b) ==
  LET r   == backend[b].req
      old == users[r.id]
      row == [email |-> COALESCE(r.email, old.email),
              name  |-> COALESCE(r.name, old.name)]
  IN  /\ Running(b, UpdateUser)
      /\ \/ old = None /\ Reply(b, "no_rows", None) /\ UNCHANGED db
         \/ /\ old # None
            /\ Taken(row.email, r.id)
            /\ Reply(b, "unique_violation", None)
            /\ UNCHANGED db
         \/ /\ old # None
            /\ ~Taken(row.email, r.id)
            /\ users' = [users EXCEPT ![r.id] = row]
            /\ Reply(b, "ok", User(r.id, row))
            /\ UNCHANGED <<accounts, drawn>>

\* Broken: the foreign key of accounts has no ON DELETE CASCADE.
EraseUserOnly(b) ==
  LET u == backend[b].req.id
  IN  /\ Running(b, DeleteUser)
      /\ \/ users[u] = None /\ Reply(b, "no_rows", None) /\ UNCHANGED db
         \/ /\ users[u] # None
            /\ users' = [users EXCEPT ![u] = None]
            /\ Reply(b, "ok", None)
            /\ UNCHANGED <<accounts, drawn>>

\* Broken: the DELETE lacks its WHERE.
EraseAllUsers(b) ==
  LET u == backend[b].req.id
  IN  /\ Running(b, DeleteUser)
      /\ \/ users[u] = None /\ Reply(b, "no_rows", None) /\ UNCHANGED db
         \/ /\ users[u] # None
            /\ users' = [v \in UserKey |-> None]
            /\ accounts' = [a \in AccountKey |-> None]
            /\ Reply(b, "ok", None)
            /\ UNCHANGED drawn

\* The foreign key of accounts takes the user's accounts along.
EraseUser(b) ==
  LET u == backend[b].req.id
  IN  /\ Running(b, DeleteUser)
      /\ \/ users[u] = None /\ Reply(b, "no_rows", None) /\ UNCHANGED db
         \/ /\ users[u] # None
            /\ users' = [users EXCEPT ![u] = None]
            /\ accounts' = [a \in AccountKey |->
                 IF accounts[a] # None /\ accounts[a].owner = u THEN None
                 ELSE accounts[a]]
            /\ Reply(b, "ok", None)
            /\ UNCHANGED drawn

InsertAccount(b) ==
  LET r   == backend[b].req
      row == [owner |-> r.owner, name |-> r.name]
  IN  /\ Running(b, CreateAccount)
      /\ \/ /\ users[r.owner] = None
            /\ Reply(b, "foreign_key_violation", None)
            /\ UNCHANGED db
         \/ /\ users[r.owner] # None
            /\ accounts' = [accounts EXCEPT ![r.id] = row]
            /\ drawn' = drawn \cup {r.id}
            /\ Reply(b, "ok", Account(r.id, row))
            /\ UNCHANGED users

SelectAccount(b) ==
  LET a == backend[b].req.id
  IN  /\ Running(b, GetAccount)
      /\ IF accounts[a] = None THEN Reply(b, "no_rows", None)
         ELSE Reply(b, "ok", Account(a, accounts[a]))
      /\ UNCHANGED db

PatchAccount(b) ==
  LET r   == backend[b].req
      old == accounts[r.id]
      row == [old EXCEPT !.name = COALESCE(r.name, @)]
  IN  /\ Running(b, UpdateAccount)
      /\ \/ old = None /\ Reply(b, "no_rows", None) /\ UNCHANGED db
         \/ /\ old # None
            /\ accounts' = [accounts EXCEPT ![r.id] = row]
            /\ Reply(b, "ok", Account(r.id, row))
            /\ UNCHANGED <<users, drawn>>

\* Broken: RowsAffected is not looked at.
EraseAccountUncounted(b) ==
  LET a == backend[b].req.id
  IN  /\ Running(b, DeleteAccount)
      /\ accounts' = [accounts EXCEPT ![a] = None]
      /\ Reply(b, "ok", None)
      /\ UNCHANGED <<users, drawn>>

EraseAccount(b) ==
  LET a == backend[b].req.id
  IN  /\ Running(b, DeleteAccount)
      /\ \/ accounts[a] = None /\ Reply(b, "no_rows", None) /\ UNCHANGED db
         \/ /\ accounts[a] # None
            /\ accounts' = [accounts EXCEPT ![a] = None]
            /\ Reply(b, "ok", None)
            /\ UNCHANGED <<users, drawn>>

-----------------------------------------------------------------------------
(* Failures. *)

\* No connection was to be had, the statement failed, or a lost one is
\* rolled back.
Fail(b) ==
  /\ Busy(b)
  /\ Reply(b, "failed", None)
  /\ UNCHANGED db

\* The context is cancelled or the connection breaks before the result is
\* read: the pool closes it and the request will be answered 500, while the
\* backend may still be at work.  As the answer is given later, this is also
\* the request whose statement has committed and whose result is lost.
Abandon(b) ==
  LET s == backend[b].slot
  IN  /\ Busy(b)
      /\ s # None
      /\ backend' = [backend EXCEPT ![b].slot = None]
      /\ answer' = [answer EXCEPT ![s] =
                      Answer(mapDomainError(mapError("failed")), None)]
      /\ UNCHANGED <<db, calls>>

Receive(s, r) == Nameable(r) /\ (Refuse(s, r) \/ \E b \in Backend : Send(s, r, b))

Statement(b) ==
  \/ InsertUser(b) \/ SelectUser(b) \/ PatchUser(b) \/ EraseUser(b)
  \/ InsertAccount(b) \/ SelectAccount(b) \/ PatchAccount(b) \/ EraseAccount(b)

Next ==
  \/ \E s \in Slot, r \in Inputs : Receive(s, r)
  \/ \E s \in Slot : Respond(s)
  \/ \E b \in Backend : Statement(b) \/ Fail(b) \/ Abandon(b)

Spec == Init /\ [][Next]_vars

-----------------------------------------------------------------------------
(* Properties. *)

Status == {200, 201, 204, 400, 404, 409, 422, 500}

TablesTyped ==
  /\ users \in [UserKey -> UserRow \cup {None}]
  /\ accounts \in [AccountKey -> AccountRow \cup {None}]
  /\ drawn \subseteq UserId \cup AccountId

CallsTyped ==
  /\ calls \in [Slot -> Request \cup {None}]
  /\ backend \in [Backend -> Job \cup {None}]
  /\ DOMAIN answer = Slot
  /\ \A s \in Slot : answer[s] # None => Waiting(s) /\ answer[s].status \in Status

TypeOK == TablesTyped /\ CallsTyped

\* A statement is one that was let through, and the slot waiting for it has no
\* answer and waits for no other.
Attached ==
  \A b \in Backend : Busy(b) =>
    /\ Accepted(backend[b].req)
    /\ backend[b].slot # None => /\ calls[backend[b].slot] = backend[b].req
                                 /\ answer[backend[b].slot] = None
    /\ \A c \in Backend :
         Busy(c) /\ backend[c].slot = backend[b].slot /\ backend[b].slot # None
           => c = b

NoStrangers == \A u \in UserKey \ UserId : users[u] = None

\* No two users share an e-mail address and every account has its user,
\* whatever inserts, patches and deletes overlap.
Integrity ==
  /\ \A u, v \in UserKey :
       users[u] # None /\ users[v] # None /\ users[u].email = users[v].email
         => u = v
  /\ \A a \in AccountKey :
       accounts[a] # None => users[accounts[a].owner] # None

\* The ids of rows have been drawn, those of inserts at work are still to be
\* drawn, each by one of them.
Drawn ==
  /\ \A u \in UserKey : users[u] # None => u \in drawn
  /\ \A a \in AccountKey : accounts[a] # None => a \in drawn \cap AccountId
  /\ \A b \in Backend : Running(b, CreateUser \cup CreateAccount) =>
       /\ backend[b].req.id \notin drawn
       /\ \A c \in Backend :
            /\ Running(c, CreateUser \cup CreateAccount)
            /\ backend[c].req.id = backend[b].req.id
            => c = b

\* The inductive strengthening of Integrity.
ServiceInv == TypeOK /\ Attached /\ NoStrangers /\ Integrity /\ Drawn

\* To its clients the service is the directory: every request acts in one
\* step before its answer, and only a 500 leaves its effect open.
Lost(b) == Busy(b) /\ backend[b].slot = None

Dir == INSTANCE Directory WITH
  Client   <- Slot,
  Doubt    <- Backend,
  people   <- {User(u, users[u]) : u \in {v \in UserKey : users[v] # None}},
  holdings <- {Account(a, accounts[a]) :
                 a \in {v \in AccountKey : accounts[v] # None}},
  issued   <- drawn,
  limbo    <- [b \in Backend |-> IF Lost(b) THEN backend[b].req ELSE None]

ImplementsDirectory == Dir!Spec
=============================================================================
