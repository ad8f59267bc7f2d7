------------------------------ MODULE RowLocks ------------------------------
(***************************************************************************)
(* The statements as PostgreSQL runs them, in place of the single steps of *)
(* Service.  A transaction takes NOW() at its start, then the lock of its  *)
(* row, then its place in the unique index of addresses, and waits on the  *)
(* way for transactions that have not ended; who waits in a circle is      *)
(* cancelled by the deadlock detector.  An account locks the key of its    *)
(* user, and a user that goes takes its accounts along, which it has to    *)
(* lock as well.                                                           *)
(***************************************************************************)
EXTENDS Service, Relation

CONSTANT
  Midnight  \* bound: the clock stops there

ASSUME MidnightAssumption == Midnight \in Nat

VARIABLES
  clock,       \* the time
  step,        \* per backend, where its statement is
  now,         \* per backend, NOW() of its transaction
  updated_at,  \* the column of users
  floor        \* per backend, updated_at of its row when it was sent

locks == <<clock, step, now, updated_at, floor>>
lvars == <<users, accounts, drawn, calls, backend, answer, clock, step, now,
           updated_at, floor>>

LInit ==
  /\ Init
  /\ clock = 0
  /\ step = [b \in Backend |-> "none"]
  /\ now = [b \in Backend |-> 0]
  /\ updated_at = [u \in UserKey |-> 0]
  /\ floor = [b \in Backend |-> 0]

-----------------------------------------------------------------------------
(* Who waits for whom. *)

Req(b) == backend[b].req

\* The address a statement puts into the index, Absent when the one of its row
\* stays.
Wanted(b) ==
  IF ~Running(b, CreateUser \cup UpdateUser) THEN Absent
  ELSE IF users[Req(b).id] # None /\ users[Req(b).id].email = Req(b).email THEN Absent
  ELSE Req(b).email

\* Past its row, an UPDATE or DELETE holds it until it ends.
HoldsUser(b, u) ==
  /\ step[b] \in {"index", "cascade", "commit"}
  /\ Running(b, UpdateUser \cup DeleteUser) /\ Req(b).id = u

\* One that changes a column of a unique index keeps others from the key too.
ChangesKey(b) == Running(b, DeleteUser) \/ Wanted(b) # Absent

\* The foreign key of a new account shares the key of its user.
SharesKey(b, u) ==
  step[b] = "commit" /\ Running(b, CreateAccount) /\ Req(b).owner = u

HasOwner(a, u) == accounts[a] # None /\ accounts[a].owner = u

HoldsAccount(b, a) ==
  /\ step[b] = "commit"
  /\ \/ Running(b, UpdateAccount \cup DeleteAccount) /\ Req(b).id = a
     \/ Running(b, DeleteUser) /\ HasOwner(a, Req(b).id)

\* A statement that is past the index has its entry there.
HoldsEntry(b, email) == step[b] = "commit" /\ Wanted(b) = email

Owners(email, id) ==
  {u \in UserId \ {id} : users[u] # None /\ users[u].email = email}

\* What decides on a row, an entry or a key is not known before these have
\* ended.
Blocks(d, b) ==
  \/ /\ step[b] = "row" /\ Running(b, UpdateUser \cup DeleteUser)
     /\ \/ HoldsUser(d, Req(b).id)
        \/ ChangesKey(b) /\ SharesKey(d, Req(b).id)
  \/ /\ step[b] = "row" /\ Running(b, CreateAccount)
     /\ HoldsUser(d, Req(b).owner) /\ ChangesKey(d)
  \/ /\ step[b] = "row" /\ Running(b, UpdateAccount \cup DeleteAccount)
     /\ HoldsAccount(d, Req(b).id)
  \/ /\ step[b] = "index"
     /\ \/ HoldsEntry(d, Wanted(b))
        \/ \E u \in Owners(Wanted(b), Req(b).id) : HoldsUser(d, u)
  \/ /\ step[b] = "cascade"
     /\ \E a \in AccountId : HasOwner(a, Req(b).id) /\ HoldsAccount(d, a)

Waits(b) == {d \in Backend \ {b} : Blocks(d, b)}

WaitsFor == [p \in Backend \X Backend |-> p[2] \in Waits(p[1])]

\* Broken: nobody looks for deadlocks.
NeverCircular(b) == FALSE
Circular(b) == TransitiveClosure(WaitsFor, Backend)[b, b]

-----------------------------------------------------------------------------
(* A statement. *)

Advance(b, s) ==
  /\ step' = [step EXCEPT ![b] = s]
  /\ UNCHANGED <<vars, clock, updated_at, floor>>

\* Broken: an earlier statement of the connection may have left its transaction
\* open.
BeginLater(b) ==
  /\ Busy(b) /\ ~Running(b, GetUser \cup GetAccount)
  /\ step[b] = "none"
  /\ now' \in {now, [now EXCEPT ![b] = clock]}
  /\ Advance(b, IF Running(b, CreateUser) THEN "index" ELSE "row")

Begin(b) ==
  /\ Busy(b) /\ ~Running(b, GetUser \cup GetAccount)
  /\ step[b] = "none"
  /\ now' = [now EXCEPT ![b] = clock]
  /\ Advance(b, IF Running(b, CreateUser) THEN "index" ELSE "row")

\* A transaction is over.
Over(b) ==
  /\ step' = [step EXCEPT ![b] = "none"]
  /\ now' = [now EXCEPT ![b] = 0]
  /\ floor' = [floor EXCEPT ![b] = 0]
  /\ UNCHANGED clock

\* It has not changed a thing.
End(b, result) ==
  /\ Reply(b, result, None)
  /\ Over(b)
  /\ UNCHANGED <<db, updated_at>>

LockUser(b) ==
  /\ step[b] = "row" /\ Running(b, UpdateUser \cup DeleteUser)
  /\ Waits(b) = {}
  /\ IF users[Req(b).id] = None THEN End(b, "no_rows")
     ELSE /\ Advance(b, IF Running(b, DeleteUser) THEN "cascade"
                       ELSE IF Wanted(b) = Absent THEN "commit" ELSE "index")
          /\ UNCHANGED now

\* Broken: the foreign key is looked up and not locked.
ShareKeyBlind(b) ==
  /\ step[b] = "row" /\ Running(b, CreateAccount)
  /\ IF users[Req(b).owner] = None THEN End(b, "foreign_key_violation")
     ELSE Advance(b, "commit") /\ UNCHANGED now

\* REFERENCES users: SELECT ... FOR KEY SHARE.
ShareKey(b) ==
  /\ step[b] = "row" /\ Running(b, CreateAccount)
  /\ Waits(b) = {}
  /\ IF users[Req(b).owner] = None THEN End(b, "foreign_key_violation")
     ELSE Advance(b, "commit") /\ UNCHANGED now

LockAccount(b) ==
  /\ step[b] = "row" /\ Running(b, UpdateAccount \cup DeleteAccount)
  /\ Waits(b) = {}
  /\ IF accounts[Req(b).id] = None THEN End(b, "no_rows")
     ELSE Advance(b, "commit") /\ UNCHANGED now

\* ON DELETE CASCADE: the accounts of the user there are by now.
Cascade(b) ==
  /\ step[b] = "cascade"
  /\ Waits(b) = {}
  /\ Advance(b, "commit") /\ UNCHANGED now

\* Broken: only entries of transactions that have ended are looked at.
EnterIndexBlind(b) ==
  /\ step[b] = "index"
  /\ IF Owners(Wanted(b), Req(b).id) # {} THEN End(b, "unique_violation")
     ELSE Advance(b, "commit") /\ UNCHANGED now

EnterIndex(b) ==
  /\ step[b] = "index"
  /\ Waits(b) = {}
  /\ IF Owners(Wanted(b), Req(b).id) # {} THEN End(b, "unique_violation")
     ELSE Advance(b, "commit") /\ UNCHANGED now

\* What a statement has written becomes the tables.
Commit(b, Op) ==
  /\ step[b] = "commit" /\ Running(b, Op)
  /\ Over(b)

CommitUser(b) ==
  LET r   == Req(b)
      old == users[r.id]
      new == IF r \in CreateUser THEN [email |-> r.email, name |-> r.name]
             ELSE [email |-> COALESCE(r.email, old.email),
                   name  |-> COALESCE(r.name, old.name)]
  IN  /\ Commit(b, CreateUser \cup UpdateUser)
      /\ users' = [users EXCEPT ![r.id] = new]
      /\ drawn' = drawn \cup {r.id}
      /\ updated_at' = [updated_at EXCEPT ![r.id] = now[b]]
      /\ Reply(b, "ok", User(r.id, new))
      /\ UNCHANGED accounts

CommitErase(b) ==
  /\ Commit(b, DeleteUser)
  /\ users' = [users EXCEPT ![Req(b).id] = None]
  /\ accounts' = [a \in AccountKey |-> IF HasOwner(a, Req(b).id) THEN None
                                       ELSE accounts[a]]
  /\ updated_at' = [updated_at EXCEPT ![Req(b).id] = 0]
  /\ Reply(b, "ok", None)
  /\ UNCHANGED drawn

CommitAccount(b) ==
  LET r   == Req(b)
      new == IF r \in DeleteAccount THEN None
             ELSE IF r \in CreateAccount THEN [owner |-> r.owner, name |-> r.name]
             ELSE [accounts[r.id] EXCEPT !.name = COALESCE(r.name, @)]
  IN  /\ Commit(b, CreateAccount \cup UpdateAccount \cup DeleteAccount)
      /\ accounts' = [accounts EXCEPT ![r.id] = new]
      /\ drawn' = drawn \cup {r.id}
      /\ Reply(b, "ok", IF new = None THEN None ELSE Account(r.id, new))
      /\ UNCHANGED <<users, updated_at>>

-----------------------------------------------------------------------------
(* The rest of Service. *)

LSend(s, r, b) ==
  /\ Nameable(r)
  /\ Send(s, r, b)
  /\ floor' = IF r \in UpdateUser THEN [floor EXCEPT ![b] = updated_at[r.id]]
              ELSE floor
  /\ UNCHANGED <<clock, step, now, updated_at>>

LRefuse(s, r) == Nameable(r) /\ Refuse(s, r) /\ UNCHANGED locks
LRespond(s)   == Respond(s) /\ UNCHANGED locks

LSelect(b)  == (SelectUser(b) \/ SelectAccount(b)) /\ UNCHANGED locks
LAbandon(b) == Abandon(b) /\ UNCHANGED locks
LFail(b)    == Busy(b) /\ End(b, "failed")

\* deadlock_detected, which mapError does not know.
Deadlock(b) == Busy(b) /\ Circular(b) /\ End(b, "failed")

Tick ==
  /\ clock < Midnight
  /\ clock' = clock + 1
  /\ UNCHANGED <<vars, step, now, updated_at, floor>>

Lock(b) ==
  LockUser(b) \/ ShareKey(b) \/ LockAccount(b) \/ EnterIndex(b) \/ Cascade(b)

LNext ==
  \/ \E s \in Slot, r \in Inputs :
       LRefuse(s, r) \/ \E b \in Backend : LSend(s, r, b)
  \/ \E s \in Slot : LRespond(s)
  \/ \E b \in Backend :
       \/ Begin(b) \/ Lock(b) \/ CommitUser(b) \/ CommitErase(b) \/ CommitAccount(b)
       \/ LSelect(b) \/ LAbandon(b) \/ LFail(b) \/ Deadlock(b)
  \/ Tick

\* PostgreSQL runs its statements, hands locks out in the order they were asked
\* for and looks for deadlocks.
LFairness ==
  /\ \A b \in Backend :
       /\ WF_lvars(Begin(b) \/ CommitUser(b) \/ CommitErase(b) \/ CommitAccount(b)
                     \/ LSelect(b))
       /\ SF_lvars(Lock(b))
  /\ WF_lvars(\E b \in Backend : Deadlock(b))

LSpec == LInit /\ [][LNext]_lvars /\ LFairness

-----------------------------------------------------------------------------
(* Properties. *)

\* Service may take each statement for one step: run by locks, they commit or
\* fail as if each had been alone, so that no two users ever share an address
\* and no account is without its user.
StatementsAreAtomic == Spec

\* Every statement ends, whoever waits for whom: two users that swap their
\* addresses at a time wait in a circle, and one of them is answered 500.
StatementsEnd == \A b \in Backend : Busy(b) ~> ~Busy(b)

\* A patch sent after another was committed never shows an earlier updated_at;
\* only patches that overlap may, since NOW() is the start of the transaction.
UpdatedAtAdvances ==
  [][\A b \in Backend :
       CommitUser(b) /\ Running(b, UpdateUser)
         => updated_at'[Req(b).id] >= floor[b]]_lvars
=============================================================================
