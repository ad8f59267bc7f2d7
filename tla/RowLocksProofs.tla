--------------------------- MODULE RowLocksProofs ---------------------------
(***************************************************************************)
(* Statements that lock and wait implement the single steps of Service,    *)
(* for any number of backends, users and accounts.  What a statement has   *)
(* found under its locks is still so when it commits, because of what the  *)
(* others have to wait for.                                                *)
(***************************************************************************)
EXTENDS RowLocks, ServiceProofs

\* Where a statement can be, and which ones get there.
StepTyped ==
  /\ step \in [Backend -> {"none", "row", "index", "cascade", "commit"}]
  /\ \A b \in Backend :
       /\ step[b] # "none" => Busy(b) /\ ~Running(b, GetUser \cup GetAccount)
       /\ step[b] = "index" =>
            Running(b, CreateUser \cup UpdateUser) /\ Wanted(b) # Absent
       /\ step[b] = "cascade" => Running(b, DeleteUser)

\* What a statement has found is still there, and its address is still free.
HeldBy(b) ==
  /\ \A u \in UserKey : HoldsUser(b, u) \/ SharesKey(b, u) => users[u] # None
  /\ step[b] = "commit" /\ Running(b, UpdateAccount \cup DeleteAccount) =>
       accounts[Req(b).id] # None
  /\ step[b] = "commit" /\ Wanted(b) # Absent =>
       Owners(Wanted(b), Req(b).id) = {}

Held == \A b \in Backend : HeldBy(b)

\* Locks of two statements that exclude each other are not held at a time.
Excludes(b, c) ==
  /\ \A u \in UserKey : HoldsUser(b, u) =>
       ~HoldsUser(c, u) /\ (ChangesKey(b) => ~SharesKey(c, u))
  /\ \A a \in AccountKey : HoldsAccount(b, a) => ~HoldsAccount(c, a)
  /\ step[b] = "commit" /\ step[c] = "commit" /\ Wanted(b) # Absent =>
       Wanted(c) # Wanted(b)

Exclusive == \A b, c \in Backend : b # c => Excludes(b, c)

LocksInv == StepTyped /\ Held /\ Exclusive
LockInv  == ServiceInv /\ LocksInv

-----------------------------------------------------------------------------
(* Requests, and what a step leaves of the other statements. *)

Same(c) ==
  /\ step'[c] = step[c]
  /\ Busy(c)' <=> Busy(c)
  /\ Busy(c) => Req(c)' = Req(c)

LEMMA SameRunning ==
  ASSUME NEW c \in Backend, Same(c), NEW Op
  PROVE  /\ Running(c, Op)' <=> Running(c, Op)
         /\ Running(c, Op) => Req(c)' = Req(c)
BY DEF Same, Running, Req

LEMMA SameHolds ==
  ASSUME NEW c \in Backend, Same(c)
  PROVE  /\ \A u : HoldsUser(c, u)' <=> HoldsUser(c, u)
         /\ \A u : SharesKey(c, u)' <=> SharesKey(c, u)
<1>1. /\ Running(c, UpdateUser \cup DeleteUser)' <=> Running(c, UpdateUser \cup DeleteUser)
      /\ Running(c, CreateAccount)' <=> Running(c, CreateAccount)
      /\ Running(c, UpdateUser \cup DeleteUser) => Req(c)' = Req(c)
      /\ Running(c, CreateAccount) => Req(c)' = Req(c)
  BY SameRunning
<1> QED BY <1>1 DEF Same, HoldsUser, SharesKey

LEMMA SameWanted ==
  ASSUME NEW c \in Backend, Same(c), 
         Running(c, CreateUser \cup UpdateUser) => users'[Req(c).id] = users[Req(c).id]
  PROVE  Wanted(c)' = Wanted(c)
<1>1. /\ Running(c, CreateUser \cup UpdateUser)' <=> Running(c, CreateUser \cup UpdateUser)
      /\ Running(c, CreateUser \cup UpdateUser) => Req(c)' = Req(c)
  BY SameRunning
<1> QED BY <1>1 DEF Wanted

\* Statements whose entries stay what they are, and that get no accounts to
\* lock, go on to exclude each other.
LEMMA OthersExclude ==
  ASSUME LockInv, NEW b \in Backend, NEW c \in Backend,
         b # c, Same(b), Same(c),
         \A d \in {b, c} : step[d] \in {"index", "commit"} => Wanted(d)' = Wanted(d),
         \A d \in {b, c}, a \in AccountKey : HoldsAccount(d, a)' => HoldsAccount(d, a)
  PROVE  Excludes(b, c)'
<1>1. Excludes(b, c)
  BY DEF LockInv, LocksInv, Exclusive
<1>2. ASSUME NEW u \in UserKey, HoldsUser(b, u)'
      PROVE  ~HoldsUser(c, u)' /\ (ChangesKey(b)' => ~SharesKey(c, u)')
  <2>1. HoldsUser(b, u) /\ ~HoldsUser(c, u) /\ (ChangesKey(b) => ~SharesKey(c, u))
    BY <1>1, <1>2, SameHolds DEF Excludes
  <2>2. ~HoldsUser(c, u)' /\ (SharesKey(c, u)' <=> SharesKey(c, u))
    BY <2>1, SameHolds
  <2>3. ChangesKey(b)' => ChangesKey(b)
    <3>1. Running(b, DeleteUser)' <=> Running(b, DeleteUser)
      BY SameRunning
    <3>2. step[b] \in {"index", "commit"} \/ Running(b, DeleteUser)
      BY <2>1 DEF HoldsUser, LockInv, LocksInv, StepTyped
    <3> QED BY <3>1, <3>2 DEF ChangesKey
  <2> QED BY <2>1, <2>2, <2>3
<1>3. ASSUME NEW a \in AccountKey, HoldsAccount(b, a)'
      PROVE  ~HoldsAccount(c, a)'
  BY <1>1, <1>3 DEF Excludes
<1>4. ASSUME step'[b] = "commit", step'[c] = "commit", Wanted(b)' # Absent
      PROVE  Wanted(c)' # Wanted(b)'
  BY <1>1, <1>4 DEF Excludes, Same
<1> QED BY <1>2, <1>3, <1>4 DEF Excludes

\* A statement that is at no step excludes nobody.
LEMMA NoneExcludes ==
  ASSUME NEW b \in Backend, NEW c \in Backend, step'[b] = "none"
  PROVE  Excludes(b, c)' /\ Excludes(c, b)' /\ HeldBy(b)'
BY DEF Excludes, HoldsUser, HoldsAccount, SharesKey, HeldBy
-----------------------------------------------------------------------------
(* Taking locks. *)

LEMMA AdvanceFacts ==
  ASSUME LockInv, NEW b \in Backend, NEW s, Advance(b, s)
  PROVE  /\ \A c \in Backend : step'[c] = IF c = b THEN s ELSE step[c]
         /\ \A c \in Backend :
              /\ Req(c)' = Req(c) /\ Wanted(c)' = Wanted(c)
              /\ Busy(c)' <=> Busy(c)
              /\ ChangesKey(c)' <=> ChangesKey(c)
         /\ \A c \in Backend \ {b} : Same(c)
         /\ \A c \in Backend \ {b} :
              /\ \A u : HoldsUser(c, u)' <=> HoldsUser(c, u)
              /\ \A u : SharesKey(c, u)' <=> SharesKey(c, u)
              /\ \A a : HoldsAccount(c, a)' <=> HoldsAccount(c, a)
<1>1. UNCHANGED vars /\ step' = [step EXCEPT ![b] = s]
  BY DEF Advance
<1>2. \A c \in Backend : step'[c] = IF c = b THEN s ELSE step[c]
  BY <1>1 DEF LockInv, LocksInv, StepTyped
<1>3. \A c \in Backend :
        /\ Req(c)' = Req(c) /\ Wanted(c)' = Wanted(c)
        /\ Busy(c)' <=> Busy(c)
        /\ ChangesKey(c)' <=> ChangesKey(c)
  BY <1>1 DEF vars, Req, Wanted, Busy, ChangesKey, Running
<1>4. \A c \in Backend \ {b} : Same(c)
  BY <1>2, <1>3 DEF Same
<1>5. ASSUME NEW c \in Backend \ {b}, NEW a
      PROVE  HoldsAccount(c, a)' <=> HoldsAccount(c, a)
  <2>1. step'[c] = step[c]
    BY <1>2
  <2> QED BY <1>1, <2>1 DEF vars, HoldsAccount, HasOwner, Running, Busy, Req
<1> QED BY <1>2, <1>3, <1>4, <1>5, SameHolds

\* A lock keeps the invariant when it excludes and keeps what it should.
LEMMA AdvanceKeeps ==
  ASSUME LockInv, NEW b \in Backend,
         NEW s \in {"row", "index", "cascade", "commit"}, Advance(b, s),
         Busy(b), ~Running(b, GetUser \cup GetAccount),
         s = "index" => Running(b, CreateUser \cup UpdateUser) /\ Wanted(b) # Absent,
         s = "cascade" => Running(b, DeleteUser),
         HeldBy(b)',
         \A c \in Backend \ {b} : Excludes(b, c)' /\ Excludes(c, b)'
  PROVE  LocksInv'
<1>1. UNCHANGED vars /\ step' = [step EXCEPT ![b] = s]
  BY DEF Advance
<1>3. StepTyped'
  <2>1. step' \in [Backend -> {"none", "row", "index", "cascade", "commit"}]
    BY <1>1 DEF LockInv, LocksInv, StepTyped
  <2>2. ASSUME NEW c \in Backend
        PROVE  /\ step'[c] # "none" => Busy(c)' /\ ~Running(c, GetUser \cup GetAccount)'
               /\ step'[c] = "index" =>
                    Running(c, CreateUser \cup UpdateUser)' /\ Wanted(c)' # Absent
               /\ step'[c] = "cascade" => Running(c, DeleteUser)'
    <3>1. /\ Running(c, GetUser \cup GetAccount)' <=> Running(c, GetUser \cup GetAccount)
          /\ Running(c, CreateUser \cup UpdateUser)' <=> Running(c, CreateUser \cup UpdateUser)
          /\ Running(c, DeleteUser)' <=> Running(c, DeleteUser)
      BY <1>1 DEF vars, Running, Busy
    <3> QED BY <3>1, AdvanceFacts DEF LockInv, LocksInv, StepTyped
  <2> QED BY <2>1, <2>2 DEF StepTyped
<1>5. ASSUME NEW c \in Backend \ {b}
      PROVE  HeldBy(c)'
  <2>1. HeldBy(c)
    BY DEF LockInv, LocksInv, Held
  <2>2. /\ \A u : HoldsUser(c, u)' <=> HoldsUser(c, u)
        /\ \A u : SharesKey(c, u)' <=> SharesKey(c, u)
        /\ Wanted(c)' = Wanted(c) /\ Req(c)' = Req(c) /\ step'[c] = step[c]
    BY AdvanceFacts DEF Same
  <2>3. Running(c, UpdateAccount \cup DeleteAccount)' <=>
          Running(c, UpdateAccount \cup DeleteAccount)
    BY <1>1 DEF vars, Running, Busy
  <2>4. users' = users /\ accounts' = accounts
    BY <1>1 DEF vars
  <2>5. Owners(Wanted(c), Req(c).id)' = Owners(Wanted(c), Req(c).id)
    BY <2>2, <2>4 DEF Owners
  <2> QED BY <2>1, <2>2, <2>3, <2>4, <2>5 DEF HeldBy
<1>6. ASSUME NEW c \in Backend \ {b}, NEW d \in Backend \ {b}, c # d
      PROVE  Excludes(c, d)'
  BY <1>6, AdvanceFacts, OthersExclude
<1>7. Held' /\ Exclusive'
  BY <1>5, <1>6 DEF Held, Exclusive
<1> QED BY <1>3, <1>7 DEF LocksInv

\* Nobody is in the way.
LEMMA Free ==
  ASSUME NEW b \in Backend, Waits(b) = {}, NEW c \in Backend, c # b
  PROVE  ~Blocks(c, b)
BY DEF Waits

LEMMA BeginKeeps ==
  ASSUME LockInv, NEW b \in Backend, Begin(b)
  PROVE  LocksInv'
<1> DEFINE s == IF Running(b, CreateUser) THEN "index" ELSE "row"
<1>1. Busy(b) /\ ~Running(b, GetUser \cup GetAccount) /\ step[b] = "none" /\ Advance(b, s)
  BY DEF Begin
<1>2. step'[b] = s
  BY <1>1, AdvanceFacts
<1>3. Running(b, CreateUser) => Wanted(b) # Absent
  <2>1. SUFFICES ASSUME Running(b, CreateUser)
                 PROVE  Wanted(b) # Absent
    OBVIOUS
  <2>2. Req(b) \in CreateUser /\ Accepted(Req(b))
    BY <2>1, RunningFacts DEF LockInv, Req
  <2>3. Req(b).id \in UserKey /\ Req(b).email # Absent
    BY <2>2, Kinds DEF Accepted, BadRequest, SchemaRejects
  <2>4. users[Req(b).id] = None
    BY <2>1, <2>3 DEF LockInv, ServiceInv, Drawn, Running, Req
  <2> QED BY <2>1, <2>3, <2>4 DEF Wanted, Running
<1>4. \A u : ~HoldsUser(b, u)' /\ ~SharesKey(b, u)'
  <2>1. Running(b, CreateUser) => ~Running(b, UpdateUser \cup DeleteUser)
    BY Kinds DEF Running
  <2>2. Running(b, UpdateUser \cup DeleteUser)' <=> Running(b, UpdateUser \cup DeleteUser)
    BY <1>1 DEF Advance, vars, Running, Busy
  <2> QED BY <1>2, <2>1, <2>2 DEF HoldsUser, SharesKey
<1>5. \A a : ~HoldsAccount(b, a)'
  BY <1>2 DEF HoldsAccount
<1>6. step'[b] # "commit"
  BY <1>2
<1>7. HeldBy(b)' /\ \A c \in Backend : Excludes(b, c)' /\ Excludes(c, b)'
  BY <1>4, <1>5, <1>6 DEF HeldBy, Excludes
<1>8. s = "index" => Running(b, CreateUser \cup UpdateUser)
  BY DEF Running
<1> QED BY <1>1, <1>3, <1>7, <1>8, AdvanceKeeps

\* What a statement may hold, by its kind.
LEMMA KindHolds ==
  ASSUME NEW b \in Backend
  PROVE  /\ \A u : HoldsUser(b, u) => Running(b, UpdateUser \cup DeleteUser) /\ u = Req(b).id
         /\ \A u : SharesKey(b, u) => Running(b, CreateAccount) /\ u = Req(b).owner
         /\ Running(b, UpdateUser \cup DeleteUser) =>
              /\ Req(b).id \in UserKey
              /\ ~Running(b, CreateAccount)
              /\ ~Running(b, UpdateAccount \cup DeleteAccount)
              /\ ~Running(b, GetUser \cup GetAccount)
              /\ ~Running(b, CreateUser)
         /\ Running(b, CreateUser) =>
              /\ Req(b).id \in UserKey
              /\ ~Running(b, CreateAccount)
              /\ ~Running(b, UpdateAccount \cup DeleteAccount)
              /\ ~Running(b, DeleteUser)
         /\ Running(b, UpdateUser) => ~Running(b, DeleteUser)
         /\ Running(b, CreateAccount \cup UpdateAccount \cup DeleteAccount) =>
              /\ Req(b).id \in AccountKey
              /\ ~Running(b, UpdateUser \cup DeleteUser)
              /\ ~Running(b, CreateUser \cup UpdateUser)
              /\ ~Running(b, DeleteUser)
              /\ ~Running(b, GetUser \cup GetAccount)
              /\ Wanted(b) = Absent
         /\ Running(b, CreateAccount) =>
              Req(b).owner \in UserKey /\ ~Running(b, UpdateAccount \cup DeleteAccount)
         /\ Running(b, DeleteUser) => Wanted(b) = Absent
BY Kinds DEF HoldsUser, SharesKey, Running, Req, Wanted

LEMMA LockUserKeeps ==
  ASSUME LockInv, NEW b \in Backend, LockUser(b), users[Req(b).id] # None
  PROVE  LocksInv'
<1> DEFINE s == IF Running(b, DeleteUser) THEN "cascade"
                ELSE IF Wanted(b) = Absent THEN "commit" ELSE "index"
           id == Req(b).id
<1>1. /\ step[b] = "row" /\ Running(b, UpdateUser \cup DeleteUser)
      /\ Waits(b) = {} /\ Advance(b, s)
  BY DEF LockUser
<1>2. step'[b] = s /\ s \in {"cascade", "commit", "index"}
  BY <1>1, AdvanceFacts
<1>3. id \in UserKey
  BY <1>1, KindHolds
<1>4. ASSUME NEW c \in Backend \ {b}
      PROVE  ~HoldsUser(c, id) /\ (ChangesKey(b) => ~SharesKey(c, id))
  BY <1>1, Free DEF Blocks
<1>5. /\ Running(b, UpdateUser \cup DeleteUser)' <=> Running(b, UpdateUser \cup DeleteUser)
      /\ Running(b, CreateAccount)' <=> Running(b, CreateAccount)
      /\ Running(b, UpdateAccount \cup DeleteAccount)' <=>
           Running(b, UpdateAccount \cup DeleteAccount)
      /\ Running(b, DeleteUser)' <=> Running(b, DeleteUser)
      /\ users' = users
  BY <1>1 DEF Advance, vars, Running, Busy
<1>6. /\ \A u : HoldsUser(b, u)' <=> u = id
      /\ \A u : ~SharesKey(b, u)'
      /\ \A a : ~HoldsAccount(b, a)'
      /\ step'[b] = "commit" => Wanted(b)' = Absent
  <2>1. ~Running(b, CreateAccount) /\ ~Running(b, UpdateAccount \cup DeleteAccount)
    BY <1>1, KindHolds
  <2>2. Req(b)' = Req(b) /\ Wanted(b)' = Wanted(b)
    BY <1>1, AdvanceFacts
  <2>3. step'[b] = "commit" => ~Running(b, DeleteUser) /\ Wanted(b) = Absent
    BY <1>2
  <2> QED BY <1>1, <1>2, <1>5, <2>1, <2>2, <2>3 DEF HoldsUser, SharesKey, HoldsAccount
<1>7. ASSUME NEW c \in Backend \ {b}
      PROVE  Excludes(b, c)' /\ Excludes(c, b)'
  <2>1. /\ \A u : HoldsUser(c, u)' <=> HoldsUser(c, u)
        /\ \A u : SharesKey(c, u)' <=> SharesKey(c, u)
        /\ ChangesKey(b)' <=> ChangesKey(b)
    BY <1>1, AdvanceFacts
  <2> QED BY <1>4, <1>6, <2>1 DEF Excludes
<1>8. HeldBy(b)'
  <2>1. ~Running(b, UpdateAccount \cup DeleteAccount)'
    BY <1>1, <1>5, KindHolds
  <2> QED BY <1>5, <1>6, <2>1 DEF HeldBy
<1>9. /\ Busy(b) /\ ~Running(b, GetUser \cup GetAccount)
      /\ s = "index" => Running(b, CreateUser \cup UpdateUser) /\ Wanted(b) # Absent
      /\ s = "cascade" => Running(b, DeleteUser)
  BY <1>1, KindHolds DEF Running
<1> HIDE DEF s
<1> QED BY <1>1, <1>2, <1>7, <1>8, <1>9, AdvanceKeeps

LEMMA ShareKeyKeeps ==
  ASSUME LockInv, NEW b \in Backend, ShareKey(b), users[Req(b).owner] # None
  PROVE  LocksInv'
<1> DEFINE owner == Req(b).owner
<1>1. /\ step[b] = "row" /\ Running(b, CreateAccount)
      /\ Waits(b) = {} /\ Advance(b, "commit")
  BY DEF ShareKey
<1>2. step'[b] = "commit"
  BY <1>1, AdvanceFacts
<1>3. owner \in UserKey
  BY <1>1, KindHolds
<1>4. ASSUME NEW c \in Backend \ {b}
      PROVE  ~(HoldsUser(c, owner) /\ ChangesKey(c))
  BY <1>1, Free DEF Blocks
<1>5. /\ Running(b, UpdateUser \cup DeleteUser)' <=> Running(b, UpdateUser \cup DeleteUser)
      /\ Running(b, CreateAccount)' <=> Running(b, CreateAccount)
      /\ Running(b, UpdateAccount \cup DeleteAccount)' <=>
           Running(b, UpdateAccount \cup DeleteAccount)
      /\ Running(b, DeleteUser)' <=> Running(b, DeleteUser)
      /\ users' = users
  BY <1>1 DEF Advance, vars, Running, Busy
<1>6. /\ ~Running(b, UpdateUser \cup DeleteUser) /\ ~Running(b, DeleteUser)
      /\ ~Running(b, UpdateAccount \cup DeleteAccount)
      /\ ~Running(b, GetUser \cup GetAccount)
      /\ Wanted(b) = Absent
  <2>1. Running(b, CreateAccount \cup UpdateAccount \cup DeleteAccount)
    BY <1>1 DEF Running
  <2> QED BY <1>1, <2>1, KindHolds
<1>7. /\ \A u : ~HoldsUser(b, u)'
      /\ \A u : SharesKey(b, u)' <=> u = owner
      /\ \A a : ~HoldsAccount(b, a)'
      /\ Wanted(b)' = Absent
  <2>1. Req(b)' = Req(b) /\ Wanted(b)' = Wanted(b)
    BY <1>1, AdvanceFacts
  <2> QED BY <1>1, <1>2, <1>5, <1>6, <2>1 DEF HoldsUser, SharesKey, HoldsAccount
<1>8. ASSUME NEW c \in Backend \ {b}
      PROVE  Excludes(b, c)' /\ Excludes(c, b)'
  <2>1. /\ \A u : HoldsUser(c, u)' <=> HoldsUser(c, u)
        /\ ChangesKey(c)' <=> ChangesKey(c)
    BY <1>1, AdvanceFacts
  <2> QED BY <1>4, <1>7, <2>1 DEF Excludes
<1>9. HeldBy(b)'
  BY <1>5, <1>6, <1>7 DEF HeldBy
<1> QED BY <1>1, <1>6, <1>8, <1>9, AdvanceKeeps DEF Running

LEMMA LockAccountKeeps ==
  ASSUME LockInv, NEW b \in Backend, LockAccount(b), accounts[Req(b).id] # None
  PROVE  LocksInv'
<1> DEFINE id == Req(b).id
<1>1. /\ step[b] = "row" /\ Running(b, UpdateAccount \cup DeleteAccount)
      /\ Waits(b) = {} /\ Advance(b, "commit")
  BY DEF LockAccount
<1>2. step'[b] = "commit"
  BY <1>1, AdvanceFacts
<1>3. ASSUME NEW c \in Backend \ {b}
      PROVE  ~HoldsAccount(c, id)
  BY <1>1, Free DEF Blocks
<1>4. /\ Running(b, UpdateUser \cup DeleteUser)' <=> Running(b, UpdateUser \cup DeleteUser)
      /\ Running(b, CreateAccount)' <=> Running(b, CreateAccount)
      /\ Running(b, UpdateAccount \cup DeleteAccount)' <=>
           Running(b, UpdateAccount \cup DeleteAccount)
      /\ Running(b, DeleteUser)' <=> Running(b, DeleteUser)
      /\ accounts' = accounts
  BY <1>1 DEF Advance, vars, Running, Busy
<1>5. /\ ~Running(b, UpdateUser \cup DeleteUser) /\ ~Running(b, DeleteUser)
      /\ ~Running(b, CreateAccount)
      /\ ~Running(b, GetUser \cup GetAccount)
      /\ Wanted(b) = Absent
  <2>1. Running(b, CreateAccount \cup UpdateAccount \cup DeleteAccount)
    BY <1>1 DEF Running
  <2> QED BY <1>1, <2>1, KindHolds
<1>6. /\ \A u : ~HoldsUser(b, u)' /\ ~SharesKey(b, u)'
      /\ \A a : HoldsAccount(b, a)' <=> a = id
      /\ Wanted(b)' = Absent /\ Req(b)' = Req(b)
  <2>1. Req(b)' = Req(b) /\ Wanted(b)' = Wanted(b)
    BY <1>1, AdvanceFacts
  <2> QED BY <1>1, <1>2, <1>4, <1>5, <2>1 DEF HoldsUser, SharesKey, HoldsAccount
<1>7. ASSUME NEW c \in Backend \ {b}
      PROVE  Excludes(b, c)' /\ Excludes(c, b)'
  <2>1. \A a : HoldsAccount(c, a)' <=> HoldsAccount(c, a)
    BY <1>1, AdvanceFacts
  <2> QED BY <1>3, <1>6, <2>1 DEF Excludes
<1>8. HeldBy(b)'
  BY <1>4, <1>6 DEF HeldBy
<1> QED BY <1>1, <1>5, <1>7, <1>8, AdvanceKeeps DEF Running

LEMMA CascadeKeeps ==
  ASSUME LockInv, NEW b \in Backend, Cascade(b)
  PROVE  LocksInv'
<1> DEFINE id == Req(b).id
<1>1. /\ step[b] = "cascade" /\ Running(b, DeleteUser)
      /\ Waits(b) = {} /\ Advance(b, "commit")
  BY DEF Cascade, LockInv, LocksInv, StepTyped
<1>2. step'[b] = "commit"
  BY <1>1, AdvanceFacts
<1>3. ASSUME NEW c \in Backend \ {b}, NEW a \in AccountKey, HasOwner(a, id)
      PROVE  ~HoldsAccount(c, a)
  <2>1. a \in AccountId
    BY <1>3 DEF LockInv, ServiceInv, Drawn, HasOwner
  <2> QED BY <1>1, <1>3, <2>1, Free DEF Blocks
<1>4. /\ Running(b, UpdateUser \cup DeleteUser)' <=> Running(b, UpdateUser \cup DeleteUser)
      /\ Running(b, CreateAccount)' <=> Running(b, CreateAccount)
      /\ Running(b, UpdateAccount \cup DeleteAccount)' <=>
           Running(b, UpdateAccount \cup DeleteAccount)
      /\ Running(b, DeleteUser)' <=> Running(b, DeleteUser)
      /\ users' = users /\ accounts' = accounts
  BY <1>1 DEF Advance, vars, Running, Busy
<1>5. /\ Running(b, UpdateUser \cup DeleteUser)
      /\ ~Running(b, CreateAccount) /\ ~Running(b, UpdateAccount \cup DeleteAccount)
      /\ ~Running(b, GetUser \cup GetAccount)
      /\ Wanted(b) = Absent
  <2>1. Running(b, UpdateUser \cup DeleteUser)
    BY <1>1 DEF Running
  <2> QED BY <1>1, <2>1, KindHolds
<1>6. /\ \A u : HoldsUser(b, u)' <=> HoldsUser(b, u)
      /\ \A u : ~SharesKey(b, u)'
      /\ \A a : HoldsAccount(b, a)' <=> HasOwner(a, id)
      /\ Wanted(b)' = Absent /\ Req(b)' = Req(b)
  <2>1. Req(b)' = Req(b) /\ Wanted(b)' = Wanted(b)
    BY <1>1, AdvanceFacts
  <2>2. \A a : HasOwner(a, id)' <=> HasOwner(a, id)
    BY <1>4, <2>1 DEF HasOwner
  <2> QED BY <1>1, <1>2, <1>4, <1>5, <2>1, <2>2
          DEF HoldsUser, SharesKey, HoldsAccount, HasOwner
<1>7. ASSUME NEW c \in Backend \ {b}
      PROVE  Excludes(b, c)' /\ Excludes(c, b)'
  <2>1. /\ \A u : HoldsUser(c, u)' <=> HoldsUser(c, u)
        /\ \A u : SharesKey(c, u)' <=> SharesKey(c, u)
        /\ \A a : HoldsAccount(c, a)' <=> HoldsAccount(c, a)
        /\ ChangesKey(b)' <=> ChangesKey(b)
    BY <1>1, AdvanceFacts
  <2>2. Excludes(b, c) /\ Excludes(c, b)
    BY DEF LockInv, LocksInv, Exclusive
  <2> QED BY <1>3, <1>6, <2>1, <2>2 DEF Excludes
<1>8. HeldBy(b)'
  <2>1. HeldBy(b)
    BY DEF LockInv, LocksInv, Held
  <2> QED BY <1>4, <1>5, <1>6, <2>1 DEF HeldBy
<1> QED BY <1>1, <1>5, <1>7, <1>8, AdvanceKeeps DEF Running

LEMMA EnterIndexKeeps ==
  ASSUME LockInv, NEW b \in Backend, EnterIndex(b),
         Owners(Wanted(b), Req(b).id) = {}
  PROVE  LocksInv'
<1>1. /\ step[b] = "index" /\ Running(b, CreateUser \cup UpdateUser)
      /\ Waits(b) = {} /\ Advance(b, "commit")
  BY DEF EnterIndex, LockInv, LocksInv, StepTyped
<1>2. step'[b] = "commit"
  BY <1>1, AdvanceFacts
<1>3. ASSUME NEW c \in Backend \ {b}, step[c] = "commit"
      PROVE  Wanted(c) # Wanted(b)
  BY <1>1, <1>3, Free DEF Blocks, HoldsEntry
<1>4. /\ Running(b, UpdateUser \cup DeleteUser)' <=> Running(b, UpdateUser \cup DeleteUser)
      /\ Running(b, CreateAccount)' <=> Running(b, CreateAccount)
      /\ Running(b, UpdateAccount \cup DeleteAccount)' <=>
           Running(b, UpdateAccount \cup DeleteAccount)
      /\ Running(b, DeleteUser)' <=> Running(b, DeleteUser)
      /\ users' = users
  BY <1>1 DEF Advance, vars, Running, Busy
<1>5. /\ ~Running(b, CreateAccount) /\ ~Running(b, UpdateAccount \cup DeleteAccount)
      /\ ~Running(b, DeleteUser)
      /\ ~Running(b, GetUser \cup GetAccount)
  BY <1>1, Kinds DEF Running
<1>6. /\ \A u : HoldsUser(b, u)' <=> HoldsUser(b, u)
      /\ \A u : ~SharesKey(b, u)'
      /\ \A a : ~HoldsAccount(b, a)'
      /\ Wanted(b)' = Wanted(b) /\ Req(b)' = Req(b)
  <2>1. Req(b)' = Req(b) /\ Wanted(b)' = Wanted(b)
    BY <1>1, AdvanceFacts
  <2> QED BY <1>1, <1>2, <1>4, <1>5, <2>1 DEF HoldsUser, SharesKey, HoldsAccount
<1>7. ASSUME NEW c \in Backend \ {b}
      PROVE  Excludes(b, c)' /\ Excludes(c, b)'
  <2>1. /\ \A u : HoldsUser(c, u)' <=> HoldsUser(c, u)
        /\ \A u : SharesKey(c, u)' <=> SharesKey(c, u)
        /\ ChangesKey(b)' <=> ChangesKey(b)
        /\ Wanted(c)' = Wanted(c) /\ step'[c] = step[c]
    BY <1>1, AdvanceFacts
  <2>2. Excludes(b, c) /\ Excludes(c, b)
    BY DEF LockInv, LocksInv, Exclusive
  <2> QED BY <1>3, <1>6, <2>1, <2>2 DEF Excludes
<1>8. HeldBy(b)'
  <2>1. HeldBy(b)
    BY DEF LockInv, LocksInv, Held
  <2>2. Owners(Wanted(b), Req(b).id)' = {}
    BY <1>4, <1>6 DEF Owners
  <2> QED BY <1>4, <1>5, <1>6, <2>1, <2>2 DEF HeldBy
<1> QED BY <1>1, <1>5, <1>7, <1>8, AdvanceKeeps DEF Running

-----------------------------------------------------------------------------
(* Coming and going. *)

\* Where the tables stay, a statement keeps what it has found.
LEMMA SameKeeps ==
  ASSUME LockInv, NEW c \in Backend, Same(c), UNCHANGED db
  PROVE  /\ Wanted(c)' = Wanted(c)
         /\ \A a : HoldsAccount(c, a)' <=> HoldsAccount(c, a)
         /\ HeldBy(c)'
<1>1. users' = users /\ accounts' = accounts
  BY DEF db
<1>2. Wanted(c)' = Wanted(c)
  BY <1>1, SameWanted
<1>3. /\ Running(c, UpdateAccount \cup DeleteAccount)' <=>
           Running(c, UpdateAccount \cup DeleteAccount)
      /\ Running(c, DeleteUser)' <=> Running(c, DeleteUser)
      /\ Busy(c) => Req(c)' = Req(c)
      /\ step'[c] = step[c]
  BY SameRunning DEF Same
<1>4. \A a : HoldsAccount(c, a)' <=> HoldsAccount(c, a)
  BY <1>1, <1>3 DEF HoldsAccount, HasOwner, Running
<1>5. step[c] # "none" => Owners(Wanted(c), Req(c).id)' = Owners(Wanted(c), Req(c).id)
  BY <1>1, <1>2, <1>3 DEF Owners, LockInv, LocksInv, StepTyped
<1>6. HeldBy(c)
  BY DEF LockInv, LocksInv, Held
<1>7. HeldBy(c)'
  BY <1>1, <1>2, <1>3, <1>5, <1>6, SameHolds DEF HeldBy, Running
<1> QED BY <1>2, <1>4, <1>7

\* When b is at no step, the others decide.
LEMMA OthersKeep ==
  ASSUME LockInv, NEW b \in Backend, step' = [step EXCEPT ![b] = "none"],
         \A c \in Backend \ {b} :
           /\ Same(c) /\ HeldBy(c)'
           /\ step[c] \in {"index", "commit"} => Wanted(c)' = Wanted(c)
           /\ \A a \in AccountKey : HoldsAccount(c, a)' => HoldsAccount(c, a)
  PROVE  LocksInv'
<1>1. /\ step' \in [Backend -> {"none", "row", "index", "cascade", "commit"}]
      /\ step'[b] = "none"
  BY DEF LockInv, LocksInv, StepTyped
<1>2. ASSUME NEW c \in Backend
      PROVE  /\ step'[c] # "none" => Busy(c)' /\ ~Running(c, GetUser \cup GetAccount)'
             /\ step'[c] = "index" =>
                  Running(c, CreateUser \cup UpdateUser)' /\ Wanted(c)' # Absent
             /\ step'[c] = "cascade" => Running(c, DeleteUser)'
  <2>1. CASE c = b
    BY <1>1, <2>1
  <2>2. CASE c # b
    <3>1. /\ Running(c, GetUser \cup GetAccount)' <=> Running(c, GetUser \cup GetAccount)
          /\ Running(c, CreateUser \cup UpdateUser)' <=> Running(c, CreateUser \cup UpdateUser)
          /\ Running(c, DeleteUser)' <=> Running(c, DeleteUser)
      BY <2>2, SameRunning
    <3> QED BY <2>2, <3>1 DEF LockInv, LocksInv, StepTyped, Same
  <2> QED BY <2>1, <2>2
<1>3. StepTyped'
  BY <1>1, <1>2 DEF StepTyped
<1>4. Held'
  BY <1>1, NoneExcludes DEF Held
<1>5. ASSUME NEW c \in Backend, NEW d \in Backend, c # d
      PROVE  Excludes(c, d)'
  <2>1. CASE c = b \/ d = b
    BY <1>1, <2>1, NoneExcludes
  <2>2. CASE c # b /\ d # b
    BY <1>5, <2>2, OthersExclude
  <2> QED BY <2>1, <2>2
<1> QED BY <1>3, <1>4, <1>5 DEF LocksInv, Exclusive

\* What an answer leaves of the other statements.
LEMMA ReplyFacts ==
  ASSUME LockInv, NEW b \in Backend, NEW result, NEW body, Reply(b, result, body),
         step' = [step EXCEPT ![b] = "none"]
  PROVE  ~Busy(b)' /\ \A c \in Backend \ {b} : Same(c)
BY DEF Reply, Busy, Same, Req, LockInv, LocksInv, StepTyped, ServiceInv, TypeOK,
       CallsTyped

LEMMA ReplyKeeps ==
  ASSUME LockInv, NEW b \in Backend, NEW result, NEW body, Reply(b, result, body),
         step' = [step EXCEPT ![b] = "none"], UNCHANGED db
  PROVE  LocksInv'
BY ReplyFacts, SameKeeps, OthersKeep

\* Nothing happens to any statement.
LEMMA StillKeeps ==
  ASSUME LockInv, step' = step, UNCHANGED db, \A c \in Backend : Same(c)
  PROVE  LocksInv'
<1>1. StepTyped'
  <2>1. ASSUME NEW c \in Backend
        PROVE  /\ Running(c, GetUser \cup GetAccount)' <=> Running(c, GetUser \cup GetAccount)
               /\ Running(c, CreateUser \cup UpdateUser)' <=> Running(c, CreateUser \cup UpdateUser)
               /\ Running(c, DeleteUser)' <=> Running(c, DeleteUser)
               /\ Wanted(c)' = Wanted(c)
               /\ Busy(c)' <=> Busy(c)
    BY SameRunning, SameKeeps DEF Same
  <2> QED BY <2>1 DEF LockInv, LocksInv, StepTyped
<1>3. Held'
  BY SameKeeps DEF Held
<1>4. Exclusive'
  BY SameKeeps, OthersExclude DEF Exclusive
<1> QED BY <1>1, <1>3, <1>4 DEF LocksInv

LEMMA AbandonKeeps ==
  ASSUME LockInv, NEW b \in Backend, LAbandon(b)
  PROVE  LocksInv'
<1>1. /\ Busy(b) /\ backend' = [backend EXCEPT ![b].slot = None]
      /\ UNCHANGED db /\ step' = step
  BY DEF LAbandon, Abandon, locks
<1>2. backend \in [Backend -> Job \cup {None}]
  BY DEF LockInv, ServiceInv, TypeOK, CallsTyped
<1>3. backend[b] \in Job
  BY <1>1, <1>2 DEF Busy
<1>4. backend'[b] \in Job /\ backend'[b].req = backend[b].req
  BY <1>1, <1>2, <1>3 DEF Job
<1>5. \A c \in Backend \ {b} : backend'[c] = backend[c]
  BY <1>1, <1>2
<1>6. \A c \in Backend : Same(c)
  BY <1>1, <1>3, <1>4, <1>5, SlotAssumption DEF Same, Busy, Req
<1> QED BY <1>1, <1>6, StillKeeps

LEMMA SendKeeps ==
  ASSUME LockInv, NEW s \in Slot, NEW r \in Inputs, NEW b \in Backend, LSend(s, r, b)
  PROVE  LocksInv'
<1>1. /\ Nameable(r) /\ ~Busy(b) /\ UNCHANGED db /\ step' = step
      /\ backend' = [backend EXCEPT ![b] = [req |-> r, slot |-> s]]
  BY DEF LSend, Send
<1>2. backend \in [Backend -> Job \cup {None}]
  BY DEF LockInv, ServiceInv, TypeOK, CallsTyped
<1>3. \A c \in Backend : backend'[c] = IF c = b THEN [req |-> r, slot |-> s] ELSE backend[c]
  BY <1>1, <1>2
<1>4. step[b] = "none" /\ step' = [step EXCEPT ![b] = "none"]
  BY <1>1 DEF LockInv, LocksInv, StepTyped
<1>5. \A c \in Backend \ {b} : Same(c)
  BY <1>1, <1>3 DEF Same, Busy, Req
<1>6. Req(b)' = r
  BY <1>3 DEF Req
<1> QED BY <1>1, <1>4, <1>5, SameKeeps, OthersKeep

LEMMA SelectKeeps ==
  ASSUME LockInv, NEW b \in Backend, LSelect(b)
  PROVE  LocksInv'
<1>1. /\ Running(b, GetUser \cup GetAccount) /\ UNCHANGED db /\ step' = step
      /\ \E result, body : Reply(b, result, body)
  BY DEF LSelect, SelectUser, SelectAccount, Running, locks
<1>2. step[b] = "none" /\ step' = [step EXCEPT ![b] = "none"]
  BY <1>1 DEF LockInv, LocksInv, StepTyped
<1> QED BY <1>1, <1>2, ReplyKeeps

LEMMA EndKeeps ==
  ASSUME LockInv, NEW b \in Backend, NEW result, End(b, result)
  PROVE  LocksInv'
BY ReplyKeeps DEF End, Over

-----------------------------------------------------------------------------
(* Commits. *)

\* The row a statement leaves of a user.
NewUser(b) ==
  LET r   == Req(b)
      old == users[r.id]
  IN  IF r \in CreateUser THEN [email |-> r.email, name |-> r.name]
      ELSE [email |-> COALESCE(r.email, old.email), name |-> COALESCE(r.name, old.name)]

\* It is a row with the address the statement wanted, or the one it had, and
\* nobody else has that one.
LEMMA NewUserFacts ==
  ASSUME LockInv, NEW b \in Backend, step[b] = "commit",
         Running(b, CreateUser \cup UpdateUser)
  PROVE  /\ Req(b).id \in UserId
         /\ NewUser(b) \in UserRow /\ NewUser(b) # None
         /\ Running(b, UpdateUser) => users[Req(b).id] # None /\ HoldsUser(b, Req(b).id)
         /\ Running(b, CreateUser) => users[Req(b).id] = None
         /\ NewUser(b).email =
              IF Wanted(b) = Absent THEN users[Req(b).id].email ELSE Wanted(b)
         /\ Wanted(b) = Absent => users[Req(b).id] # None
         /\ ~Taken(NewUser(b).email, Req(b).id)
<1> DEFINE r == Req(b)
<1>1. TablesTyped /\ NoStrangers /\ Integrity
  BY DEF LockInv, ServiceInv, TypeOK
<1>2. r \in CreateUser \cup UpdateUser /\ Accepted(r) /\ Busy(b)
  BY RunningFacts DEF LockInv, Req, Running
<1>3. HeldBy(b)
  BY DEF LockInv, LocksInv, Held
<1>4. CASE r \in CreateUser
  <2>1. r.id \in UserId /\ [email |-> r.email, name |-> r.name] \in UserRow
    BY <1>2, <1>4, CreateUserFacts
  <2>2. ~Running(b, UpdateUser)
    BY <1>4, Kinds DEF Running, Req
  <2>3. Running(b, CreateUser)
    BY <1>2, <1>4 DEF Running, Req
  <2>4. r.id \notin drawn
    BY <2>3 DEF LockInv, ServiceInv, Drawn, Running, Req
  <2>5. users[r.id] = None
    BY <2>1, <2>4 DEF LockInv, ServiceInv, Drawn, UserKey
  <2>6. r.email # Absent
    BY <1>2, <1>4 DEF Accepted, BadRequest, SchemaRejects
  <2>7. Wanted(b) = r.email
    BY <2>5 DEF Wanted
  <2>8. NewUser(b) = [email |-> r.email, name |-> r.name]
    BY <1>4 DEF NewUser
  <2>9. ~Taken(r.email, r.id)
    BY <1>3, <2>6, <2>7 DEF HeldBy, Owners, Taken
  <2> HIDE DEF r
  <2>10. NewUser(b).email = r.email
    BY <2>8
  <2> QED BY <2>1, <2>2, <2>5, <2>6, <2>7, <2>8, <2>9, <2>10, NoneAssumption DEF r
<1>5. CASE r \notin CreateUser
  <2>1. r \in UpdateUser /\ Running(b, UpdateUser) /\ ~Running(b, CreateUser)
    BY <1>2, <1>5 DEF Running, Req
  <2>2. r.id \in UserKey /\ HoldsUser(b, r.id)
    BY <2>1, Kinds DEF HoldsUser, Running
  <2>3. users[r.id] # None
    BY <1>3, <2>2 DEF HeldBy
  <2>4. r.id \in UserId /\ users[r.id] \in UserRow
    BY <1>1, <2>2, <2>3 DEF TablesTyped, NoStrangers
  <2>5. NewUser(b) = [email |-> COALESCE(r.email, users[r.id].email),
                      name  |-> COALESCE(r.name, users[r.id].name)]
    BY <1>5 DEF NewUser
  <2>6. NewUser(b) \in UserRow
    BY <1>2, <2>1, <2>4, <2>5, UpdateUserFacts
  <2>7. Wanted(b) = IF users[r.id].email = r.email THEN Absent ELSE r.email
    BY <2>3 DEF Wanted
  <2>8. NewUser(b).email = COALESCE(r.email, users[r.id].email)
    BY <2>5
  <2>9. NewUser(b).email = IF Wanted(b) = Absent THEN users[r.id].email ELSE Wanted(b)
    BY <2>7, <2>8 DEF COALESCE
  <2>10. ~Taken(NewUser(b).email, r.id)
    <3>1. CASE Wanted(b) = Absent
      BY <1>1, <2>3, <2>4, <2>9, <3>1 DEF Taken, Integrity, UserKey
    <3>2. CASE Wanted(b) # Absent
      BY <1>3, <2>9, <3>2 DEF HeldBy, Owners, Taken
    <3> QED BY <3>1, <3>2
  <2> QED BY <2>1, <2>2, <2>3, <2>4, <2>6, <2>9, <2>10, NoneAssumption
<1> QED BY <1>4, <1>5

LEMMA CommitUserKeeps ==
  ASSUME LockInv, NEW b \in Backend, CommitUser(b)
  PROVE  LocksInv'
<1> DEFINE id == Req(b).id
           new == NewUser(b)
<1>1. /\ step[b] = "commit" /\ Running(b, CreateUser \cup UpdateUser)
      /\ step' = [step EXCEPT ![b] = "none"]
      /\ users' = [users EXCEPT ![id] = new]
      /\ drawn' = drawn \cup {id}
      /\ UNCHANGED accounts
      /\ \E result, body : Reply(b, result, body)
  BY DEF CommitUser, Commit, Over, NewUser
<1>2. ~Busy(b)' /\ \A c \in Backend \ {b} : Same(c)
  BY <1>1, ReplyFacts
<1>3. /\ id \in UserId /\ id \in UserKey
      /\ new \in UserRow /\ new # None
      /\ Running(b, UpdateUser) => users[id] # None /\ HoldsUser(b, id)
      /\ Running(b, CreateUser) => users[id] = None
      /\ new.email = IF Wanted(b) = Absent THEN users[id].email ELSE Wanted(b)
      /\ Wanted(b) = Absent => users[id] # None
  BY <1>1, NewUserFacts DEF UserKey
<1>4. Running(b, CreateUser) \/ Running(b, UpdateUser)
  BY <1>1 DEF Running
<1> HIDE DEF new
<1>5. \A u \in UserKey : users'[u] = IF u = id THEN new ELSE users[u]
  BY <1>1, <1>3 DEF LockInv, ServiceInv, TypeOK, TablesTyped
<1>6. Running(b, UpdateUser) => id \in drawn
  BY <1>3 DEF LockInv, ServiceInv, Drawn
<1>7. ASSUME NEW c \in Backend \ {b}, Running(c, CreateUser \cup UpdateUser),
             step[c] \in {"index", "commit"}
      PROVE  Req(c).id \in UserKey /\ Req(c).id # id
  <2>1. Req(c).id \in UserKey
    BY <1>7, Kinds DEF Running, Req
  <2>2. CASE Running(c, CreateUser)
    <3>1. Req(c).id \notin drawn
      BY <2>2 DEF LockInv, ServiceInv, Drawn, Running, Req
    <3>2. Running(b, CreateUser) => Req(c).id # id
      BY <2>2 DEF LockInv, ServiceInv, Drawn, Running, Req
    <3> QED BY <1>4, <1>6, <2>1, <3>1, <3>2
  <2>3. CASE Running(c, UpdateUser)
    <3>1. HoldsUser(c, Req(c).id)
      BY <1>7, <2>3 DEF HoldsUser, Running
    <3>2. users[Req(c).id] # None
      BY <2>1, <3>1 DEF LockInv, LocksInv, Held, HeldBy
    <3>3. Running(b, UpdateUser) => Req(c).id # id
      BY <1>3, <2>1, <3>1 DEF LockInv, LocksInv, Exclusive, Excludes
    <3> QED BY <1>3, <1>4, <2>1, <3>2, <3>3
  <2> QED BY <1>7, <2>2, <2>3 DEF Running
<1>8. ASSUME NEW c \in Backend \ {b}, step[c] \in {"index", "commit"}
      PROVE  Wanted(c)' = Wanted(c)
  <2>1. CASE Running(c, CreateUser \cup UpdateUser)
    BY <1>2, <1>5, <1>7, <1>8, <2>1, SameWanted
  <2>2. CASE ~Running(c, CreateUser \cup UpdateUser)
    BY <1>2, <2>2, SameWanted
  <2> QED BY <2>1, <2>2
<1>9. ASSUME NEW c \in Backend \ {b}
      PROVE  HeldBy(c)'
  <2>1. HeldBy(c) /\ Excludes(b, c) /\ Same(c)
    BY <1>2 DEF LockInv, LocksInv, Held, Exclusive
  <2>2. \A u \in UserKey : HoldsUser(c, u)' \/ SharesKey(c, u)' => users'[u] # None
    BY <1>3, <1>5, <2>1, SameHolds DEF HeldBy
  <2>3. step'[c] = "commit" /\ Running(c, UpdateAccount \cup DeleteAccount)' =>
          accounts'[Req(c)'.id] # None
    BY <1>1, <2>1, SameRunning DEF HeldBy, Same, Running
  <2>4. ASSUME step'[c] = "commit", Wanted(c)' # Absent
        PROVE  Owners(Wanted(c), Req(c).id)' = {}
    <3>1. step[c] = "commit" /\ Wanted(c)' = Wanted(c)
      BY <1>8, <2>1, <2>4 DEF Same
    <3>2. Running(c, CreateUser \cup UpdateUser)
      BY <2>4, <3>1 DEF Wanted
    <3>3. Req(c)' = Req(c) /\ Req(c).id # id
      BY <1>7, <2>1, <3>1, <3>2, SameRunning
    <3>4. Owners(Wanted(c), Req(c).id) = {}
      BY <2>1, <2>4, <3>1 DEF HeldBy
    <3>5. new.email # Wanted(c)
      BY <1>1, <1>3, <2>1, <2>4, <3>1, <3>3, <3>4 DEF Excludes, Owners
    <3>6. \A u \in UserId : users'[u] = IF u = id THEN new ELSE users[u]
      BY <1>5 DEF UserKey
    <3> QED BY <3>1, <3>3, <3>4, <3>5, <3>6 DEF Owners
  <2> QED BY <2>2, <2>3, <2>4 DEF HeldBy
<1>10. ASSUME NEW c \in Backend \ {b}, NEW a \in AccountKey, HoldsAccount(c, a)'
       PROVE  HoldsAccount(c, a)
  BY <1>1, <1>2, <1>10, SameRunning DEF HoldsAccount, HasOwner, Same, Running
<1> QED BY <1>1, <1>2, <1>8, <1>9, <1>10, OthersKeep

LEMMA CommitEraseKeeps ==
  ASSUME LockInv, NEW b \in Backend, CommitErase(b)
  PROVE  LocksInv'
<1> DEFINE id == Req(b).id
<1>1. /\ step[b] = "commit" /\ Running(b, DeleteUser)
      /\ step' = [step EXCEPT ![b] = "none"]
      /\ users' = [users EXCEPT ![id] = None]
      /\ accounts' = [a \in AccountKey |-> IF HasOwner(a, id) THEN None ELSE accounts[a]]
      /\ UNCHANGED drawn
      /\ \E result, body : Reply(b, result, body)
  BY DEF CommitErase, Commit, Over
<1>2. ~Busy(b)' /\ \A c \in Backend \ {b} : Same(c)
  BY <1>1, ReplyFacts
<1>3. id \in UserKey /\ HoldsUser(b, id) /\ ChangesKey(b)
  BY <1>1, Kinds DEF HoldsUser, ChangesKey, Running, Req
<1>4. users[id] # None /\ id \in drawn
  BY <1>3 DEF LockInv, LocksInv, Held, HeldBy, ServiceInv, Drawn
<1>5. \A u \in UserKey : users'[u] = IF u = id THEN None ELSE users[u]
  BY <1>1, <1>3 DEF LockInv, ServiceInv, TypeOK, TablesTyped
<1>6. \A a \in AccountKey : HoldsAccount(b, a) <=> HasOwner(a, id)
  BY <1>1, KindHolds DEF HoldsAccount, Running
<1>7. ASSUME NEW c \in Backend \ {b}, step[c] \in {"index", "commit"}
      PROVE  Wanted(c)' = Wanted(c)
  <2>1. ASSUME Running(c, CreateUser \cup UpdateUser)
        PROVE  Req(c).id \in UserKey /\ Req(c).id # id
    <3>1. Req(c).id \in UserKey
      BY <2>1, Kinds DEF Running, Req
    <3>2. CASE Running(c, CreateUser)
      BY <1>4, <3>1, <3>2 DEF LockInv, ServiceInv, Drawn, Running, Req
    <3>3. CASE Running(c, UpdateUser)
      <4>1. HoldsUser(c, Req(c).id)
        BY <1>7, <3>3 DEF HoldsUser, Running
      <4> QED BY <1>3, <3>1, <4>1 DEF LockInv, LocksInv, Exclusive, Excludes
    <3> QED BY <2>1, <3>2, <3>3 DEF Running
  <2> QED BY <1>2, <1>5, <2>1, SameWanted
<1>8. ASSUME NEW c \in Backend \ {b}
      PROVE  HeldBy(c)'
  <2>1. HeldBy(c) /\ Excludes(b, c) /\ Same(c)
    BY <1>2 DEF LockInv, LocksInv, Held, Exclusive
  <2>2. \A u \in UserKey : HoldsUser(c, u) \/ SharesKey(c, u) => u # id
    BY <1>3, <2>1 DEF Excludes
  <2>3. \A u \in UserKey : HoldsUser(c, u)' \/ SharesKey(c, u)' => users'[u] # None
    BY <1>5, <2>1, <2>2, SameHolds DEF HeldBy
  <2>4. ASSUME step'[c] = "commit", Running(c, UpdateAccount \cup DeleteAccount)'
        PROVE  accounts'[Req(c)'.id] # None
    <3>1. /\ step[c] = "commit" /\ Running(c, UpdateAccount \cup DeleteAccount)
          /\ Req(c)' = Req(c)
      BY <2>1, <2>4, SameRunning DEF Same
    <3>2. Req(c).id \in AccountKey /\ HoldsAccount(c, Req(c).id)
      BY <3>1, Kinds DEF HoldsAccount, Running, Req
    <3>3. ~HasOwner(Req(c).id, id)
      BY <1>6, <2>1, <3>2 DEF Excludes
    <3> QED BY <1>1, <2>1, <3>1, <3>2, <3>3 DEF HeldBy
  <2>5. ASSUME step'[c] = "commit", Wanted(c)' # Absent
        PROVE  Owners(Wanted(c), Req(c).id)' = {}
    <3>1. step[c] = "commit" /\ Wanted(c)' = Wanted(c)
      BY <1>7, <2>1, <2>5 DEF Same
    <3>2. Req(c)' = Req(c)
      BY <2>1, <2>5, <3>1, SameRunning DEF Wanted
    <3>3. Owners(Wanted(c), Req(c).id) = {}
      BY <2>1, <2>5, <3>1 DEF HeldBy
    <3> QED BY <1>5, <3>1, <3>2, <3>3 DEF Owners, UserKey
  <2> QED BY <2>3, <2>4, <2>5 DEF HeldBy
<1>9. ASSUME NEW c \in Backend \ {b}, NEW a \in AccountKey, HoldsAccount(c, a)'
      PROVE  HoldsAccount(c, a)
  <2>1. \A u : HasOwner(a, u)' => HasOwner(a, u)
    BY <1>1 DEF HasOwner
  <2>2. /\ Running(c, UpdateAccount \cup DeleteAccount)' <=>
             Running(c, UpdateAccount \cup DeleteAccount)
        /\ Running(c, DeleteUser)' <=> Running(c, DeleteUser)
        /\ Running(c, UpdateAccount \cup DeleteAccount) => Req(c)' = Req(c)
        /\ Running(c, DeleteUser) => Req(c)' = Req(c)
        /\ step'[c] = step[c]
    BY <1>2, SameRunning DEF Same
  <2> QED BY <1>9, <2>1, <2>2 DEF HoldsAccount, HasOwner
<1> QED BY <1>1, <1>2, <1>7, <1>8, <1>9, OthersKeep

\* The row a statement leaves of an account.
NewAccount(b) ==
  LET r == Req(b)
  IN  IF r \in DeleteAccount THEN None
      ELSE IF r \in CreateAccount THEN [owner |-> r.owner, name |-> r.name]
      ELSE [accounts[r.id] EXCEPT !.name = COALESCE(r.name, @)]

LEMMA NewAccountFacts ==
  ASSUME LockInv, NEW b \in Backend, step[b] = "commit",
         Running(b, CreateAccount \cup UpdateAccount \cup DeleteAccount)
  PROVE  /\ Req(b).id \in AccountKey
         /\ Running(b, DeleteAccount) => NewAccount(b) = None
         /\ ~Running(b, DeleteAccount) => NewAccount(b) # None
         /\ Running(b, CreateAccount) =>
              /\ Req(b).id \in AccountId
              /\ NewAccount(b).owner = Req(b).owner
              /\ SharesKey(b, Req(b).owner) /\ users[Req(b).owner] # None
         /\ ~Running(b, CreateAccount) =>
              accounts[Req(b).id] # None /\ HoldsAccount(b, Req(b).id)
         /\ Running(b, UpdateAccount) =>
              NewAccount(b).owner = accounts[Req(b).id].owner
<1> DEFINE r == Req(b)
<1>1. TablesTyped /\ NoStrangers /\ HeldBy(b)
  BY DEF LockInv, LocksInv, Held, ServiceInv, TypeOK
<1>2. /\ r \in CreateAccount \cup UpdateAccount \cup DeleteAccount
      /\ Accepted(r) /\ Busy(b)
  BY RunningFacts DEF LockInv, Req, Running
<1>3. r.id \in AccountKey
  BY <1>2, Kinds
<1>4. /\ Running(b, DeleteAccount) <=> r \in DeleteAccount
      /\ Running(b, UpdateAccount) <=> r \in UpdateAccount
      /\ Running(b, CreateAccount) <=> r \in CreateAccount
      /\ r \in DeleteAccount => r \notin UpdateAccount /\ r \notin CreateAccount
      /\ r \in UpdateAccount => r \notin CreateAccount
  BY <1>2, Kinds DEF Running, Req
<1>5. CASE r \in DeleteAccount
  <2>1. accounts[r.id] # None /\ HoldsAccount(b, r.id)
    BY <1>1, <1>2, <1>5 DEF HeldBy, HoldsAccount, Running, Req
  <2>2. NewAccount(b) = None
    BY <1>5 DEF NewAccount
  <2> QED BY <1>3, <1>4, <1>5, <2>1, <2>2
<1>6. CASE r \in CreateAccount
  <2>1. r.id \in AccountId /\ r.owner \in UserKey /\ r.name \in Name
    BY <1>2, <1>6, CreateAccountFacts
  <2>2. SharesKey(b, r.owner) /\ users[r.owner] # None
    BY <1>1, <1>4, <1>6, <2>1 DEF SharesKey, HeldBy
  <2>3. [owner |-> r.owner, name |-> r.name] \in AccountRow
    BY <1>1, <2>1, <2>2 DEF NoStrangers, AccountRow
  <2>4. NewAccount(b) = [owner |-> r.owner, name |-> r.name]
    BY <1>4, <1>6 DEF NewAccount
  <2>5. NewAccount(b).owner = r.owner
    BY <2>4
  <2> QED BY <1>3, <1>4, <1>6, <2>1, <2>2, <2>3, <2>4, <2>5, NoneAssumption
<1>7. CASE r \in UpdateAccount
  <2>1. accounts[r.id] # None /\ HoldsAccount(b, r.id)
    BY <1>1, <1>2, <1>7 DEF HeldBy, HoldsAccount, Running, Req
  <2>2. accounts[r.id] \in AccountRow
    BY <1>1, <1>3, <2>1 DEF TablesTyped
  <2>3. NewAccount(b) = [accounts[r.id] EXCEPT !.name = COALESCE(r.name, @)]
    BY <1>4, <1>7 DEF NewAccount
  <2>4. NewAccount(b) \in AccountRow /\ NewAccount(b).owner = accounts[r.id].owner
    BY <1>2, <1>7, <2>2, <2>3, UpdateAccountFacts
  <2> QED BY <1>3, <1>4, <1>7, <2>1, <2>4, NoneAssumption
<1> QED BY <1>2, <1>5, <1>6, <1>7

LEMMA CommitAccountKeeps ==
  ASSUME LockInv, NEW b \in Backend, CommitAccount(b)
  PROVE  LocksInv'
<1> DEFINE id  == Req(b).id
           new == NewAccount(b)
<1>1. /\ step[b] = "commit"
      /\ Running(b, CreateAccount \cup UpdateAccount \cup DeleteAccount)
      /\ step' = [step EXCEPT ![b] = "none"]
      /\ accounts' = [accounts EXCEPT ![id] = new]
      /\ drawn' = drawn \cup {id}
      /\ UNCHANGED users
      /\ \E result, body : Reply(b, result, body)
  BY DEF CommitAccount, Commit, Over, NewAccount
<1>2. ~Busy(b)' /\ \A c \in Backend \ {b} : Same(c)
  BY <1>1, ReplyFacts
<1>3. /\ id \in AccountKey
      /\ Running(b, DeleteAccount) => new = None
      /\ Running(b, CreateAccount) =>
           id \in AccountId /\ new.owner = Req(b).owner /\ SharesKey(b, Req(b).owner)
      /\ ~Running(b, CreateAccount) => accounts[id] # None /\ HoldsAccount(b, id)
      /\ Running(b, UpdateAccount) => new.owner = accounts[id].owner
  BY <1>1, NewAccountFacts
<1>4. Running(b, CreateAccount) \/ Running(b, UpdateAccount) \/ Running(b, DeleteAccount)
  BY <1>1 DEF Running
<1> HIDE DEF new
<1>5. \A a \in AccountKey : accounts'[a] = IF a = id THEN new ELSE accounts[a]
  BY <1>1, <1>3 DEF LockInv, ServiceInv, TypeOK, TablesTyped
<1>6. ~Running(b, CreateAccount) => id \in drawn \cap AccountId
  BY <1>3 DEF LockInv, ServiceInv, Drawn
<1>7. Running(b, CreateAccount) => id \notin drawn
  BY DEF LockInv, ServiceInv, Drawn, Running, Req
<1>8. \A c \in Backend \ {b} : Wanted(c)' = Wanted(c)
  BY <1>1, <1>2, SameWanted
<1>9. ASSUME NEW c \in Backend \ {b}
      PROVE  HeldBy(c)'
  <2>1. HeldBy(c) /\ Excludes(b, c) /\ Same(c)
    BY <1>2 DEF LockInv, LocksInv, Held, Exclusive
  <2>2. \A u \in UserKey : HoldsUser(c, u)' \/ SharesKey(c, u)' => users'[u] # None
    BY <1>1, <2>1, SameHolds DEF HeldBy
  <2>3. ASSUME step'[c] = "commit", Running(c, UpdateAccount \cup DeleteAccount)'
        PROVE  accounts'[Req(c)'.id] # None
    <3>1. /\ step[c] = "commit" /\ Running(c, UpdateAccount \cup DeleteAccount)
          /\ Req(c)' = Req(c)
      BY <2>1, <2>3, SameRunning DEF Same
    <3>2. Req(c).id \in AccountKey /\ HoldsAccount(c, Req(c).id)
      BY <3>1, Kinds DEF HoldsAccount, Running, Req
    <3>3. accounts[Req(c).id] # None /\ Req(c).id \in drawn
      BY <2>1, <3>1, <3>2 DEF HeldBy, LockInv, ServiceInv, Drawn
    <3>4. Req(c).id # id
      BY <1>3, <1>7, <2>1, <3>2, <3>3 DEF Excludes
    <3> QED BY <1>5, <3>1, <3>2, <3>3, <3>4
  <2>4. ASSUME step'[c] = "commit", Wanted(c)' # Absent
        PROVE  Owners(Wanted(c), Req(c).id)' = {}
    <3>1. step[c] = "commit" /\ Wanted(c)' = Wanted(c)
      BY <1>8, <2>1, <2>4 DEF Same
    <3>2. Req(c)' = Req(c)
      BY <2>1, <2>4, <3>1, SameRunning DEF Wanted
    <3>3. Owners(Wanted(c), Req(c).id) = {}
      BY <2>1, <2>4, <3>1 DEF HeldBy
    <3> QED BY <1>1, <3>1, <3>2, <3>3 DEF Owners
  <2> QED BY <2>2, <2>3, <2>4 DEF HeldBy
<1>10. ASSUME NEW c \in Backend \ {b}, NEW a \in AccountKey, HoldsAccount(c, a)'
       PROVE  HoldsAccount(c, a)
  <2>1. /\ Running(c, UpdateAccount \cup DeleteAccount)' <=>
             Running(c, UpdateAccount \cup DeleteAccount)
        /\ Running(c, DeleteUser)' <=> Running(c, DeleteUser)
        /\ Running(c, UpdateAccount \cup DeleteAccount) => Req(c)' = Req(c)
        /\ Running(c, DeleteUser) => Req(c)' = Req(c)
        /\ step'[c] = step[c]
    BY <1>2, SameRunning DEF Same
  <2>2. CASE Running(c, UpdateAccount \cup DeleteAccount)' /\ Req(c)'.id = a
    BY <1>10, <2>1, <2>2 DEF HoldsAccount
  <2>3. CASE Running(c, DeleteUser)' /\ HasOwner(a, Req(c).id)'
    <3>1. /\ step[c] = "commit" /\ Running(c, DeleteUser)
          /\ accounts'[a] # None /\ accounts'[a].owner = Req(c).id
      BY <1>10, <2>1, <2>3 DEF HoldsAccount, HasOwner
    <3>2. CASE a # id
      BY <1>5, <3>1, <3>2 DEF HoldsAccount, HasOwner
    <3>3. CASE a = id
      <4>1. new # None /\ new.owner = Req(c).id
        BY <1>5, <3>1, <3>3
      <4>2. Req(c).id \in UserKey /\ HoldsUser(c, Req(c).id) /\ ChangesKey(c)
        BY <3>1, Kinds DEF HoldsUser, ChangesKey, Running, Req
      <4>3. ~SharesKey(b, Req(c).id)
        BY <4>2 DEF LockInv, LocksInv, Exclusive, Excludes
      <4>4. ~Running(b, CreateAccount)
        BY <1>3, <4>1, <4>3
      <4>5. accounts[a] # None /\ accounts[a].owner = Req(c).id
        BY <1>3, <1>4, <3>3, <4>1, <4>4
      <4> QED BY <3>1, <4>5 DEF HoldsAccount, HasOwner
    <3> QED BY <3>2, <3>3
  <2> QED BY <1>10, <2>2, <2>3 DEF HoldsAccount
<1> QED BY <1>1, <1>2, <1>8, <1>9, <1>10, OthersKeep

-----------------------------------------------------------------------------
(* The invariant. *)

LEMMA LockInit == LInit => LockInv
<1> SUFFICES ASSUME LInit
             PROVE  ServiceInv /\ StepTyped /\ Held /\ Exclusive
  BY DEF LockInv, LocksInv
<1>1. Init /\ step = [b \in Backend |-> "none"]
  BY DEF LInit
<1>2. \A b \in Backend : step[b] = "none" /\ ~Busy(b)
  BY <1>1 DEF Init, Busy
<1>3. ServiceInv
  BY <1>1, InitInv
<1>4. StepTyped
  BY <1>1, <1>2 DEF StepTyped
<1>6. Held /\ Exclusive
  BY <1>2 DEF Held, HeldBy, Exclusive, Excludes, HoldsUser, SharesKey, HoldsAccount
<1> QED BY <1>3, <1>4, <1>6

LEMMA LockKeeps ==
  ASSUME LockInv, NEW b \in Backend, Lock(b)
  PROVE  LocksInv'
BY EndKeeps, LockUserKeeps, ShareKeyKeeps, LockAccountKeeps, EnterIndexKeeps,
   CascadeKeeps
   DEF Lock, LockUser, ShareKey, LockAccount, EnterIndex

\* Steps that leave tables and statements alone.
LEMMA IdleKeeps ==
  ASSUME LockInv, UNCHANGED <<db, backend, step>>
  PROVE  LocksInv'
<1>1. \A c \in Backend : Same(c)
  BY DEF Same, Busy, Req
<1> QED BY <1>1, StillKeeps

LEMMA LocksNext == LockInv /\ [LNext]_lvars => LocksInv'
<1> SUFFICES ASSUME LockInv, [LNext]_lvars
             PROVE  LocksInv'
  OBVIOUS
<1>1. ASSUME NEW s \in Slot, NEW r \in Inputs, LRefuse(s, r)
      PROVE  LocksInv'
  BY <1>1, IdleKeeps DEF LRefuse, Refuse, locks
<1>2. ASSUME NEW s \in Slot, NEW r \in Inputs, NEW b \in Backend, LSend(s, r, b)
      PROVE  LocksInv'
  BY <1>2, SendKeeps
<1>3. ASSUME NEW b \in Backend,
             Begin(b) \/ Lock(b) \/ CommitUser(b) \/ CommitErase(b) \/ CommitAccount(b)
      PROVE  LocksInv'
  BY <1>3, BeginKeeps, LockKeeps, CommitUserKeeps, CommitEraseKeeps, CommitAccountKeeps
<1>4. ASSUME NEW b \in Backend, LSelect(b) \/ LAbandon(b) \/ LFail(b) \/ Deadlock(b)
      PROVE  LocksInv'
  BY <1>4, SelectKeeps, AbandonKeeps, EndKeeps DEF LFail, Deadlock
<1>5. CASE Tick
  BY <1>5, IdleKeeps DEF Tick, vars, db
<1>6. CASE UNCHANGED lvars
  BY <1>6, IdleKeeps DEF lvars, db
<1>7. ASSUME NEW s \in Slot, LRespond(s)
      PROVE  LocksInv'
  BY <1>7, IdleKeeps DEF LRespond, Respond, locks
<1> QED BY <1>1, <1>2, <1>3, <1>4, <1>5, <1>6, <1>7 DEF LNext

-----------------------------------------------------------------------------
(* The refinement. *)

\* Taking a lock is no step of Service, finding no row or a taken address is
\* the whole statement.
LEMMA LockStep ==
  ASSUME LockInv, NEW b \in Backend, Lock(b)
  PROVE  UNCHANGED vars \/ Statement(b)
<1> DEFINE r == Req(b)
<1>1. ASSUME LockUser(b), users[r.id] = None
      PROVE  PatchUser(b) \/ EraseUser(b)
  BY <1>1 DEF LockUser, End, PatchUser, EraseUser, Req, Running
<1>2. ASSUME ShareKey(b), users[r.owner] = None
      PROVE  InsertAccount(b)
  BY <1>2 DEF ShareKey, End, InsertAccount, Req
<1>3. ASSUME LockAccount(b), accounts[r.id] = None
      PROVE  PatchAccount(b) \/ EraseAccount(b)
  BY <1>3 DEF LockAccount, End, PatchAccount, EraseAccount, Req, Running
<1>4. ASSUME EnterIndex(b), Owners(Wanted(b), r.id) # {}
      PROVE  InsertUser(b) \/ PatchUser(b)
  <2>1. /\ Running(b, CreateUser \cup UpdateUser) /\ Wanted(b) # Absent
        /\ step[b] = "index" /\ HeldBy(b)
    BY <1>4 DEF EnterIndex, LockInv, LocksInv, StepTyped, Held
  <2>2. Wanted(b) = r.email /\ r.email # Absent
    BY <2>1 DEF Wanted
  <2>3. Taken(r.email, r.id)
    BY <1>4, <2>2 DEF Owners, Taken
  <2>4. Reply(b, "unique_violation", None) /\ UNCHANGED db
    BY <1>4 DEF EnterIndex, End
  <2>5. CASE Running(b, CreateUser)
    BY <2>3, <2>4, <2>5 DEF InsertUser, Req
  <2>6. CASE Running(b, UpdateUser)
    <3>1. r.id \in UserKey /\ HoldsUser(b, r.id)
      BY <2>1, <2>6, Kinds DEF HoldsUser, Running, Req
    <3>2. users[r.id] # None
      BY <2>1, <3>1 DEF HeldBy
    <3>3. COALESCE(r.email, users[r.id].email) = r.email
      BY <2>2 DEF COALESCE
    <3> QED BY <2>3, <2>4, <2>6, <3>2, <3>3 DEF PatchUser, Req
  <2> QED BY <2>1, <2>5, <2>6 DEF Running
<1> QED BY <1>1, <1>2, <1>3, <1>4
        DEF Lock, LockUser, ShareKey, LockAccount, EnterIndex, Cascade, Advance, Statement

LEMMA CommitUserStep ==
  ASSUME LockInv, NEW b \in Backend, CommitUser(b)
  PROVE  InsertUser(b) \/ PatchUser(b)
<1> DEFINE r   == Req(b)
           new == NewUser(b)
<1>1. /\ step[b] = "commit" /\ Running(b, CreateUser \cup UpdateUser)
      /\ users' = [users EXCEPT ![r.id] = new]
      /\ drawn' = drawn \cup {r.id}
      /\ Reply(b, "ok", User(r.id, new))
      /\ UNCHANGED accounts
  BY DEF CommitUser, Commit, NewUser
<1>2. /\ Running(b, UpdateUser) => users[r.id] # None
      /\ ~Taken(new.email, r.id)
      /\ r.id \in UserId
  BY <1>1, NewUserFacts
<1>3. CASE Running(b, CreateUser)
  <2>1. new = [email |-> r.email, name |-> r.name]
    BY <1>3 DEF NewUser, Running, Req
  <2>2. ~Taken(r.email, r.id)
    BY <1>2, <2>1
  <2> QED BY <1>1, <1>3, <2>1, <2>2 DEF InsertUser, Req
<1>4. CASE Running(b, UpdateUser)
  <2>1. new = [email |-> COALESCE(r.email, users[r.id].email),
               name  |-> COALESCE(r.name, users[r.id].name)]
    BY <1>4, Kinds DEF NewUser, Running, Req
  <2>2. r.id \in drawn
    BY <1>2, <1>4 DEF LockInv, ServiceInv, Drawn, UserKey
  <2>3. UNCHANGED drawn
    BY <1>1, <2>2
  <2>4. ~Taken(COALESCE(r.email, users[r.id].email), r.id)
    BY <1>2, <2>1
  <2> QED BY <1>1, <1>2, <1>4, <2>1, <2>3, <2>4 DEF PatchUser, Req
<1> QED BY <1>1, <1>3, <1>4 DEF Running

LEMMA CommitEraseStep ==
  ASSUME LockInv, NEW b \in Backend, CommitErase(b)
  PROVE  EraseUser(b)
<1> DEFINE u == Req(b).id
<1>1. /\ step[b] = "commit" /\ Running(b, DeleteUser)
      /\ users' = [users EXCEPT ![u] = None]
      /\ accounts' = [a \in AccountKey |-> IF HasOwner(a, u) THEN None ELSE accounts[a]]
      /\ Reply(b, "ok", None)
      /\ UNCHANGED drawn
  BY DEF CommitErase, Commit
<1>2. u \in UserKey /\ HoldsUser(b, u)
  BY <1>1, Kinds DEF HoldsUser, Running, Req
<1>3. users[u] # None
  BY <1>2 DEF LockInv, LocksInv, Held, HeldBy
<1> QED BY <1>1, <1>3 DEF EraseUser, HasOwner, Req

LEMMA CommitAccountStep ==
  ASSUME LockInv, NEW b \in Backend, CommitAccount(b)
  PROVE  InsertAccount(b) \/ PatchAccount(b) \/ EraseAccount(b)
<1> DEFINE r   == Req(b)
           new == NewAccount(b)
<1>1. /\ step[b] = "commit"
      /\ Running(b, CreateAccount \cup UpdateAccount \cup DeleteAccount)
      /\ accounts' = [accounts EXCEPT ![r.id] = new]
      /\ drawn' = drawn \cup {r.id}
      /\ Reply(b, "ok", IF new = None THEN None ELSE Account(r.id, new))
      /\ UNCHANGED users
  BY DEF CommitAccount, Commit, NewAccount
<1>2. /\ r.id \in AccountKey
      /\ Running(b, DeleteAccount) => new = None
      /\ ~Running(b, DeleteAccount) => new # None
      /\ Running(b, CreateAccount) => users[r.owner] # None
      /\ ~Running(b, CreateAccount) => accounts[r.id] # None
  BY <1>1, NewAccountFacts
<1>3. ~Running(b, CreateAccount) => UNCHANGED drawn
  BY <1>1, <1>2 DEF LockInv, ServiceInv, Drawn
<1>4. CASE Running(b, CreateAccount)
  <2>1. ~Running(b, DeleteAccount)
    BY <1>4, Kinds DEF Running
  <2>2. new = [owner |-> r.owner, name |-> r.name]
    BY <1>4, <2>1 DEF NewAccount, Running, Req
  <2> QED BY <1>1, <1>2, <1>4, <2>1, <2>2 DEF InsertAccount, Req
<1>5. CASE Running(b, UpdateAccount)
  <2>1. ~Running(b, DeleteAccount) /\ ~Running(b, CreateAccount)
    BY <1>5, Kinds DEF Running
  <2>2. new = [accounts[r.id] EXCEPT !.name = COALESCE(r.name, @)]
    BY <1>5, <2>1 DEF NewAccount, Running, Req
  <2> QED BY <1>1, <1>2, <1>3, <1>5, <2>1, <2>2 DEF PatchAccount, Req
<1>6. CASE Running(b, DeleteAccount)
  <2>1. ~Running(b, CreateAccount)
    BY <1>6, Kinds DEF Running
  <2> QED BY <1>1, <1>2, <1>3, <1>6, <2>1 DEF EraseAccount, Req
<1> QED BY <1>1, <1>4, <1>5, <1>6 DEF Running

\* Every step is one of Service, or none.
LEMMA StepIsAtomic == LockInv /\ [LNext]_lvars => [Next]_vars
<1> SUFFICES ASSUME LockInv, [LNext]_lvars
             PROVE  Next \/ UNCHANGED vars
  OBVIOUS
<1>1. ASSUME NEW s \in Slot, NEW r \in Inputs, LRefuse(s, r)
      PROVE  Next
  BY <1>1 DEF LRefuse, Next, Receive
<1>2. ASSUME NEW s \in Slot, NEW r \in Inputs, NEW b \in Backend, LSend(s, r, b)
      PROVE  Next
  BY <1>2 DEF LSend, Next, Receive
<1>3. ASSUME NEW b \in Backend, Begin(b)
      PROVE  UNCHANGED vars
  BY <1>3 DEF Begin, Advance
<1>4. ASSUME NEW b \in Backend, Lock(b)
      PROVE  Next \/ UNCHANGED vars
  BY <1>4, LockStep DEF Next
<1>5. ASSUME NEW b \in Backend, CommitUser(b) \/ CommitErase(b) \/ CommitAccount(b)
      PROVE  Next
  BY <1>5, CommitUserStep, CommitEraseStep, CommitAccountStep DEF Next, Statement
<1>6. ASSUME NEW b \in Backend, LSelect(b)
      PROVE  Next
  BY <1>6 DEF LSelect, Next, Statement
<1>7. ASSUME NEW b \in Backend, LAbandon(b)
      PROVE  Next
  BY <1>7 DEF LAbandon, Next
<1>8. ASSUME NEW b \in Backend, LFail(b)
      PROVE  Next
  BY <1>8 DEF LFail, End, Fail, Next
<1>9. ASSUME NEW b \in Backend, Deadlock(b)
      PROVE  Next
  BY <1>9 DEF Deadlock, End, Fail, Next
<1>10. CASE Tick
  BY <1>10 DEF Tick
<1>11. CASE UNCHANGED lvars
  BY <1>11 DEF lvars, vars
<1>12. ASSUME NEW s \in Slot, LRespond(s)
       PROVE  Next
  BY <1>12 DEF LRespond, Next
<1> QED BY <1>1, <1>2, <1>3, <1>4, <1>5, <1>6, <1>7, <1>8, <1>9, <1>10, <1>11, <1>12
        DEF LNext

LEMMA LockNextInv == LockInv /\ [LNext]_lvars => LockInv'
BY LocksNext, StepIsAtomic, NextInv DEF LockInv

\* What a statement has found under its locks is still so when it commits, and
\* locks that exclude each other are never held at a time.
THEOREM LocksInvariant == LSpec => []LockInv
<1> QED BY LockInit, LockNextInv, PTL DEF LSpec

\* Statements that lock, wait, fall into deadlocks and are cancelled do what
\* they would have done one at a time, each in a single step.
THEOREM LocksImplement == LSpec => StatementsAreAtomic
<1>1. LInit => Init
  BY DEF LInit
<1> QED BY <1>1, StepIsAtomic, LocksInvariant, PTL DEF LSpec, StatementsAreAtomic, Spec

\* So the tables stay whole, however the statements overlap.
THEOREM TablesWholeUnderLocks == LSpec => []Integrity
<1>1. LockInv => Integrity
  BY DEF LockInv, ServiceInv
<1> QED BY <1>1, LocksInvariant, PTL

\* And the clients still see the directory: a statement acts when it commits.
THEOREM LocksImplementDirectory == LSpec => ImplementsDirectory
BY LocksImplement, ServiceImplements DEF StatementsAreAtomic

-----------------------------------------------------------------------------
(* The column updated_at. *)

\* No time is later than the clock, and a transaction that has begun has a
\* NOW() no earlier than what its row showed when it was sent.
ClockInv ==
  /\ clock \in Nat
  /\ updated_at \in [UserKey -> 0..clock]
  /\ now \in [Backend -> 0..clock]
  /\ floor \in [Backend -> 0..clock]
  /\ \A b \in Backend : step[b] # "none" => floor[b] <= now[b]

LEMMA ClockNext == LockInv /\ ClockInv /\ [LNext]_lvars => ClockInv'
<1> SUFFICES ASSUME LockInv, ClockInv, [LNext]_lvars
             PROVE  ClockInv'
  OBVIOUS
<1>1. step \in [Backend -> {"none", "row", "index", "cascade", "commit"}]
  BY DEF LockInv, LocksInv, StepTyped
<1>2. ASSUME NEW b \in Backend, Over(b),
             UNCHANGED updated_at \/ updated_at' \in [UserKey -> 0..clock]
      PROVE  ClockInv'
  BY <1>1, <1>2 DEF Over, ClockInv
<1>3. ASSUME NEW b \in Backend, NEW s, step[b] # "none", Advance(b, s), UNCHANGED now
      PROVE  ClockInv'
  BY <1>1, <1>3 DEF Advance, ClockInv
<1>4. ASSUME NEW s \in Slot, NEW r \in Inputs, LRefuse(s, r)
      PROVE  ClockInv'
  BY <1>4 DEF LRefuse, locks, ClockInv
<1>5. ASSUME NEW s \in Slot, NEW r \in Inputs, NEW b \in Backend, LSend(s, r, b)
      PROVE  ClockInv'
  <2>1. step[b] = "none" /\ UNCHANGED <<clock, step, now, updated_at>>
    BY <1>5 DEF LSend, Send, LockInv, LocksInv, StepTyped
  <2>2. CASE r \in UpdateUser
    <3>1. r.id \in UserKey /\ floor' = [floor EXCEPT ![b] = updated_at[r.id]]
      BY <1>5, <2>2, Kinds DEF LSend
    <3> QED BY <2>1, <3>1 DEF ClockInv
  <2>3. CASE r \notin UpdateUser
    BY <1>5, <2>1, <2>3 DEF LSend, ClockInv
  <2> QED BY <2>2, <2>3
<1>6. ASSUME NEW b \in Backend, Begin(b)
      PROVE  ClockInv'
  <2>1. PICK s : step' = [step EXCEPT ![b] = s]
    BY <1>6 DEF Begin, Advance
  <2>2. now' = [now EXCEPT ![b] = clock] /\ UNCHANGED <<clock, updated_at, floor>>
    BY <1>6 DEF Begin, Advance
  <2> QED BY <1>1, <2>1, <2>2 DEF ClockInv
<1>7. ASSUME NEW b \in Backend, NEW result, End(b, result)
      PROVE  ClockInv'
  BY <1>2, <1>7 DEF End
<1>8. ASSUME NEW b \in Backend, Lock(b)
      PROVE  ClockInv'
  <2>1. (\E result : End(b, result)) \/ (step[b] # "none" /\ UNCHANGED now /\ \E s : Advance(b, s))
    BY <1>8 DEF Lock, LockUser, ShareKey, LockAccount, EnterIndex, Cascade
  <2> QED BY <1>3, <1>7, <2>1
<1>9. ASSUME NEW b \in Backend, CommitUser(b)
      PROVE  ClockInv'
  <2>1. Over(b) /\ updated_at' = [updated_at EXCEPT ![Req(b).id] = now[b]]
    BY <1>9 DEF CommitUser, Commit
  <2>2. updated_at' \in [UserKey -> 0..clock]
    BY <2>1 DEF ClockInv
  <2> QED BY <1>2, <2>1, <2>2
<1>10. ASSUME NEW b \in Backend, CommitErase(b) \/ CommitAccount(b)
       PROVE  ClockInv'
  <2>1. /\ Over(b)
        /\ \/ updated_at' = [updated_at EXCEPT ![Req(b).id] = 0]
           \/ UNCHANGED updated_at
    BY <1>10 DEF CommitErase, CommitAccount, Commit
  <2>2. UNCHANGED updated_at \/ updated_at' \in [UserKey -> 0..clock]
    BY <2>1 DEF ClockInv
  <2> QED BY <1>2, <2>1, <2>2
<1>11. ASSUME NEW b \in Backend, LSelect(b) \/ LAbandon(b)
       PROVE  ClockInv'
  BY <1>11 DEF LSelect, LAbandon, locks, ClockInv
<1>12. CASE Tick
  <2>1. clock' = clock + 1 /\ UNCHANGED <<step, now, updated_at, floor>>
    BY <1>12 DEF Tick
  <2>2. 0..clock \subseteq 0..clock'
    BY <2>1 DEF ClockInv
  <2> QED BY <2>1, <2>2 DEF ClockInv
<1>13. CASE UNCHANGED lvars
  BY <1>13 DEF lvars, ClockInv
<1>14. ASSUME NEW s \in Slot, LRespond(s)
       PROVE  ClockInv'
  BY <1>14 DEF LRespond, locks, ClockInv
<1> QED BY <1>4, <1>5, <1>6, <1>7, <1>8, <1>9, <1>10, <1>11, <1>12, <1>13, <1>14
        DEF LNext, LFail, Deadlock

\* A patch sent after another was committed never shows an earlier updated_at.
THEOREM UpdatedAtOrdered == LSpec => UpdatedAtAdvances
<1>1. LInit => ClockInv
  BY DEF LInit, ClockInv
<1>2. ASSUME LockInv, ClockInv, NEW b \in Backend, CommitUser(b)
      PROVE  updated_at'[Req(b).id] >= floor[b]
  <2>1. /\ step[b] = "commit" /\ Running(b, CreateUser \cup UpdateUser)
        /\ updated_at' = [updated_at EXCEPT ![Req(b).id] = now[b]]
    BY <1>2 DEF CommitUser, Commit
  <2>2. Req(b).id \in UserKey
    BY <2>1, Kinds DEF Running, Req
  <2> QED BY <1>2, <2>1, <2>2 DEF ClockInv
<1>3. LockInv /\ ClockInv =>
        \A b \in Backend : CommitUser(b) /\ Running(b, UpdateUser)
                             => updated_at'[Req(b).id] >= floor[b]
  BY <1>2
<1>4. LSpec => []ClockInv
  BY <1>1, ClockNext, LocksInvariant, PTL DEF LSpec
<1> QED BY <1>3, <1>4, LocksInvariant, PTL DEF UpdatedAtAdvances

-----------------------------------------------------------------------------
(* Deadlocks. *)

\* Nobody of these statements gets on before another of them, and each keeps
\* one of them waiting.
Circle(C) ==
  \A b \in C : (\E d \in C : d \in Waits(b)) /\ (\E d \in C : b \in Waits(d))

\* Patches of users, each for the address the user of another has.
Rotation(C) ==
  \A b \in C :
    /\ Running(b, UpdateUser) /\ step[b] = "index"
    /\ \E d \in C \ {b} : /\ users[Req(d).id] # None
                          /\ users[Req(d).id].email = Req(b).email

\* Who is waited for is past its row, and who waits has not decided yet.
LEMMA WaitFacts ==
  ASSUME NEW b \in Backend, NEW d \in Waits(b)
  PROVE  /\ d \in Backend \ {b}
         /\ step[b] \in {"row", "index", "cascade"}
         /\ step[d] \in {"index", "cascade", "commit"}
         /\ step[d] # "commit" => Running(d, UpdateUser \cup DeleteUser)
         /\ step[b] = "cascade" => step[d] = "commit"
<1>1. d \in Backend \ {b} /\ Blocks(d, b)
  BY DEF Waits
<1> QED
  BY <1>1 DEF Blocks, HoldsUser, SharesKey, HoldsAccount, HoldsEntry

\* The rows are locked in an order that keeps statements from waiting in a
\* circle, but for one case: patches that take their addresses from each other.
\* No creation, no delete and nothing that is asked of an account is ever
\* answered 500 for a deadlock.
THEOREM CirclesRotateAddresses ==
  LSpec => [](\A C \in SUBSET Backend : Circle(C) => Rotation(C))
<1>1. ASSUME LockInv, NEW C \in SUBSET Backend, Circle(C)
      PROVE  Rotation(C)
  <2>1. \A b \in C : step[b] \in {"index", "cascade"}
    <3>1. ASSUME NEW b \in C PROVE step[b] \in {"index", "cascade"}
      <4>1. PICK d \in C : d \in Waits(b)
        BY <1>1 DEF Circle
      <4>2. PICK e \in C : b \in Waits(e)
        BY <1>1 DEF Circle
      <4>3. b \in Backend /\ e \in Backend
        OBVIOUS
      <4>4. step[b] \in {"row", "index", "cascade"}
        BY <4>1, <4>3, WaitFacts
      <4>5. step[b] \in {"index", "cascade", "commit"}
        BY <4>2, <4>3, WaitFacts
      <4> QED BY <4>4, <4>5
    <3> QED BY <3>1
  <2>2. ASSUME NEW b \in C PROVE step[b] = "index"
    <3>1. PICK d \in C : d \in Waits(b)
      BY <1>1 DEF Circle
    <3>2. step[b] = "cascade" => step[d] = "commit"
      BY <3>1, WaitFacts
    <3> QED BY <2>1, <3>2
  <2>3. ASSUME NEW b \in C PROVE Running(b, UpdateUser) /\ Wanted(b) = Req(b).email
    <3>1. PICK e \in C : b \in Waits(e)
      BY <1>1 DEF Circle
    <3>2. Running(b, UpdateUser \cup DeleteUser)
      BY <2>2, <3>1, WaitFacts
    <3>3. Running(b, CreateUser \cup UpdateUser) /\ Wanted(b) # Absent
      BY <1>1, <2>2 DEF LockInv, LocksInv, StepTyped
    <3>4. ~Running(b, DeleteUser)
      BY <3>3, Kinds DEF Running, Req
    <3>5. Running(b, UpdateUser)
      BY <3>2, <3>4 DEF Running
    <3> QED BY <3>3, <3>5 DEF Wanted
  <2>4. ASSUME NEW b \in C
        PROVE  \E d \in C \ {b} : /\ users[Req(d).id] # None
                                  /\ users[Req(d).id].email = Req(b).email
    <3>1. PICK d \in C : d \in Waits(b)
      BY <1>1 DEF Circle
    <3>2. d # b /\ Blocks(d, b) /\ step[b] = "index" /\ step[d] = "index"
      BY <2>2, <3>1 DEF Waits
    <3>3. PICK u \in Owners(Wanted(b), Req(b).id) : HoldsUser(d, u)
      BY <3>2 DEF Blocks, HoldsEntry
    <3>4. u = Req(d).id /\ users[u] # None /\ users[u].email = Req(b).email
      BY <2>3, <3>3 DEF HoldsUser, Owners
    <3> QED BY <3>2, <3>4
  <2> QED BY <2>2, <2>3, <2>4 DEF Rotation
<1>2. LockInv => \A C \in SUBSET Backend : Circle(C) => Rotation(C)
  BY <1>1
<1> QED BY <1>2, LocksInvariant, PTL
=============================================================================
