----------------------------- MODULE MCService -----------------------------
(* Small instances of Service for TLC. *)
EXTENDS Service, FiniteSets, TLC

CONSTANTS u1, u2, a1, e1, e2, n1, n2, s1, s2, b1, b2

MCUsers == {u1, u2}
MCAccounts == {a1}
MCOneEmail == {e1}
MCTwoEmails == {e1, e2}
MCOneName == {n1}
MCTwoNames == {n1, n2}
MCSlots == {s1, s2}
MCBackends == {b1, b2}

NewUsers    == {r \in CreateUser : r.name = n1 /\ r.email \in Email}
NewAccounts == {r \in CreateAccount : /\ r.owner \in UserId
                                      /\ r.name = n1 /\ r.currency = "ascii"}

\* The requests on rows there are or were.
OnRows == {r \in Request : r.id \in UserId \cup AccountId}

\* Users come and go, take over each other's addresses and are given another
\* name: patches of different fields.
Takeovers ==
  NewUsers \cup
  (OnRows \cap
    (GetUser \cup DeleteUser
      \cup {r \in UpdateUser : r.name = Absent /\ r.email \in Email \cup {Empty}}
      \cup {r \in UpdateUser : r.name = n2 /\ r.email = Absent}))

\* Accounts come and go, and their users with them.
Cascades ==
  NewUsers \cup NewAccounts \cup
  (OnRows \cap
    (DeleteUser \cup GetAccount \cup DeleteAccount
      \cup {r \in UpdateAccount : r.name = n2}))

\* What is created and deleted; accounts are read, users found as owners.
Lifetimes ==
  NewUsers \cup NewAccounts \cup
  (OnRows \cap (DeleteUser \cup GetAccount \cup DeleteAccount))

\* What the domain service refuses, a row that never was, and what the path
\* refuses.
Wrong ==
  {r \in CreateUser : r.name = n1 /\ r.email = Empty}
    \cup {r \in GetUser : r.id = Stranger}
    \cup {r \in DeleteAccount : r.id = Malformed}

MCInputs        == Takeovers \cup Cascades \cup Wrong
MCHistoryInputs == Lifetimes

\* Bound: the answers yet to be given.  A second one leaves nothing to happen
\* but the two of them and statements nobody waits for.
FewAnswers == \E s \in Slot : \A t \in Slot \ {s} : answer[t] = None

\* Ids, slots and backends are interchangeable.
Symmetry ==
  Permutations(UserId) \cup Permutations(AccountId) \cup Permutations(Email)
    \cup Permutations(Slot) \cup Permutations(Backend)
=============================================================================
