----------------------------- MODULE MCRowLocks -----------------------------
(* Small instances of RowLocks for TLC. *)
EXTENDS RowLocks, FiniteSets, TLC

CONSTANTS u1, u2, e1, e2, n1, n2, s1, s2, b1, b2, a1

OneUser     == {u1}
TwoUsers    == {u1, u2}
NoAccounts  == {}
OneAccount  == {a1}
TwoEmails   == {e1, e2}
OneName     == {n1}
TwoNames    == {n1, n2}
TwoSlots    == {s1, s2}
TwoBackends == {b1, b2}

\* Two users take over and swap their addresses.
Swaps ==
  {r \in CreateUser : r.name = n1 /\ r.email \in Email /\ (r.id = u1 => r.email = e1)}
    \cup {r \in UpdateUser : r.id \in UserId /\ r.name = Absent /\ r.email \in Email}

\* A user is patched in different fields and deleted, while accounts of it come
\* and go, and are read.
PatchesAndAccounts ==
  {r \in CreateUser : r.name = n1 /\ r.email = e1}
    \cup {r \in UpdateUser : r.id \in UserId /\ r.name = Absent /\ r.email = e2}
    \cup {r \in UpdateUser : r.id \in UserId /\ r.name = n2 /\ r.email = Absent}
    \cup {r \in DeleteUser : r.id \in UserId}
    \cup {r \in CreateAccount : r.name = n1 /\ r.owner \in UserId /\ r.currency = "ascii"}
    \cup {r \in UpdateAccount : r.id \in AccountId /\ r.name = n2}
    \cup {r \in GetAccount : r.id \in AccountId \cup {Malformed}}
    \cup {r \in DeleteAccount : r.id \in AccountId}

\* Bound: the answers not yet given.
FewAnswers == \E s \in Slot : \A t \in Slot \ {s} : answer[t] = None

\* Slots and backends are interchangeable.
Symmetry == Permutations(Slot) \cup Permutations(Backend)
=============================================================================
