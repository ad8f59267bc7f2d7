--------------------------- MODULE ServiceHistory ---------------------------
(***************************************************************************)
(* Service with what its clients have asked for and have been told: the    *)
(* promises of answers that later steps have to keep.                      *)
(***************************************************************************)
EXTENDS Service

VARIABLES
  created,   \* create requests answered with 201
  doomed,    \* ids some DELETE was sent for
  missing,   \* ids answered with 204, or with 404 after they were drawn
  late       \* slots with a request that named one of missing when it came

hvars == <<users, accounts, drawn, calls, backend, answer, created, doomed,
           missing, late>>

HInit == Init /\ created = {} /\ doomed = {} /\ missing = {} /\ late = {}

\* The slots a step answers, with one of these statuses.
Told(statuses) ==
  {s \in Slot : /\ answer[s] # None /\ answer'[s] = None
                /\ answer[s].status \in statuses}

\* The slots that get a request in a step.
Called == {s \in Slot : calls[s] = None /\ calls'[s] # None}

\* The DELETEs a step sends on.
Sent == {calls'[s] : s \in Called} \cap (DeleteUser \cup DeleteAccount)

HNext ==
  /\ Next
  /\ created' = created \cup {calls[s] : s \in Told({201})}
  /\ missing' = missing \cup
       (drawn \cap UNION {Names(calls[s]) : s \in Told({204, 404})})
  /\ doomed' = doomed \cup (drawn \cap {r.id : r \in Sent})
  /\ late' = {s \in late : calls'[s] # None} \cup
       {s \in Called : Names(calls'[s]) \cap missing # {}}

HSpec == HInit /\ [][HNext]_hvars

-----------------------------------------------------------------------------
(* Properties. *)

\* A row whose creation was acknowledged stays until a DELETE for it, or for
\* the owner of the account, has been sent.
CreatedStays ==
  \A r \in created :
    \/ r.id \in doomed
    \/ r \in CreateUser /\ users[r.id] # None
    \/ r \in CreateAccount /\ (accounts[r.id] # None \/ r.owner \in doomed)

\* A request that comes after an answer has told a row of its to be gone, by
\* 204 or by 404, is not told that it was seen, patched, deleted or given an
\* account.  A request that came before that answer may still be.
GoneIsFinal ==
  \A s \in late : answer[s] # None => answer[s].status \notin {200, 201, 204}
=============================================================================
