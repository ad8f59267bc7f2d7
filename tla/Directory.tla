----------------------------- MODULE Directory -----------------------------
(***************************************************************************)
(* What the service promises its clients: a directory of users and their   *)
(* accounts on which every request acts in one step, some time between     *)
(* its call and its answer.  The one exception is an answer of 500, which  *)
(* leaves open whether the request has acted, will act or never acts.      *)
(***************************************************************************)
EXTENDS Api, Naturals

CONSTANTS
  Client,   \* the callers, each with one request at a time
  Doubt,    \* bound: requests left open by a 500 at a time
  Inputs    \* bound: the requests of Request the callers make

VARIABLES
  people,   \* the users: records of id, email and name
  holdings, \* the accounts: records of id, owner and name
  issued,   \* the ids ever given to a user or an account
  calls,    \* the request each client waits on
  answer,   \* the answer each client is about to get, None if there is none
  limbo     \* requests answered with 500 that may still act

Init ==
  /\ people = {}
  /\ holdings = {}
  /\ issued = {}
  /\ calls = [c \in Client |-> None]
  /\ answer = [c \in Client |-> None]
  /\ limbo = [d \in Doubt |-> None]

Waiting(c) == calls[c] # None
Answer(status, body) == [status |-> status, body |-> body]

UserOf(id)    == {p \in people : p.id = id}
AccountOf(id) == {h \in holdings : h.id = id}

Holds(email, id) == \E p \in people : p.email = email /\ p.id # id

Patched(old, new) == IF new = Absent THEN old ELSE new

(***************************************************************************)
(* What each request makes of the directory, the status of its answer and  *)
(* the record the answer shows.                                            *)
(***************************************************************************)

Same(status, body) ==
  [people |-> people, holdings |-> holdings, issued |-> issued,
   status |-> status, body |-> body]

Look(found) ==
  IF found = {} THEN Same(404, None) ELSE Same(200, CHOOSE x \in found : TRUE)

AddUser(r) ==
  LET p == [id |-> r.id, email |-> r.email, name |-> r.name]
  IN  IF Holds(r.email, r.id) THEN Same(409, None)
      ELSE [Same(201, p) EXCEPT !.people = @ \cup {p}, !.issued = @ \cup {r.id}]

ChangeUser(r) ==
  LET old == UserOf(r.id)
      new == {[p EXCEPT !.email = Patched(@, r.email),
                        !.name  = Patched(@, r.name)] : p \in old}
  IN  IF old # {} /\ Holds(r.email, r.id) THEN Same(409, None)
      ELSE [Look(new) EXCEPT !.people = (@ \ old) \cup new]

RemoveUser(r) ==
  IF UserOf(r.id) = {} THEN Same(404, None)
  ELSE [Same(204, None) EXCEPT !.people = @ \ UserOf(r.id),
                               !.holdings = {h \in @ : h.owner # r.id}]

AddAccount(r) ==
  LET h == [id |-> r.id, owner |-> r.owner, name |-> r.name]
  IN  IF UserOf(r.owner) = {} THEN Same(404, None)
      ELSE [Same(201, h) EXCEPT !.holdings = @ \cup {h},
                                !.issued = @ \cup {r.id}]

ChangeAccount(r) ==
  LET old == AccountOf(r.id)
      new == {[h EXCEPT !.name = Patched(@, r.name)] : h \in old}
  IN  [Look(new) EXCEPT !.holdings = (@ \ old) \cup new]

RemoveAccount(r) ==
  IF AccountOf(r.id) = {} THEN Same(404, None)
  ELSE [Same(204, None) EXCEPT !.holdings = @ \ AccountOf(r.id)]

Outcome(r) ==
  CASE r \in CreateUser    -> AddUser(r)
    [] r \in GetUser       -> Look(UserOf(r.id))
    [] r \in UpdateUser    -> ChangeUser(r)
    [] r \in DeleteUser    -> RemoveUser(r)
    [] r \in CreateAccount -> AddAccount(r)
    [] r \in GetAccount    -> Look(AccountOf(r.id))
    [] r \in UpdateAccount -> ChangeAccount(r)
    [] r \in DeleteAccount -> RemoveAccount(r)

\* The request acts, with outcome o.  An id is given out once.
Act(r, o) ==
  /\ r \in CreateUser \cup CreateAccount => r.id \notin issued
  /\ people' = o.people
  /\ holdings' = o.holdings
  /\ issued' = o.issued

Idle == UNCHANGED <<people, holdings, issued>>

-----------------------------------------------------------------------------
\* What is refused acts on nothing.
Refuse(c, r) ==
  /\ ~Waiting(c)
  /\ calls' = [calls EXCEPT ![c] = r]
  /\ ~Accepted(r)
  /\ answer' = [answer EXCEPT ![c] =
                  Answer(IF BadRequest(r) THEN 400 ELSE 422, None)]
  /\ UNCHANGED limbo /\ Idle

Invoke(c, r) ==
  /\ ~Waiting(c)
  /\ calls' = [calls EXCEPT ![c] = r]
  /\ Accepted(r)
  /\ UNCHANGED <<answer, limbo>> /\ Idle

Unanswered(c) == Waiting(c) /\ answer[c] = None

Perform(c) ==
  LET r == calls[c]
      o == Outcome(r)
  IN  /\ Unanswered(c)
      /\ UNCHANGED <<calls, limbo>>
      /\ answer' = [answer EXCEPT ![c] = Answer(o.status, o.body)]
      /\ Act(r, o)

\* The answer will be 500: the request is over, or its effect is still to come.
GiveUp(c) ==
  /\ Unanswered(c)
  /\ answer' = [answer EXCEPT ![c] = Answer(500, None)]
  /\ \/ UNCHANGED limbo
     \/ \E d \in Doubt : /\ limbo[d] = None
                         /\ limbo' = [limbo EXCEPT ![d] = calls[c]]
  /\ UNCHANGED calls /\ Idle

Respond(c) ==
  /\ answer[c] # None
  /\ calls' = [calls EXCEPT ![c] = None]
  /\ answer' = [answer EXCEPT ![c] = None]
  /\ UNCHANGED limbo /\ Idle

\* A request in limbo acts, or is dropped.
Settle(d) ==
  /\ limbo[d] # None
  /\ limbo' = [limbo EXCEPT ![d] = None]
  /\ Act(limbo[d], Outcome(limbo[d])) \/ Idle
  /\ UNCHANGED <<calls, answer>>

Next ==
  \/ \E c \in Client : /\ ~Waiting(c) /\ Waiting(c)'
                       /\ \E r \in Inputs : Refuse(c, r) \/ Invoke(c, r)
  \/ \E c \in Client : Perform(c) \/ GiveUp(c) \/ Respond(c)
  \/ \E d \in Doubt : Settle(d)

vars == <<people, holdings, issued, calls, answer, limbo>>

Spec == Init /\ [][Next]_vars
=============================================================================
