------------------------------ MODULE PoolQueue ------------------------------
(***************************************************************************)
(* The requests that share the connection pool: a liveness probe, which    *)
(* does without, a readiness probe, which pings, a statement that returns  *)
(* one row or none, and a list, which reads rows while it holds its        *)
(* connection.  The query tracer opens a span and counts a call once it is *)
(* over.                                                                   *)
(*                                                                         *)
(* pgxpool hands connections to those who wait in the order they came.  It *)
(* may have to dial, which may fail.  A request whose client is gone gives *)
(* up wherever it is; nothing else ends its wait.                          *)
(***************************************************************************)
EXTENDS Naturals, Sequences, SequencesExt, FiniteSets

CONSTANTS
  Request,  \* bound: the requests that run at a time
  MaxConns  \* the connections of the pool

ASSUME MaxConnsAssumption == MaxConns \in Nat \ {0}

VARIABLES
  phase,    \* per request, where it is
  class,    \* per request, what it asks for
  queue,    \* who waits for a connection
  holders,  \* who holds one
  span      \* per request, the span of its call

vars == <<phase, class, queue, holders, span>>

Class == {"live", "ready", "row", "list"}

Init ==
  /\ phase = [r \in Request |-> "idle"]
  /\ class = [r \in Request |-> "live"]
  /\ queue = << >>
  /\ holders = {}
  /\ span = [r \in Request |-> "none"]

-----------------------------------------------------------------------------
(* The pool. *)

\* r goes to wait and is served at once when nobody is before it.
Acquire(r) ==
  IF queue = << >> /\ Cardinality(holders) < MaxConns
  THEN /\ holders' = holders \cup {r}
       /\ phase' = [phase EXCEPT ![r] = "connecting"]
       /\ UNCHANGED queue
  ELSE /\ queue' = Append(queue, r)
       /\ phase' = [phase EXCEPT ![r] = "waiting"]
       /\ UNCHANGED holders

\* Broken: who waits is not told.
ReleaseUntold(r) ==
  /\ holders' = holders \ {r}
  /\ phase' = [phase EXCEPT ![r] = "answering"]
  /\ UNCHANGED queue
\* r is done with its connection and will answer; the first who waits has it.
Release(r) ==
  IF queue = << >>
  THEN /\ holders' = holders \ {r}
       /\ phase' = [phase EXCEPT ![r] = "answering"]
       /\ UNCHANGED queue
  ELSE /\ holders' = (holders \ {r}) \cup {Head(queue)}
       /\ phase' = [phase EXCEPT ![r] = "answering", ![Head(queue)] = "connecting"]
       /\ queue' = Tail(queue)

\* An open or a new connection; it may turn out to be broken.
Connect(r) ==
  /\ phase[r] = "connecting"
  /\ \/ /\ phase' = [phase EXCEPT ![r] = "running"]
        /\ span' = [span EXCEPT ![r] = IF class[r] = "ready" THEN "none" ELSE "open"]
        /\ UNCHANGED <<queue, holders>>
     \/ Release(r) /\ UNCHANGED span
  /\ UNCHANGED class

GiveUp(r) ==
  /\ phase[r] = "waiting"
  /\ \E i \in DOMAIN queue : queue[i] = r /\ queue' = RemoveAt(queue, i)
  /\ phase' = [phase EXCEPT ![r] = "answering"]
  /\ UNCHANGED <<class, holders, span>>

-----------------------------------------------------------------------------
(* The handlers. *)

Begin(r, c) ==
  /\ phase[r] = "idle"
  /\ class' = [class EXCEPT ![r] = c]
  /\ span' = [span EXCEPT ![r] = "none"]

\* Broken: the liveness probe looks at the database as well.
LivePinging(r) == Begin(r, "live") /\ Acquire(r)
Live(r) ==
  /\ Begin(r, "live")
  /\ phase' = [phase EXCEPT ![r] = "answering"]
  /\ UNCHANGED <<queue, holders>>

Call(r, c) == Begin(r, c) /\ Acquire(r)

Ready(r) == Call(r, "ready")
Row(r)   == Call(r, "row")
List(r)  == Call(r, "list")

\* TraceQueryEnd.
EndSpan(r) == span' = [span EXCEPT ![r] = IF @ = "open" THEN "ended" ELSE @]

\* The statement has ended, well or not; only a list that went well has rows to
\* read.
Answered(r) ==
  /\ phase[r] = "running"
  /\ Release(r)
  /\ EndSpan(r)
  /\ UNCHANGED class

ListOpened(r) ==
  /\ phase[r] = "running"
  /\ class[r] = "list"
  /\ phase' = [phase EXCEPT ![r] = "reading"]
  /\ UNCHANGED <<class, queue, holders, span>>

\* Broken: the rows stay open when the loop is left before their end.
ReadRowsUnclosed(r) ==
  /\ phase[r] = "reading"
  /\ \/ Release(r) /\ EndSpan(r)
     \/ /\ phase' = [phase EXCEPT ![r] = "answering"]
        /\ UNCHANGED <<queue, holders, span>>
  /\ UNCHANGED class
\* Broken: a row is completed by a statement of its own.
ReadRowsNested(r) ==
  /\ phase[r] = "reading"
  /\ Acquire(r)
  /\ UNCHANGED <<class, span>>
\* rows.Close is deferred: after the last row, and when a row does not scan.
ReadRows(r) ==
  /\ phase[r] = "reading"
  /\ Release(r)
  /\ EndSpan(r)
  /\ UNCHANGED class

Respond(r) ==
  /\ phase[r] = "answering"
  /\ phase' = [phase EXCEPT ![r] = "idle"]
  /\ UNCHANGED <<class, queue, holders, span>>

Statement(r) == Connect(r) \/ Answered(r) \/ ListOpened(r) \/ ReadRows(r)

Next ==
  \E r \in Request :
    Live(r) \/ Ready(r) \/ Row(r) \/ List(r) \/ GiveUp(r) \/ Statement(r) \/ Respond(r)

\* Goroutines run.
Fairness == \A r \in Request : WF_vars(Respond(r))

Spec == Init /\ [][Next]_vars /\ Fairness

\* The database answers: dials and statements end.
StatementsEnd == \A r \in Request : WF_vars(Statement(r))

-----------------------------------------------------------------------------
(* Properties. *)

TypeOK ==
  /\ phase \in [Request -> {"idle", "waiting", "connecting", "running", "reading",
                            "answering"}]
  /\ class \in [Request -> Class]
  /\ span \in [Request -> {"none", "open", "ended"}]

\* Nobody waits for a connection while one is free, and there are never more
\* than MaxConns, however requests come, give up and fail.
NobodyWaitsIdle ==
  /\ Cardinality(holders) <= MaxConns
  /\ queue # << >> => Cardinality(holders) = MaxConns

\* A request that waits or answers holds nothing: neither a connection, which
\* would be lost to the pool, nor an open span.
HoldsNothing ==
  /\ TypeOK
  /\ holders = {r \in Request : phase[r] \in {"connecting", "running", "reading"}}
  /\ {queue[i] : i \in DOMAIN queue} = {r \in Request : phase[r] = "waiting"}
  /\ \A r \in Request : span[r] = "open" => phase[r] \in {"running", "reading"}

\* As long as statements end, everybody who waits is served, although nobody
\* gives up: no handler holds a connection while it waits for another.
WaitersServed ==
  StatementsEnd =>
    \A r \in Request : phase[r] = "waiting" ~> phase[r] # "waiting"

\* The liveness probe answers, even when no statement ever ends and every
\* connection is taken.
LiveAnswers ==
  \A r \in Request :
    class[r] = "live" /\ phase[r] # "idle" ~> phase[r] = "idle"
=============================================================================
