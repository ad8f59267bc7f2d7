----------------------------- MODULE Lifecycle -----------------------------
(***************************************************************************)
(* "server serve" from its first resource to its exit: app.New takes the   *)
(* telemetry providers, the pool and the gauges one after the other,       *)
(* App.Run serves until a signal or an error of the listener, and          *)
(* gracefulShutdown gives everything back.                                 *)
(*                                                                         *)
(* Beside the main goroutine run the goroutine of Serve, one for every     *)
(* connection, and the metric reader that calls the gauges' callback.  A   *)
(* request is one statement over one connection of the pool.  The end of   *)
(* the process ends them all.                                              *)
(***************************************************************************)
EXTENDS Naturals, FiniteSets

CONSTANTS
  Conn,     \* bound: the connections clients may have open at a time
  MaxConns  \* the connections of the pool

ASSUME ConnAssumption == IsFiniteSet(Conn) /\ MaxConns \in Nat \ {0}

VARIABLES
  pc,          \* where the main goroutine is
  cause,       \* what the process ended with, "none" while it runs
  endpoint,    \* whether an OTLP endpoint is configured
  providers,   \* the telemetry providers that run
  pool,        \* the connection pool
  gauges,      \* whether the callback of the pool gauges is registered
  collecting,  \* whether the metric reader is in the callback
  signalled,   \* whether SIGINT or SIGTERM has come
  expired,     \* whether the shutdown context has passed its deadline
  serve,       \* the goroutine of Serve
  draining,    \* whether Shutdown of the server has been called
  conn         \* per client connection, what it is doing

main  == <<pc, cause>>
held  == <<endpoint, providers, pool, gauges, collecting>>
front == <<serve, draining, conn>>
vars  == <<pc, cause, endpoint, providers, pool, gauges, collecting, signalled,
           expired, serve, draining, conn>>

Running == pc # "exited"

Init ==
  /\ pc = "log"
  /\ cause = "none"
  /\ endpoint \in BOOLEAN
  /\ providers = {}
  /\ pool = "none"
  /\ gauges = FALSE
  /\ collecting = FALSE
  /\ signalled = FALSE
  /\ expired = FALSE
  /\ serve = "none"
  /\ draining = FALSE
  /\ conn = [c \in Conn |-> "none"]

GoTo(l) == pc' = l /\ UNCHANGED cause
Exit(c) == pc' = "exited" /\ cause' = c

-----------------------------------------------------------------------------
(* telemetry.Setup. *)

Provider == {"log", "metric", "trace"}

NoTelemetry ==
  /\ pc = "log"
  /\ ~endpoint
  /\ GoTo("pool")
  /\ UNCHANGED <<held, signalled, expired, front>>

StartProvider(p) ==
  /\ pc = p
  /\ endpoint
  /\ providers' = providers \cup {p}
  /\ GoTo(CASE p = "log" -> "metric" [] p = "metric" -> "trace"
            [] p = "trace" -> "pool")
  /\ UNCHANGED <<endpoint, pool, gauges, collecting, signalled, expired, front>>

\* The resource or an exporter cannot be made: shutdownAll, but for the trace
\* exporter.
ExporterFails(p) ==
  /\ pc = p
  /\ endpoint
  /\ providers' = IF p = "trace" THEN providers ELSE {}
  /\ Exit("telemetry")
  /\ UNCHANGED <<endpoint, pool, gauges, collecting, signalled, expired, front>>

Setup ==
  NoTelemetry \/ \E p \in Provider : StartProvider(p) \/ ExporterFails(p)

-----------------------------------------------------------------------------
(* The rest of app.New. *)

NewPool ==
  /\ pc = "pool"
  /\ \/ pool' = "open" /\ GoTo("gauges")
     \/ pool' \in {"none", "closed"} /\ Exit("pool")
  /\ UNCHANGED <<endpoint, providers, gauges, collecting, signalled, expired,
                 front>>

RegisterPoolMetrics ==
  /\ pc = "gauges"
  /\ \/ gauges' = TRUE /\ UNCHANGED pool /\ GoTo("validator")
     \/ pool' = "closed" /\ UNCHANGED gauges /\ Exit("gauges")
  /\ UNCHANGED <<endpoint, providers, collecting, signalled, expired, front>>

\* Pool, gauges and providers stay when there is no validator.
NewValidator ==
  /\ pc = "validator"
  /\ GoTo("listen") \/ Exit("validator")
  /\ UNCHANGED <<held, signalled, expired, front>>

-----------------------------------------------------------------------------
(* App.Run and gracefulShutdown. *)

Listen ==
  /\ pc = "listen"
  /\ \/ serve' = "starting" /\ GoTo("select")
     \/ UNCHANGED serve /\ Exit("listen")
  /\ UNCHANGED <<held, signalled, expired, draining, conn>>

\* Broken: the server goes on while the rest is taken down.
OnSignalUndrained ==
  /\ pc = "select"
  /\ signalled
  /\ GoTo("deregister")
  /\ UNCHANGED <<held, signalled, expired, front>>

OnSignal ==
  /\ pc = "select"
  /\ signalled
  /\ draining' = TRUE
  /\ GoTo("drain")
  /\ UNCHANGED <<held, signalled, expired, serve, conn>>

\* errCh: an error of Serve, or the close of the channel, which reads as nil.
OnServeEnd ==
  /\ pc = "select"
  /\ serve \in {"failed", "closed"}
  /\ Exit(IF serve = "failed" THEN "serve" ELSE "ok")
  /\ UNCHANGED <<held, signalled, expired, front>>

\* Broken: Shutdown does not wait for the connections.
DrainedAtOnce ==
  /\ pc = "drain"
  /\ GoTo("deregister")
  /\ UNCHANGED <<held, signalled, expired, front>>

\* Shutdown finds no connection left.
Drained ==
  /\ pc = "drain"
  /\ \A c \in Conn : conn[c] = "none"
  /\ GoTo("deregister")
  /\ UNCHANGED <<held, signalled, expired, front>>

\* Its deadline has passed, or no connection is left and the listener could not
\* be closed.
ShutdownFails ==
  /\ pc = "drain"
  /\ expired \/ \A c \in Conn : conn[c] = "none"
  /\ Exit("drain")
  /\ UNCHANGED <<held, signalled, expired, front>>

\* Broken: the gauges stay registered.
DeregisterNothing ==
  /\ pc = "deregister"
  /\ GoTo("close")
  /\ UNCHANGED <<held, signalled, expired, front>>

\* Unregister takes the lock the metric reader holds in the callback.
Deregister ==
  /\ pc = "deregister"
  /\ ~collecting
  /\ gauges' = FALSE
  /\ GoTo("close")
  /\ UNCHANGED <<endpoint, providers, pool, collecting, signalled, expired, front>>

Acquired == {c \in Conn : conn[c] = "querying"}

\* Close refuses further connections first, then waits for those in use.
ClosePool ==
  /\ \/ pc = "close" /\ pool' = "closing" /\ GoTo("closing")
     \/ pc = "closing" /\ Acquired = {} /\ pool' = "closed" /\ GoTo("flush")
  /\ UNCHANGED <<endpoint, providers, gauges, collecting, signalled, expired,
                 front>>

\* The providers may fail to export what they still hold, all the more when
\* the drain has left them no time.
Flush ==
  /\ pc = "flush"
  /\ providers' = {}
  /\ Exit("ok") \/ (endpoint /\ Exit("flush"))
  /\ UNCHANGED <<endpoint, pool, gauges, collecting, signalled, expired, front>>

MainStep ==
  \/ Setup \/ NewPool \/ RegisterPoolMetrics \/ NewValidator \/ Listen
  \/ OnSignal \/ OnServeEnd \/ Drained \/ ShutdownFails
  \/ Deregister \/ ClosePool \/ Flush

-----------------------------------------------------------------------------
(* What runs beside it. *)

Signal ==
  /\ Running
  /\ ~signalled
  /\ signalled' = TRUE
  /\ UNCHANGED <<main, held, expired, front>>

\* The timeout of the shutdown context, which gracefulShutdown makes.
Expire ==
  /\ Running
  /\ draining
  /\ ~expired
  /\ expired' = TRUE
  /\ UNCHANGED <<main, held, signalled, front>>

\* Broken: an error of Serve is dropped like http.ErrServerClosed.
ServeDroppingErrors ==
  /\ Running
  /\ \/ serve = "starting" /\ ~draining /\ serve' = "serving"
     \/ serve = "serving" /\ ~draining /\ serve' = "closed"
     \/ serve \in {"starting", "serving"} /\ draining /\ serve' = "closed"
  /\ UNCHANGED <<main, held, signalled, expired, draining, conn>>

\* Serve accepts, fails for good, or finds that Shutdown has been called.
Serve ==
  /\ Running
  /\ \/ serve = "starting" /\ ~draining /\ serve' = "serving"
     \/ serve = "serving" /\ ~draining /\ serve' = "failed"
     \/ serve \in {"starting", "serving"} /\ draining /\ serve' = "closed"
  /\ UNCHANGED <<main, held, signalled, expired, draining, conn>>

Becomes(c, state) ==
  /\ Running
  /\ conn' = [conn EXCEPT ![c] = state]
  /\ UNCHANGED <<main, held, signalled, expired, serve, draining>>

Accept(c) ==
  /\ conn[c] = "none"
  /\ serve = "serving" /\ ~draining
  /\ Becomes(c, "idle")

\* By the client, by a timeout or, once draining, by Shutdown.
Disconnect(c) == conn[c] = "idle" /\ Becomes(c, "none")

\* A request that needs the database waits for a connection of the pool.
Receive(c) == conn[c] = "idle" /\ Becomes(c, "acquiring")

\* Broken: NewPool has kept the connection it sent its first ping over.
AcquireAfterLeak(c) ==
  /\ conn[c] = "acquiring"
  /\ pool = "open"
  /\ Cardinality(Acquired) + 1 < MaxConns
  /\ Becomes(c, "querying")

Acquire(c) ==
  /\ conn[c] = "acquiring"
  /\ pool = "open"
  /\ Cardinality(Acquired) < MaxConns
  /\ Becomes(c, "querying")

\* A request stops waiting when its client has gone or the pool is closed.
GiveUp(c) == conn[c] = "acquiring" /\ Becomes(c, "answering")

\* Its statement is over, or has been cancelled.
Finish(c) == conn[c] = "querying" /\ Becomes(c, "answering")

Respond(c) == conn[c] = "answering" /\ Becomes(c, "idle")

Client(c) ==
  \/ Accept(c) \/ Disconnect(c) \/ Receive(c)
  \/ Acquire(c) \/ GiveUp(c) \/ Finish(c) \/ Respond(c)

Collecting(b) ==
  /\ Running
  /\ collecting' = b
  /\ UNCHANGED <<main, endpoint, providers, pool, gauges, signalled, expired,
                 front>>

BeginCollect ==
  ~collecting /\ gauges /\ "metric" \in providers /\ Collecting(TRUE)

EndCollect == collecting /\ Collecting(FALSE)

\* The process is gone.
Exited == pc = "exited" /\ UNCHANGED vars

Next ==
  \/ MainStep \/ Signal \/ Expire \/ Serve
  \/ \E c \in Conn : Client(c)
  \/ BeginCollect \/ EndCollect
  \/ Exited

\* Goroutines run and the lock of the metric pipeline is handed to who waits
\* for it.
Fairness ==
  /\ WF_vars(MainStep) /\ WF_vars(Serve)
  /\ WF_vars(EndCollect) /\ SF_vars(Deregister)

Spec == Init /\ [][Next]_vars /\ Fairness

\* Timers run.
Timers == WF_vars(Expire)

\* Statements end, handlers answer, Shutdown closes a connection it finds idle,
\* and the pool hands its connections out in the order they were asked for.
\* Nobody who waits for one gives up by himself.
Patience ==
  \A c \in Conn :
    /\ WF_vars(Finish(c)) /\ WF_vars(Respond(c))
    /\ SF_vars(Disconnect(c)) /\ SF_vars(Acquire(c))

-----------------------------------------------------------------------------
(* Properties. *)

Label == {"log", "metric", "trace", "pool", "gauges", "validator", "listen",
          "select", "drain", "deregister", "close", "closing", "flush", "exited"}

Cause == {"none", "telemetry", "pool", "gauges", "validator", "listen", "serve",
          "drain", "flush", "ok"}

TypeOK ==
  /\ pc \in Label
  /\ cause \in Cause
  /\ endpoint \in BOOLEAN
  /\ providers \subseteq Provider
  /\ pool \in {"none", "open", "closing", "closed"}
  /\ gauges \in BOOLEAN
  /\ collecting \in BOOLEAN
  /\ signalled \in BOOLEAN
  /\ expired \in BOOLEAN
  /\ serve \in {"none", "starting", "serving", "failed", "closed"}
  /\ draining \in BOOLEAN
  /\ conn \in [Conn -> {"none", "idle", "acquiring", "querying", "answering"}]
  /\ pc = "exited" <=> cause # "none"

InHandler == {c \in Conn : conn[c] \in {"acquiring", "querying", "answering"}}

\* The process ends with 0 only by a complete shutdown: after a signal, with no
\* request cut off, the gauges unregistered, the pool closed and the providers
\* shut down.  The nil that a closed errCh reads as never stands in for it.  It
\* does not say that Serve has not failed: when an error of Serve and the signal
\* are both there, Run may take the signal and drop the error.
CleanExit ==
  cause = "ok" =>
    /\ signalled
    /\ InHandler = {}
    /\ ~gauges
    /\ pool = "closed"
    /\ providers = {}

\* No request meets a pool that is closing or closed, so Close never waits for
\* a statement.
PoolOutlivesRequests == pool \in {"closing", "closed"} => InHandler = {}

\* The gauges' callback only ever reads an open pool, as the comment of
\* RegisterPoolMetrics asks.
GaugesSeeOpenPool == collecting => pool = "open"

\* Their inductive strengthening: who may be at work at each point of the main
\* goroutine.
Starting == {"log", "metric", "trace", "pool", "gauges", "validator", "listen"}
Undrained == Starting \cup {"select"}
Served == {"deregister", "close", "closing", "flush"}

Quiet == \A c \in Conn : conn[c] = "none"

ServerOrder ==
  /\ pc \in Starting => serve = "none"
  /\ pc \in Undrained => ~draining
  /\ draining => signalled
  /\ serve = "closed" => draining
  /\ serve = "none" => Quiet
  /\ pc \in Served \cup {"drain"} => draining
  /\ pc \in Served => Quiet

PoolOrder ==
  /\ pc \in {"validator", "listen", "select", "drain", "deregister", "close",
             "gauges"} => pool = "open"
  /\ pc = "flush" => pool = "closed"
  /\ pool \in {"closing", "closed"} => Quiet
  /\ collecting => gauges
  /\ gauges => /\ pool = "open"
               /\ pc \in {"validator", "listen", "select", "drain",
                         "deregister", "exited"}

ShutdownOrder == TypeOK /\ CleanExit /\ ServerOrder /\ PoolOrder

\* A signal ends the process, whatever clients and statements do: the drain is
\* bounded by its timeout, and what comes after it waits for nobody.
SignalEnds == Timers => (signalled ~> pc = "exited")

\* When statements end and connections of the pool come round, a drain ends by
\* itself and cuts no request off: everybody who still waits for a connection
\* is served before the process exits, unless the deadline comes first.
DrainCompletes ==
  Patience => (draining ~> expired \/ (pc = "exited" /\ InHandler = {}))

\* "Any failure below calls shutdownAll to clean up already-started providers"
\* (internal/adapters/telemetry/telemetry.go:56).
FailedSetupCleansUp == cause = "telemetry" => providers = {}
=============================================================================
