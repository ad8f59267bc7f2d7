-------------------------- MODULE LifecycleProofs --------------------------
(***************************************************************************)
(* The order of start-up, service and shutdown, for any number of clients  *)
(* and any pool.  ShutdownOrder is inductive; what the process promises    *)
(* about its exit, its requests and its gauges follows from it.            *)
(***************************************************************************)
EXTENDS Lifecycle, TLAPS

LEMMA InitOrder == Init => ShutdownOrder
BY DEF Init, ShutdownOrder, TypeOK, CleanExit, ServerOrder, PoolOrder, Quiet,
       Label, Cause, Starting, Undrained, Served

\* What every part of a step has to show of the next state.
LEMMA OrderOf ==
  ASSUME TypeOK', CleanExit', ServerOrder', PoolOrder'
  PROVE  ShutdownOrder'
BY DEF ShutdownOrder

\* telemetry.Setup moves nothing but the main goroutine and the providers.
LEMMA SetupStep == ShutdownOrder /\ Setup => ShutdownOrder'
<1> SUFFICES ASSUME ShutdownOrder, Setup
             PROVE  ShutdownOrder'
  OBVIOUS
<1> USE DEF ShutdownOrder, TypeOK, CleanExit, ServerOrder, PoolOrder, Quiet,
            InHandler, Label, Cause, Starting, Undrained, Served, held, front,
            GoTo, Exit
<1>1. CASE NoTelemetry
  BY <1>1 DEF NoTelemetry
<1>2. ASSUME NEW p \in Provider, StartProvider(p)
      PROVE  ShutdownOrder'
  BY <1>2 DEF StartProvider, Provider
<1>3. ASSUME NEW p \in Provider, ExporterFails(p)
      PROVE  ShutdownOrder'
  BY <1>3 DEF ExporterFails, Provider
<1> QED BY <1>1, <1>2, <1>3 DEF Setup

\* The rest of app.New and Listen.
LEMMA NewStep ==
  ShutdownOrder /\ (NewPool \/ RegisterPoolMetrics \/ NewValidator \/ Listen)
    => ShutdownOrder'
<1> SUFFICES ASSUME ShutdownOrder,
                    NewPool \/ RegisterPoolMetrics \/ NewValidator \/ Listen
             PROVE  ShutdownOrder'
  OBVIOUS
<1> USE DEF ShutdownOrder, TypeOK, CleanExit, ServerOrder, PoolOrder, Quiet,
            InHandler, Label, Cause, Starting, Undrained, Served, held, front,
            GoTo, Exit
<1>0. pc \in Starting => Quiet /\ ~draining
  OBVIOUS
<1>1. CASE NewPool
  <2>1. CASE pool' = "open" /\ pc' = "gauges"
    BY <1>0, <1>1, <2>1 DEF NewPool
  <2>2. CASE pool' \in {"none", "closed"} /\ pc' = "exited" /\ cause' = "pool"
    BY <1>0, <1>1, <2>2 DEF NewPool
  <2> QED BY <1>1, <2>1, <2>2 DEF NewPool
<1>2. CASE RegisterPoolMetrics
  <2>1. CASE gauges' = TRUE /\ pool' = pool /\ pc' = "validator"
    BY <1>0, <1>2, <2>1 DEF RegisterPoolMetrics
  <2>2. CASE pool' = "closed" /\ gauges' = gauges /\ pc' = "exited"
             /\ cause' = "gauges"
    BY <1>0, <1>2, <2>2 DEF RegisterPoolMetrics
  <2> QED BY <1>2, <2>1, <2>2 DEF RegisterPoolMetrics
<1>3. CASE NewValidator
  BY <1>3 DEF NewValidator
<1>4. CASE Listen
  BY <1>4 DEF Listen
<1> QED BY <1>1, <1>2, <1>3, <1>4

\* The select of Run and the drain.
LEMMA RunStep ==
  ShutdownOrder /\ (OnSignal \/ OnServeEnd \/ Drained \/ ShutdownFails)
    => ShutdownOrder'
<1> SUFFICES ASSUME ShutdownOrder,
                    OnSignal \/ OnServeEnd \/ Drained \/ ShutdownFails
             PROVE  ShutdownOrder'
  OBVIOUS
<1> USE DEF ShutdownOrder, TypeOK, CleanExit, ServerOrder, PoolOrder, Quiet,
            InHandler, Label, Cause, Starting, Undrained, Served, held, front,
            GoTo, Exit
<1>1. CASE OnSignal
  BY <1>1 DEF OnSignal
<1>2. CASE OnServeEnd
  \* errCh is closed without an error only while draining, never in select.
  BY <1>2 DEF OnServeEnd
<1>3. CASE Drained
  BY <1>3 DEF Drained
<1>4. CASE ShutdownFails
  BY <1>4 DEF ShutdownFails
<1> QED BY <1>1, <1>2, <1>3, <1>4

\* Giving back gauges, pool and providers.
LEMMA ReleaseStep ==
  ShutdownOrder /\ (Deregister \/ ClosePool \/ Flush) => ShutdownOrder'
<1> SUFFICES ASSUME ShutdownOrder, Deregister \/ ClosePool \/ Flush
             PROVE  ShutdownOrder'
  OBVIOUS
<1> USE DEF ShutdownOrder, TypeOK, CleanExit, ServerOrder, PoolOrder, Quiet,
            InHandler, Label, Cause, Starting, Undrained, Served, held, front,
            GoTo, Exit
<1>1. CASE Deregister
  BY <1>1 DEF Deregister
<1>2. CASE ClosePool
  BY <1>2 DEF ClosePool
<1>3. CASE Flush
  BY <1>3 DEF Flush, Provider
<1> QED BY <1>1, <1>2, <1>3

\* Signal, timer, Serve and the metric reader.
LEMMA BesideStep ==
  ShutdownOrder /\ (Signal \/ Expire \/ Serve \/ BeginCollect \/ EndCollect)
    => ShutdownOrder'
<1> SUFFICES ASSUME ShutdownOrder,
                    Signal \/ Expire \/ Serve \/ BeginCollect \/ EndCollect
             PROVE  ShutdownOrder'
  OBVIOUS
<1> USE DEF ShutdownOrder, TypeOK, CleanExit, ServerOrder, PoolOrder, Quiet,
            InHandler, Label, Cause, Starting, Undrained, Served, main, held,
            front, Running
<1>1. CASE Signal
  BY <1>1 DEF Signal
<1>2. CASE Expire
  BY <1>2 DEF Expire
<1>3. CASE Serve
  BY <1>3 DEF Serve
<1>4. CASE BeginCollect
  BY <1>4 DEF BeginCollect, Collecting
<1>5. CASE EndCollect
  BY <1>5 DEF EndCollect, Collecting
<1> QED BY <1>1, <1>2, <1>3, <1>4, <1>5

\* A connection that is none stays so unless Serve accepts, and then the pool
\* is open.
LEMMA ClientStep ==
  ASSUME ShutdownOrder, NEW c \in Conn, Client(c)
  PROVE  ShutdownOrder'
<1> USE DEF ShutdownOrder, TypeOK, CleanExit, ServerOrder, PoolOrder, Quiet,
            InHandler, Label, Cause, Starting, Undrained, Served, main, held,
            Running, Becomes
<1>1. CASE Accept(c)
  <2>1. pc \in {"select", "drain"} /\ pool = "open"
    BY <1>1 DEF Accept
  <2> QED BY <1>1, <2>1 DEF Accept
<1>2. CASE conn[c] # "none" /\ (Disconnect(c) \/ Receive(c) \/ Acquire(c)
                                \/ GiveUp(c) \/ Finish(c) \/ Respond(c))
  BY <1>2 DEF Disconnect, Receive, Acquire, GiveUp, Finish, Respond
<1> QED BY <1>1, <1>2
        DEF Client, Disconnect, Receive, Acquire, GiveUp, Finish, Respond

\* A step of the specification, or of nothing, keeps the order.
LEMMA NextOrder == ShutdownOrder /\ [Next]_vars => ShutdownOrder'
<1> SUFFICES ASSUME ShutdownOrder, [Next]_vars
             PROVE  ShutdownOrder'
  OBVIOUS
<1>1. CASE MainStep
  BY <1>1, SetupStep, NewStep, RunStep, ReleaseStep DEF MainStep
<1>2. CASE Signal \/ Expire \/ Serve \/ BeginCollect \/ EndCollect
  BY <1>2, BesideStep
<1>3. ASSUME NEW c \in Conn, Client(c)
      PROVE  ShutdownOrder'
  BY <1>3, ClientStep
<1>4. CASE UNCHANGED vars
  BY <1>4 DEF vars, ShutdownOrder, TypeOK, CleanExit, ServerOrder, PoolOrder,
              Quiet, InHandler
<1> QED BY <1>1, <1>2, <1>3, <1>4 DEF Next, Exited

\* The process takes up, uses and gives back its resources in order.
THEOREM OrderInvariant == Spec => []ShutdownOrder
<1>1. Init => ShutdownOrder
  BY InitOrder
<1>2. ShutdownOrder /\ [Next]_vars => ShutdownOrder'
  BY NextOrder
<1> QED BY <1>1, <1>2, PTL DEF Spec

\* The variables of the process keep their types.
THEOREM LifecycleTypes == Spec => []TypeOK
<1>1. ShutdownOrder => TypeOK
  BY DEF ShutdownOrder
<1> QED BY <1>1, OrderInvariant, PTL

\* An exit status of 0 means that the signal came, the drain was complete and
\* everything was given back, however Serve, the signal and the timer raced.
THEOREM ExitTellsTruth == Spec => []CleanExit
<1>1. ShutdownOrder => CleanExit
  BY DEF ShutdownOrder
<1> QED BY <1>1, OrderInvariant, PTL

\* pool.Close never finds a request at work.
THEOREM PoolClosesLast == Spec => []PoolOutlivesRequests
<1>1. ShutdownOrder => PoolOutlivesRequests
  BY DEF ShutdownOrder, PoolOrder, Quiet, PoolOutlivesRequests, InHandler
<1> QED BY <1>1, OrderInvariant, PTL

\* The callback of the gauges never reads a pool that is closed.
THEOREM GaugesGoFirst == Spec => []GaugesSeeOpenPool
<1>1. ShutdownOrder => GaugesSeeOpenPool
  BY DEF ShutdownOrder, PoolOrder, GaugesSeeOpenPool
<1> QED BY <1>1, OrderInvariant, PTL
=============================================================================
