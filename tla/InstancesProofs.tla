--------------------------- MODULE InstancesProofs ---------------------------
(***************************************************************************)
(* Proofs about the instance table, for any number of threads, start calls *)
(* and handles, any options and any faults.                                *)
(***************************************************************************)
EXTENDS Instances, TLAPS

\* A start that has gone past the allocation has a handle to give.
HandleGiven ==
    \A t \in Thread : thread[t].op = "start" /\ thread[t].pc # "alloc" =>
        inst[thread[t].obj].id # 0

\* No struct has a handle that the counter has not reached.
IdsGivenOut == \A o \in Instance : inst[o].id <= nextID

\* The inductive invariant.
TableInv ==
    /\ InstancesTypeOK
    /\ HandleGiven
    /\ IdsGivenOut
    /\ RegistryConsistent
    /\ SoleOwner

\* Where a thread is says what it is doing, and to which struct.
LEMMA PcDeterminesOp ==
    ASSUME InstancesTypeOK, NEW t \in Thread
    PROVE  /\ thread[t].pc \in StartPC => thread[t].op = "start" /\ thread[t].obj \in Instance
           /\ thread[t].pc \in DisposePC => thread[t].op = "dispose" /\ thread[t].obj \in Instance
           /\ thread[t].pc \in CleanupPC =>
                  thread[t].op \in {"start", "dispose"} /\ thread[t].obj \in Instance
           /\ thread[t].op = "start" => thread[t].pc \in StartPC \cup CleanupPC /\ thread[t].obj \in Instance
           /\ thread[t].op = "dispose" => thread[t].pc \in DisposePC \cup CleanupPC /\ thread[t].obj \in Instance
           /\ thread[t].op = "none" => thread[t].obj = NoInstance
           /\ thread[t].op \in {"none", "start", "dispose"}
<1>1. thread[t] \in ThreadStates
  BY DEF InstancesTypeOK
<1> QED BY <1>1 DEF ThreadStates, StartPC, DisposePC, CleanupPC

LEMMA GotoType ==
    ASSUME InstancesTypeOK, NEW t \in Thread, NEW next,
           \/ thread[t].op = "start" /\ next \in StartPC \cup CleanupPC
           \/ thread[t].op = "dispose" /\ next \in DisposePC \cup CleanupPC,
           Goto(t, next)
    PROVE  thread' \in [Thread -> ThreadStates]
<1>1. thread[t] \in ThreadStates /\ thread \in [Thread -> ThreadStates]
  BY DEF InstancesTypeOK
<1>2. [thread[t] EXCEPT !.pc = next] \in ThreadStates
  BY <1>1 DEF ThreadStates
<1> QED BY <1>1, <1>2 DEF Goto

LEMMA ReturnType ==
    ASSUME InstancesTypeOK, NEW t \in Thread, NEW res \in {"none", "ok", "error"},
           Return(t, res)
    PROVE  thread' \in [Thread -> ThreadStates]
<1>1. Idle(res) \in ThreadStates
  BY DEF Idle, ThreadStates
<1> QED BY <1>1 DEF InstancesTypeOK, Return

LEMMA InitType == InstancesInit => InstancesTypeOK
<1> SUFFICES ASSUME InstancesInit PROVE InstancesTypeOK
  OBVIOUS
<1> USE InstancesAssumption
<1>1. NewInstance \in InstanceFields
  BY DEF NewInstance, InstanceFields, OrNil, FaultKinds
<1>2. Idle("none") \in ThreadStates
  BY DEF Idle, ThreadStates
<1>3. inst \in [Instance -> InstanceFields]
  BY <1>1 DEF InstancesInit
<1>4. thread \in [Thread -> ThreadStates]
  BY <1>2 DEF InstancesInit
<1> QED BY <1>3, <1>4 DEF InstancesInit, InstancesTypeOK, Handle, OrNil

\* A failing start that returns at once.
LEMMA FailAtOnceType ==
    ASSUME InstancesTypeOK, NEW t \in Thread, thread[t].obj \in Instance,
           NEW kind, FailAtOnce(t, kind)
    PROVE  InstancesTypeOK'
<1>1. thread' \in [Thread -> ThreadStates]
  BY ReturnType DEF FailAtOnce
<1>2. kind \in FaultKinds
  BY InstancesAssumption DEF FailAtOnce
<1>3. inst' \in [Instance -> InstanceFields]
  BY <1>2 DEF FailAtOnce, InstancesTypeOK, InstanceFields
<1> QED BY <1>1, <1>3 DEF FailAtOnce, InstancesTypeOK

\* ... and one that waits first.
LEMMA FailAndWaitType ==
    ASSUME InstancesTypeOK, NEW t \in Thread, thread[t].obj \in Instance,
           NEW kind \in FaultKinds, FailAndWait(t, kind)
    PROVE  inst' \in [Instance -> InstanceFields]
  BY DEF FailAndWait, InstancesTypeOK, InstanceFields

LEMMA StartCallType ==
    ASSUME InstancesTypeOK, NEW t \in Thread, NEW o \in Instance, NEW opt \in Options,
           spicedb_start(t, o, opt)
    PROVE  InstancesTypeOK'
<1> DEFINE started == [op |-> "start", pc |-> "alloc", obj |-> o, result |-> "none"]
<1>1. started \in ThreadStates
  BY DEF ThreadStates, StartPC
<1>2. thread' \in [Thread -> ThreadStates]
  <2>1. CASE Return(t, "error")
    BY <2>1, ReturnType
  <2>2. CASE thread' = [thread EXCEPT ![t] = started]
    BY <1>1, <2>2 DEF InstancesTypeOK
  <2> QED BY <2>1, <2>2 DEF spicedb_start
<1>3. inst' \in [Instance -> InstanceFields]
  BY DEF spicedb_start, InstancesTypeOK, InstanceFields
<1> QED BY <1>2, <1>3 DEF spicedb_start, InstancesTypeOK

LEMMA StartStepType ==
    ASSUME InstancesTypeOK, HandleGiven, NEW t \in Thread, StartStep(t)
    PROVE  InstancesTypeOK'
<1>0. thread[t].op = "start" /\ thread[t].obj \in Instance
  <2>1. thread[t].pc \in StartPC
    BY DEF StartStep, AllocateID, newDatastoreFromOpts, newSpiceDBServerFromDatastore,
           otelGet, otelSet, startMetricsServer, RunServer, NewClient,
           startStreamingProxy, Publish, FailWait, At, StartPC
  <2> QED BY <2>1, PcDeterminesOp
<1>a. ASSUME NEW next \in StartPC \cup CleanupPC, Goto(t, next)
      PROVE  thread' \in [Thread -> ThreadStates]
  BY <1>0, <1>a, GotoType
<1>1. CASE AllocateID(t)
  <2>1. thread' \in [Thread -> ThreadStates]
    BY <1>1, <1>a DEF AllocateID, StartPC
  <2>2. MaxHandle \in Nat
    BY InstancesAssumption
  <2>3. nextID' \in 0..MaxHandle
    BY <1>1, <2>2 DEF AllocateID, InstancesTypeOK
  <2>4. inst' = [inst EXCEPT ![thread[t].obj].id = nextID']
    BY <1>1 DEF AllocateID
  <2>5. inst' \in [Instance -> InstanceFields]
    BY <1>0, <2>3, <2>4 DEF InstancesTypeOK, InstanceFields
  <2> QED BY <1>1, <2>1, <2>3, <2>5 DEF AllocateID, InstancesTypeOK
<1>2. CASE newDatastoreFromOpts(t)
  <2>1. CASE FailAtOnce(t, "datastore")
    BY <1>0, <2>1, FailAtOnceType
  <2>2. CASE ~FailAtOnce(t, "datastore")
    <3>1. thread' \in [Thread -> ThreadStates]
      BY <1>2, <2>2, <1>a DEF newDatastoreFromOpts, StartPC
    <3>2. inst' \in [Instance -> InstanceFields]
      BY <1>0, <1>2, <2>2 DEF newDatastoreFromOpts, InstancesTypeOK, InstanceFields
    <3> QED BY <1>2, <2>2, <3>1, <3>2 DEF newDatastoreFromOpts, InstancesTypeOK
  <2> QED BY <2>1, <2>2
<1>3. CASE newSpiceDBServerFromDatastore(t)
  <2>1. CASE FailAtOnce(t, "server")
    BY <1>0, <2>1, FailAtOnceType
  <2>2. CASE ~FailAtOnce(t, "server")
    <3>1. thread' \in [Thread -> ThreadStates]
      BY <1>3, <2>2, <1>a DEF newSpiceDBServerFromDatastore, AfterServer, StartPC
    <3>2. inst' \in [Instance -> InstanceFields]
      BY <1>0, <1>3, <2>2 DEF newSpiceDBServerFromDatastore, InstancesTypeOK, InstanceFields
    <3> QED BY <1>3, <2>2, <3>1, <3>2 DEF newSpiceDBServerFromDatastore, InstancesTypeOK
  <2> QED BY <2>1, <2>2
<1>4. CASE otelGet(t)
  <2>1. CASE FailAtOnce(t, "otel")
    BY <1>0, <2>1, FailAtOnceType
  <2>2. CASE ~FailAtOnce(t, "otel")
    <3>1. thread' \in [Thread -> ThreadStates]
      BY <1>4, <2>2, <1>a DEF otelGet, StartPC
    <3>2. inst' \in [Instance -> InstanceFields]
      BY <1>0, <1>4, <2>2 DEF otelGet, InstancesTypeOK, InstanceFields
    <3> QED BY <1>4, <2>2, <3>1, <3>2 DEF otelGet, InstancesTypeOK
  <2> QED BY <2>1, <2>2
<1>5. CASE otelSet(t)
  <2>1. thread' \in [Thread -> ThreadStates]
    BY <1>5, <1>a DEF otelSet, AfterTracing, StartPC
  <2>2. inst' \in [Instance -> InstanceFields]
    BY <1>0, <1>5 DEF otelSet, InstancesTypeOK, InstanceFields
  <2> QED BY <1>0, <1>5, <2>1, <2>2 DEF otelSet, InstancesTypeOK, OrNil
<1>6. CASE startMetricsServer(t)
  <2>1. thread' \in [Thread -> ThreadStates]
    BY <1>6, <1>a DEF startMetricsServer, StartPC, CleanupPC
  <2>2. inst' \in [Instance -> InstanceFields]
    <3>1. CASE inst' = [inst EXCEPT ![thread[t].obj].ctx = "cancelled",
                                    ![thread[t].obj].failure = "metrics"]
      BY <1>0, <3>1 DEF InstancesTypeOK, InstanceFields, FaultKinds
    <3>2. CASE inst' = [inst EXCEPT ![thread[t].obj].metricsServer = "spawned",
                                    ![thread[t].obj].metricsPort = "bound"]
      BY <1>0, <3>2 DEF InstancesTypeOK, InstanceFields
    <3> QED BY <1>6, <3>1, <3>2 DEF startMetricsServer
  <2> QED BY <1>6, <2>1, <2>2 DEF startMetricsServer, InstancesTypeOK
<1>7. CASE RunServer(t)
  <2>1. thread' \in [Thread -> ThreadStates]
    BY <1>7, <1>a DEF RunServer, StartPC
  <2>2. inst' \in [Instance -> InstanceFields]
    BY <1>0, <1>7 DEF RunServer, InstancesTypeOK, InstanceFields
  <2> QED BY <1>7, <2>1, <2>2 DEF RunServer, InstancesTypeOK
<1>8. CASE NewClient(t)
  <2>1. thread' \in [Thread -> ThreadStates]
    BY <1>8, <1>a DEF NewClient, FailAndWait, StartPC
  <2>2. inst' \in [Instance -> InstanceFields]
    <3>1. CASE FailAndWait(t, "client")
      BY <1>0, <3>1, FailAndWaitType DEF FaultKinds
    <3>2. CASE inst' = [inst EXCEPT ![thread[t].obj].clientConn = "open"]
      BY <1>0, <3>2 DEF InstancesTypeOK, InstanceFields
    <3> QED BY <1>8, <3>1, <3>2 DEF NewClient
  <2> QED BY <1>8, <2>1, <2>2 DEF NewClient, InstancesTypeOK
<1>9. CASE startStreamingProxy(t)
  <2>1. thread' \in [Thread -> ThreadStates]
    BY <1>9, <1>a DEF startStreamingProxy, FailAndWait, StartPC
  <2>2. inst' \in [Instance -> InstanceFields]
    <3>1. CASE FailAndWait(t, "listen") \/ FailAndWait(t, "remove")
      BY <1>0, <3>1, FailAndWaitType DEF FaultKinds
    <3>2. CASE inst' = [inst EXCEPT ![thread[t].obj].streamingListener = "open",
                                    ![thread[t].obj].streamingServer = "built",
                                    ![thread[t].obj].serve = "spawned"]
      BY <1>0, <3>2 DEF InstancesTypeOK, InstanceFields
    <3> QED BY <1>9, <3>1, <3>2 DEF startStreamingProxy
  <2>3. sock' \in SUBSET Handle
    <3>1. inst[thread[t].obj].id \in Handle
      <4>1. thread[t].pc # "alloc"
        BY <1>9 DEF startStreamingProxy, At
      <4>2. inst[thread[t].obj].id \in 0..MaxHandle
        BY <1>0 DEF InstancesTypeOK, InstanceFields
      <4> QED BY <1>0, <4>1, <4>2, InstancesAssumption DEF HandleGiven, Handle
    <3> QED BY <1>9, <3>1 DEF startStreamingProxy, ClearSocketPath, InstancesTypeOK
  <2> QED BY <1>9, <2>1, <2>2, <2>3 DEF startStreamingProxy, InstancesTypeOK
<1>10. CASE Publish(t)
  <2>1. thread' \in [Thread -> ThreadStates]
    BY <1>10, ReturnType DEF Publish
  <2>2. inst' \in [Instance -> InstanceFields]
    BY <1>0, <1>10 DEF Publish, InstancesTypeOK, InstanceFields
  <2>3. instances' \in [Handle -> OrNil]
    BY <1>0, <1>10 DEF Publish, InstancesTypeOK, OrNil
  <2> QED BY <1>10, <2>1, <2>2, <2>3 DEF Publish, InstancesTypeOK
<1>11. CASE FailWait(t)
  BY <1>11, <1>a DEF FailWait, CleanupPC, InstancesTypeOK
<1> QED BY <1>1, <1>2, <1>3, <1>4, <1>5, <1>6, <1>7, <1>8, <1>9, <1>10, <1>11 DEF StartStep

\* The end of cleanupObservability, for either caller.
LEMMA LeaveCleanupType ==
    ASSUME InstancesTypeOK, NEW t \in Thread, thread[t].obj \in Instance,
           NEW s \in InstanceFields, LeaveCleanup(t, s)
    PROVE  /\ thread' \in [Thread -> ThreadStates]
           /\ inst' \in [Instance -> InstanceFields]
<1>1. CASE thread[t].op = "start"
  <2>1. Return(t, "error") /\ inst' = [inst EXCEPT ![thread[t].obj] = [s EXCEPT !.stage = "failed"]]
    BY <1>1 DEF LeaveCleanup
  <2>2. [s EXCEPT !.stage = "failed"] \in InstanceFields
    BY DEF InstanceFields
  <2> QED BY <2>1, <2>2, ReturnType DEF InstancesTypeOK
<1>2. CASE thread[t].op = "dispose"
  <2>1. Goto(t, "removeSocket") /\ inst' = [inst EXCEPT ![thread[t].obj] = s]
    BY <1>2 DEF LeaveCleanup
  <2>2. thread' \in [Thread -> ThreadStates]
    BY <1>2, <2>1, GotoType DEF DisposePC
  <2> QED BY <2>1, <2>2 DEF InstancesTypeOK
<1> QED BY <1>1, <1>2 DEF LeaveCleanup

LEMMA ShutdownMetricsType ==
    ASSUME NEW s \in InstanceFields
    PROVE  ShutdownMetrics(s) \in InstanceFields
<1> DEFINE stopped == [s EXCEPT !.metricsServer = "shutdown"]
           closed == [stopped EXCEPT !.metricsPort = "free"]
           open == [stopped EXCEPT !.metricsPort = "bound"]
<1>1. stopped \in InstanceFields
  BY DEF InstanceFields
<1>2. closed \in InstanceFields /\ open \in InstanceFields
  <2> HIDE DEF stopped
  <2> QED BY <1>1 DEF InstanceFields
<1>3. ShutdownMetrics(s) \in {s, closed, open}
  BY DEF ShutdownMetrics
<1> QED BY <1>2, <1>3

LEMMA CleanupStepType ==
    ASSUME InstancesTypeOK, NEW t \in Thread, CleanupStep(t)
    PROVE  InstancesTypeOK'
<1>0. thread[t].op \in {"start", "dispose"} /\ thread[t].obj \in Instance
  <2>1. thread[t].pc \in CleanupPC
    BY DEF CleanupStep, CleanupMetrics, TracerShutdown, TracerRestore, At, CleanupPC
  <2> QED BY <2>1, PcDeterminesOp
<1>a. ASSUME NEW next \in CleanupPC, Goto(t, next)
      PROVE  thread' \in [Thread -> ThreadStates]
  BY <1>0, <1>a, GotoType
<1>b. inst[thread[t].obj] \in InstanceFields
  BY <1>0 DEF InstancesTypeOK
<1>1. CASE CleanupMetrics(t)
  <2> DEFINE s == ShutdownMetrics(inst[thread[t].obj])
  <2>1. s \in InstanceFields
    BY <1>b, ShutdownMetricsType
  <2> HIDE DEF s
  <2>2. CASE LeaveCleanup(t, s)
    BY <1>0, <1>1, <2>1, <2>2, LeaveCleanupType DEF CleanupMetrics, InstancesTypeOK
  <2>3. CASE inst' = [inst EXCEPT ![thread[t].obj] = s] /\ Goto(t, "tracerShutdown")
    <3>1. thread' \in [Thread -> ThreadStates]
      BY <2>3, <1>a DEF CleanupPC
    <3> QED BY <1>0, <1>1, <2>1, <2>3, <3>1 DEF CleanupMetrics, InstancesTypeOK
  <2> QED BY <1>1, <2>2, <2>3 DEF CleanupMetrics, s
<1>2. CASE TracerShutdown(t)
  <2>1. thread' \in [Thread -> ThreadStates]
    BY <1>2, <1>a DEF TracerShutdown, CleanupPC
  <2>2. inst' \in [Instance -> InstanceFields]
    BY <1>0, <1>2 DEF TracerShutdown, InstancesTypeOK, InstanceFields
  <2> QED BY <1>2, <2>1, <2>2 DEF TracerShutdown, InstancesTypeOK
<1>3. CASE TracerRestore(t)
  <2>1. /\ thread' \in [Thread -> ThreadStates]
        /\ inst' \in [Instance -> InstanceFields]
    BY <1>0, <1>b, <1>3, LeaveCleanupType DEF TracerRestore
  <2>2. globalTP' \in OrNil
    BY <1>b, <1>3 DEF TracerRestore, InstanceFields
  <2> QED BY <1>3, <2>1, <2>2 DEF TracerRestore, InstancesTypeOK
<1> QED BY <1>1, <1>2, <1>3 DEF CleanupStep

LEMMA DisposeCallType ==
    ASSUME InstancesTypeOK, NEW t \in Thread, NEW h \in Handle, spicedb_dispose(t, h)
    PROVE  InstancesTypeOK'
<1>1. CASE instances[h] = NoInstance
  BY <1>1, ReturnType DEF spicedb_dispose, InstancesTypeOK
<1>2. CASE instances[h] # NoInstance
  <2>1. instances[h] \in Instance
    BY <1>2 DEF InstancesTypeOK, OrNil
  <2> DEFINE begun == [op |-> "dispose", pc |-> "cancel", obj |-> instances[h], result |-> "none"]
  <2>2. begun \in ThreadStates
    BY <2>1 DEF ThreadStates, DisposePC
  <2>3. thread' = [thread EXCEPT ![t] = begun]
    BY <1>2 DEF spicedb_dispose
  <2> HIDE DEF begun
  <2>4. thread' \in [Thread -> ThreadStates]
    BY <2>2, <2>3 DEF InstancesTypeOK
  <2>5. inst' = [inst EXCEPT ![instances[h]].stage = "disposing"]
    BY <1>2 DEF spicedb_dispose
  <2>6. inst' \in [Instance -> InstanceFields]
    BY <2>1, <2>5 DEF InstancesTypeOK, InstanceFields
  <2>7. instances' \in [Handle -> OrNil]
    BY <1>2 DEF spicedb_dispose, InstancesTypeOK, OrNil
  <2> QED BY <2>4, <2>6, <2>7 DEF spicedb_dispose, InstancesTypeOK
<1> QED BY <1>1, <1>2

LEMMA DisposeStepType ==
    ASSUME InstancesTypeOK, NEW t \in Thread, NEW drained, DisposeStep(t, drained)
    PROVE  InstancesTypeOK'
<1>0. thread[t].op = "dispose" /\ thread[t].obj \in Instance
  <2>1. thread[t].pc \in DisposePC
    BY DEF DisposeStep, Cancel, CloseConn, GracefulStop, GracefulStopReturns,
           CloseListener, DisposeWait, RemoveSocket, At, DisposePC
  <2> QED BY <2>1, PcDeterminesOp
<1>a. ASSUME NEW next \in DisposePC \cup CleanupPC, Goto(t, next)
      PROVE  thread' \in [Thread -> ThreadStates]
  BY <1>0, <1>a, GotoType
<1>1. CASE Cancel(t)
  <2>1. thread' \in [Thread -> ThreadStates]
    BY <1>1, <1>a DEF Cancel, DisposePC
  <2>2. inst' \in [Instance -> InstanceFields]
    BY <1>0, <1>1 DEF Cancel, InstancesTypeOK, InstanceFields
  <2> QED BY <1>1, <2>1, <2>2 DEF Cancel, InstancesTypeOK
<1>2. CASE CloseConn(t)
  <2>1. thread' \in [Thread -> ThreadStates]
    BY <1>2, <1>a DEF CloseConn, DisposePC
  <2>2. inst' \in [Instance -> InstanceFields]
    BY <1>0, <1>2 DEF CloseConn, InstancesTypeOK, InstanceFields
  <2> QED BY <1>2, <2>1, <2>2 DEF CloseConn, InstancesTypeOK
<1>3. CASE GracefulStop(t)
  <2>1. thread' \in [Thread -> ThreadStates]
    BY <1>3, <1>a DEF GracefulStop, DisposePC
  <2>2. inst' \in [Instance -> InstanceFields]
    BY <1>0, <1>3 DEF GracefulStop, InstancesTypeOK, InstanceFields
  <2> QED BY <1>3, <2>1, <2>2 DEF GracefulStop, InstancesTypeOK
<1>4. CASE GracefulStopReturns(t, drained)
  <2>1. thread' \in [Thread -> ThreadStates]
    BY <1>4, <1>a DEF GracefulStopReturns, DisposePC
  <2>2. inst' \in [Instance -> InstanceFields]
    BY <1>0, <1>4 DEF GracefulStopReturns, InstancesTypeOK, InstanceFields
  <2> QED BY <1>4, <2>1, <2>2 DEF GracefulStopReturns, InstancesTypeOK
<1>5. CASE CloseListener(t)
  <2>1. thread' \in [Thread -> ThreadStates]
    BY <1>5, <1>a DEF CloseListener, DisposePC
  <2>2. inst' \in [Instance -> InstanceFields]
    BY <1>0, <1>5 DEF CloseListener, InstancesTypeOK, InstanceFields
  <2> QED BY <1>5, <2>1, <2>2 DEF CloseListener, InstancesTypeOK
<1>6. CASE DisposeWait(t)
  BY <1>6, <1>a DEF DisposeWait, CleanupPC, InstancesTypeOK
<1>7. CASE RemoveSocket(t)
  <2>1. thread' \in [Thread -> ThreadStates]
    BY <1>7, ReturnType DEF RemoveSocket
  <2>2. inst' \in [Instance -> InstanceFields]
    BY <1>0, <1>7 DEF RemoveSocket, InstancesTypeOK, InstanceFields
  <2> QED BY <1>7, <2>1, <2>2 DEF RemoveSocket, InstancesTypeOK
<1> QED BY <1>1, <1>2, <1>3, <1>4, <1>5, <1>6, <1>7 DEF DisposeStep

LEMMA GoroutineStepType ==
    ASSUME InstancesTypeOK, NEW o \in Instance, NEW quiet,
           GoroutineStep(o, quiet) \/ ServerRunFails(o, quiet)
    PROVE  InstancesTypeOK'
<1>1. inst' \in [Instance -> InstanceFields]
  <2>1. CASE ServerRunExits(o, quiet) \/ ServerRunFails(o, quiet)
    <3>1. inst' = [inst EXCEPT ![o].server = "exited", ![o].datastore = "closed"]
      BY <2>1 DEF ServerRunExits, ServerRunFails
    <3> DEFINE exited == [inst[o] EXCEPT !.server = "exited"]
               closed == [exited EXCEPT !.datastore = "closed"]
    <3>2. exited \in InstanceFields
      BY DEF InstancesTypeOK, InstanceFields
    <3>3. closed \in InstanceFields
      <4> HIDE DEF exited
      <4> QED BY <3>2 DEF InstanceFields
    <3>4. inst' = [inst EXCEPT ![o] = closed]
      BY <3>1 DEF InstancesTypeOK
    <3> QED BY <3>3, <3>4 DEF InstancesTypeOK
  <2>2. CASE ServeBegins(o) \/ ServeExits(o)
    BY <2>2 DEF ServeBegins, ServeExits, InstancesTypeOK, InstanceFields
  <2>3. CASE MetricsServeBegins(o) \/ MetricsServeTooLate(o)
    BY <2>3 DEF MetricsServeBegins, MetricsServeTooLate, InstancesTypeOK, InstanceFields
  <2> QED BY <2>1, <2>2, <2>3 DEF GoroutineStep
<1>2. /\ sock' \in SUBSET Handle
      /\ UNCHANGED <<nextID, instances, thread, globalTP>>
  BY DEF GoroutineStep, ServerRunExits, ServerRunFails, ServeBegins, ServeExits,
         MetricsServeBegins, MetricsServeTooLate, InstancesTypeOK
<1> QED BY <1>1, <1>2 DEF InstancesTypeOK

LEMMA NextType ==
    ASSUME InstancesTypeOK, HandleGiven, [InstancesNext]_instVars
    PROVE  InstancesTypeOK'
<1>1. CASE UNCHANGED instVars
  BY <1>1 DEF instVars, InstancesTypeOK
<1>2. CASE InstancesNext
  BY <1>2, StartCallType, DisposeCallType, StartStepType, CleanupStepType,
     DisposeStepType, GoroutineStepType DEF InstancesNext, HostCall
<1> QED BY <1>1, <1>2

-----------------------------------------------------------------------------
\* What a step does to the table, to the identity and stage of each struct,
\* and to who owns it.  Everything TableInv says is about these.

\* Nothing changes, except that threads may go on inside their calls.
Frame ==
    /\ \A o \in Instance : inst'[o].id = inst[o].id /\ inst'[o].stage = inst[o].stage
    /\ \A t \in Thread : /\ thread'[t].op = thread[t].op
                         /\ thread'[t].obj = thread[t].obj
                         /\ thread[t].pc = "alloc" => thread'[t].pc = "alloc"
    /\ UNCHANGED <<nextID, instances>>

\* Thread t lets go of its struct, which goes to stage st.
LetsGo(t, st) ==
    /\ thread[t].obj \in Instance
    /\ \A o \in Instance : inst'[o].id = inst[o].id
    /\ \A o \in Instance : inst'[o].stage =
           IF o = thread[t].obj THEN st ELSE inst[o].stage
    /\ thread'[t].op = "none" /\ thread'[t].obj = NoInstance
    /\ \A u \in Thread \ {t} : thread'[u] = thread[u]
    /\ nextID' = nextID

LEMMA ThreadGoto ==
    ASSUME InstancesTypeOK, NEW t \in Thread, NEW next, Goto(t, next),
           thread[t].pc # "alloc"
    PROVE  \A u \in Thread : /\ thread'[u].op = thread[u].op
                             /\ thread'[u].obj = thread[u].obj
                             /\ thread[u].pc = "alloc" => thread'[u].pc = "alloc"
<1>1. \A u \in Thread : thread[u] \in ThreadStates
  BY DEF InstancesTypeOK
<1> QED BY <1>1 DEF Goto, InstancesTypeOK, ThreadStates

LEMMA ThreadReturn ==
    ASSUME InstancesTypeOK, NEW t \in Thread, NEW res, Return(t, res)
    PROVE  /\ thread'[t].op = "none" /\ thread'[t].obj = NoInstance /\ thread'[t].pc = "idle"
           /\ \A u \in Thread \ {t} : thread'[u] = thread[u]
BY DEF Return, Idle, InstancesTypeOK

LEMMA GoroutineFrame ==
    ASSUME InstancesTypeOK, NEW o \in Instance, NEW quiet,
           GoroutineStep(o, quiet) \/ ServerRunFails(o, quiet)
    PROVE  Frame
<1>1. \A x \in Instance : inst'[x].id = inst[x].id /\ inst'[x].stage = inst[x].stage
  <2>1. CASE ServerRunExits(o, quiet) \/ ServerRunFails(o, quiet)
    <3>1. inst' = [inst EXCEPT ![o].server = "exited", ![o].datastore = "closed"]
      BY <2>1 DEF ServerRunExits, ServerRunFails
    <3> QED BY <3>1 DEF InstancesTypeOK, InstanceFields
  <2>2. CASE ServeBegins(o)
    BY <2>2 DEF ServeBegins, InstancesTypeOK, InstanceFields
  <2>3. CASE ServeExits(o)
    BY <2>3 DEF ServeExits, InstancesTypeOK, InstanceFields
  <2>4. CASE MetricsServeBegins(o)
    BY <2>4 DEF MetricsServeBegins, InstancesTypeOK, InstanceFields
  <2>5. CASE MetricsServeTooLate(o)
    BY <2>5 DEF MetricsServeTooLate, InstancesTypeOK, InstanceFields
  <2> QED BY <2>1, <2>2, <2>3, <2>4, <2>5 DEF GoroutineStep
<1>2. UNCHANGED <<nextID, instances, thread>>
  BY DEF GoroutineStep, ServerRunExits, ServerRunFails, ServeBegins, ServeExits,
         MetricsServeBegins, MetricsServeTooLate
<1> QED BY <1>1, <1>2 DEF Frame

LEMMA DisposeStepFrame ==
    ASSUME InstancesTypeOK, NEW t \in Thread, NEW drained, DisposeStep(t, drained)
    PROVE  Frame \/ (RemoveSocket(t) /\ LetsGo(t, "disposed") /\ UNCHANGED instances)
<1>0. thread[t].pc \in DisposePC /\ thread[t].obj \in Instance
  <2>1. thread[t].pc \in DisposePC
    BY DEF DisposeStep, Cancel, CloseConn, GracefulStop, GracefulStopReturns,
           CloseListener, DisposeWait, RemoveSocket, At, DisposePC
  <2> QED BY <2>1, PcDeterminesOp
<1>1. CASE RemoveSocket(t)
  <2>1. inst' = [inst EXCEPT ![thread[t].obj].stage = "disposed"]
    BY <1>1 DEF RemoveSocket
  <2>2. \A o \in Instance : /\ inst'[o].id = inst[o].id
                            /\ inst'[o].stage = IF o = thread[t].obj THEN "disposed" ELSE inst[o].stage
    BY <1>0, <2>1 DEF InstancesTypeOK, InstanceFields
  <2> QED BY <1>0, <1>1, <2>2, ThreadReturn DEF RemoveSocket, LetsGo
<1>2. CASE ~RemoveSocket(t)
  <2>1. \A x \in Instance : inst'[x].id = inst[x].id /\ inst'[x].stage = inst[x].stage
    <3>1. CASE Cancel(t)
      BY <1>0, <3>1 DEF Cancel, InstancesTypeOK, InstanceFields
    <3>2. CASE CloseConn(t)
      BY <1>0, <3>2 DEF CloseConn, InstancesTypeOK, InstanceFields
    <3>3. CASE GracefulStop(t)
      BY <1>0, <3>3 DEF GracefulStop, InstancesTypeOK, InstanceFields
    <3>4. CASE GracefulStopReturns(t, drained)
      BY <1>0, <3>4 DEF GracefulStopReturns, InstancesTypeOK, InstanceFields
    <3>5. CASE CloseListener(t)
      BY <1>0, <3>5 DEF CloseListener, InstancesTypeOK, InstanceFields
    <3>6. CASE DisposeWait(t)
      BY <3>6 DEF DisposeWait
    <3> QED BY <1>2, <3>1, <3>2, <3>3, <3>4, <3>5, <3>6 DEF DisposeStep
  <2>2. /\ \E next \in DisposePC \cup CleanupPC : Goto(t, next)
        /\ UNCHANGED <<nextID, instances>>
    BY <1>2 DEF DisposeStep, Cancel, CloseConn, GracefulStop, GracefulStopReturns,
                CloseListener, DisposeWait, DisposePC, CleanupPC
  <2>3. thread[t].pc # "alloc"
    BY <1>0 DEF DisposePC
  <2> QED BY <2>1, <2>2, <2>3, ThreadGoto DEF Frame
<1> QED BY <1>1, <1>2

LEMMA LeaveCleanupFrame ==
    ASSUME InstancesTypeOK, NEW t \in Thread, thread[t].obj \in Instance,
           thread[t].pc \in CleanupPC, UNCHANGED <<nextID, instances>>,
           NEW s \in InstanceFields, LeaveCleanup(t, s),
           s.id = inst[thread[t].obj].id, s.stage = inst[thread[t].obj].stage
    PROVE  Frame \/ (thread[t].op = "start" /\ LetsGo(t, "failed"))
<1>1. CASE thread[t].op = "start"
  <2>1. Return(t, "error") /\ inst' = [inst EXCEPT ![thread[t].obj] = [s EXCEPT !.stage = "failed"]]
    BY <1>1 DEF LeaveCleanup
  <2>2. \A o \in Instance : /\ inst'[o].id = inst[o].id
                            /\ inst'[o].stage = IF o = thread[t].obj THEN "failed" ELSE inst[o].stage
    BY <2>1 DEF InstancesTypeOK, InstanceFields
  <2> QED BY <1>1, <2>1, <2>2, ThreadReturn DEF LetsGo
<1>2. CASE thread[t].op = "dispose"
  <2>1. Goto(t, "removeSocket") /\ inst' = [inst EXCEPT ![thread[t].obj] = s]
    BY <1>2 DEF LeaveCleanup
  <2>2. \A o \in Instance : inst'[o].id = inst[o].id /\ inst'[o].stage = inst[o].stage
    BY <2>1 DEF InstancesTypeOK
  <2>3. thread[t].pc # "alloc"
    BY DEF CleanupPC
  <2> QED BY <2>1, <2>2, <2>3, ThreadGoto DEF Frame
<1> QED BY <1>1, <1>2 DEF LeaveCleanup

LEMMA CleanupStepFrame ==
    ASSUME InstancesTypeOK, NEW t \in Thread, CleanupStep(t)
    PROVE  /\ thread[t].obj \in Instance
           /\ UNCHANGED instances
           /\ Frame \/ (thread[t].op = "start" /\ LetsGo(t, "failed"))
<1>0. thread[t].pc \in CleanupPC /\ thread[t].obj \in Instance
  <2>1. thread[t].pc \in CleanupPC
    BY DEF CleanupStep, CleanupMetrics, TracerShutdown, TracerRestore, At, CleanupPC
  <2> QED BY <2>1, PcDeterminesOp
<1>b. inst[thread[t].obj] \in InstanceFields
  BY <1>0 DEF InstancesTypeOK
<1>c. UNCHANGED <<nextID, instances>>
  BY DEF CleanupStep, CleanupMetrics, TracerShutdown, TracerRestore
<1>d. thread[t].pc # "alloc"
  BY <1>0 DEF CleanupPC
<1>1. CASE CleanupMetrics(t)
  <2> DEFINE s == ShutdownMetrics(inst[thread[t].obj])
  <2>1. s \in InstanceFields
    BY <1>b, ShutdownMetricsType
  <2>2. s.id = inst[thread[t].obj].id /\ s.stage = inst[thread[t].obj].stage
    BY <1>b DEF ShutdownMetrics, InstanceFields
  <2> HIDE DEF s
  <2>3. CASE LeaveCleanup(t, s)
    BY <1>0, <1>c, <2>1, <2>2, <2>3, LeaveCleanupFrame
  <2>4. CASE inst' = [inst EXCEPT ![thread[t].obj] = s] /\ Goto(t, "tracerShutdown")
    <3>1. \A o \in Instance : inst'[o].id = inst[o].id /\ inst'[o].stage = inst[o].stage
      BY <1>0, <2>2, <2>4 DEF InstancesTypeOK
    <3> QED BY <1>0, <1>c, <1>d, <2>4, <3>1, ThreadGoto DEF Frame
  <2>5. LeaveCleanup(t, s) \/ (inst' = [inst EXCEPT ![thread[t].obj] = s] /\ Goto(t, "tracerShutdown"))
    BY <1>1 DEF CleanupMetrics, s
  <2> QED BY <1>0, <1>c, <2>3, <2>4, <2>5
<1>2. CASE TracerShutdown(t)
  <2>1. \A o \in Instance : inst'[o].id = inst[o].id /\ inst'[o].stage = inst[o].stage
    BY <1>0, <1>2 DEF TracerShutdown, InstancesTypeOK, InstanceFields
  <2> QED BY <1>0, <1>2, <1>c, <1>d, <2>1, ThreadGoto DEF Frame, TracerShutdown
<1>3. CASE TracerRestore(t)
  BY <1>0, <1>b, <1>c, <1>3, LeaveCleanupFrame DEF TracerRestore
<1> QED BY <1>0, <1>c, <1>1, <1>2, <1>3 DEF CleanupStep

LEMMA FailAtOnceFrame ==
    ASSUME InstancesTypeOK, NEW t \in Thread, thread[t].obj \in Instance,
           NEW kind, FailAtOnce(t, kind)
    PROVE  LetsGo(t, "failed") /\ UNCHANGED instances
<1>1. \A o \in Instance : /\ inst'[o].id = inst[o].id
                          /\ inst'[o].stage = IF o = thread[t].obj THEN "failed" ELSE inst[o].stage
  BY DEF FailAtOnce, InstancesTypeOK, InstanceFields
<1> QED BY <1>1, ThreadReturn DEF FailAtOnce, LetsGo

LEMMA StartStepFrame ==
    ASSUME InstancesTypeOK, NEW t \in Thread, StartStep(t)
    PROVE  /\ thread[t].op = "start"
           /\ thread[t].obj \in Instance
           /\ \/ AllocateID(t)
              \/ Publish(t)
              \/ Frame
              \/ LetsGo(t, "failed") /\ UNCHANGED instances
<1>0. thread[t].op = "start" /\ thread[t].obj \in Instance
  <2>1. thread[t].pc \in StartPC
    BY DEF StartStep, AllocateID, newDatastoreFromOpts, newSpiceDBServerFromDatastore,
           otelGet, otelSet, startMetricsServer, RunServer, NewClient,
           startStreamingProxy, Publish, FailWait, At, StartPC
  <2> QED BY <2>1, PcDeterminesOp
<1>a. ASSUME \A o \in Instance : inst'[o].id = inst[o].id /\ inst'[o].stage = inst[o].stage,
             NEW next, Goto(t, next), thread[t].pc # "alloc",
             UNCHANGED <<nextID, instances>>
      PROVE  Frame
  BY <1>a, ThreadGoto DEF Frame
<1>2. CASE newDatastoreFromOpts(t)
  <2>1. CASE FailAtOnce(t, "datastore")
    BY <1>0, <2>1, FailAtOnceFrame
  <2>2. CASE ~FailAtOnce(t, "datastore")
    <3>1. \A o \in Instance : inst'[o].id = inst[o].id /\ inst'[o].stage = inst[o].stage
      BY <1>0, <1>2, <2>2 DEF newDatastoreFromOpts, InstancesTypeOK, InstanceFields
    <3> QED BY <1>0, <1>2, <1>a, <2>2, <3>1 DEF newDatastoreFromOpts, At
  <2> QED BY <2>1, <2>2
<1>3. CASE newSpiceDBServerFromDatastore(t)
  <2>1. CASE FailAtOnce(t, "server")
    BY <1>0, <2>1, FailAtOnceFrame
  <2>2. CASE ~FailAtOnce(t, "server")
    <3>1. \A o \in Instance : inst'[o].id = inst[o].id /\ inst'[o].stage = inst[o].stage
      BY <1>0, <1>3, <2>2 DEF newSpiceDBServerFromDatastore, InstancesTypeOK, InstanceFields
    <3> QED BY <1>0, <1>3, <1>a, <2>2, <3>1 DEF newSpiceDBServerFromDatastore, At
  <2> QED BY <2>1, <2>2
<1>4. CASE otelGet(t)
  <2>1. CASE FailAtOnce(t, "otel")
    BY <1>0, <2>1, FailAtOnceFrame
  <2>2. CASE ~FailAtOnce(t, "otel")
    <3>1. \A o \in Instance : inst'[o].id = inst[o].id /\ inst'[o].stage = inst[o].stage
      BY <1>0, <1>4, <2>2 DEF otelGet, InstancesTypeOK, InstanceFields
    <3> QED BY <1>0, <1>4, <1>a, <2>2, <3>1 DEF otelGet, At
  <2> QED BY <2>1, <2>2
<1>5. CASE otelSet(t)
  <2>1. \A o \in Instance : inst'[o].id = inst[o].id /\ inst'[o].stage = inst[o].stage
    BY <1>0, <1>5 DEF otelSet, InstancesTypeOK, InstanceFields
  <2> QED BY <1>0, <1>5, <1>a, <2>1 DEF otelSet, At
<1>6. CASE startMetricsServer(t)
  <2>1. \A o \in Instance : inst'[o].id = inst[o].id /\ inst'[o].stage = inst[o].stage
    BY <1>0, <1>6 DEF startMetricsServer, InstancesTypeOK, InstanceFields
  <2> QED BY <1>0, <1>6, <1>a, <2>1 DEF startMetricsServer, At
<1>7. CASE RunServer(t)
  <2>1. \A o \in Instance : inst'[o].id = inst[o].id /\ inst'[o].stage = inst[o].stage
    BY <1>0, <1>7 DEF RunServer, InstancesTypeOK, InstanceFields
  <2> QED BY <1>0, <1>7, <1>a, <2>1 DEF RunServer, At
<1>8. CASE NewClient(t)
  <2>1. \A o \in Instance : inst'[o].id = inst[o].id /\ inst'[o].stage = inst[o].stage
    BY <1>0, <1>8 DEF NewClient, FailAndWait, InstancesTypeOK, InstanceFields
  <2> QED BY <1>0, <1>8, <1>a, <2>1 DEF NewClient, FailAndWait, At
<1>9. CASE startStreamingProxy(t)
  <2>1. \A o \in Instance : inst'[o].id = inst[o].id /\ inst'[o].stage = inst[o].stage
    <3>1. CASE FailAndWait(t, "listen") \/ FailAndWait(t, "remove")
      BY <1>0, <3>1 DEF FailAndWait, InstancesTypeOK, InstanceFields
    <3>2. CASE inst' = [inst EXCEPT ![thread[t].obj].streamingListener = "open",
                                    ![thread[t].obj].streamingServer = "built",
                                    ![thread[t].obj].serve = "spawned"]
      BY <1>0, <3>2 DEF InstancesTypeOK, InstanceFields
    <3> QED BY <1>9, <3>1, <3>2 DEF startStreamingProxy
  <2> QED BY <1>0, <1>9, <1>a, <2>1 DEF startStreamingProxy, FailAndWait, At
<1>11. CASE FailWait(t)
  BY <1>0, <1>11, <1>a DEF FailWait, At
<1> QED BY <1>0, <1>2, <1>3, <1>4, <1>5, <1>6, <1>7, <1>8, <1>9, <1>11 DEF StartStep

-----------------------------------------------------------------------------
\* The inductive invariant is preserved by each kind of step.

LEMMA FramePreserves ==
    ASSUME TableInv, Frame, InstancesTypeOK'
    PROVE  TableInv'
<1> USE DEF TableInv
<1>1. HandleGiven'
  <2>1. \A t \in Thread : thread[t].op = "start" => thread[t].obj \in Instance
    BY PcDeterminesOp
  <2> QED BY <2>1 DEF HandleGiven, Frame
<1>2. IdsGivenOut'
  BY DEF IdsGivenOut, Frame
<1>3. RegistryConsistent'
  BY DEF RegistryConsistent, Frame, InstancesTypeOK, OrNil
<1>4. SoleOwner'
  <2>1. \A t \in Thread : thread[t].obj # NoInstance => thread[t].obj \in Instance
    BY PcDeterminesOp
  <2> QED BY <2>1 DEF SoleOwner, Frame
<1> QED BY <1>1, <1>2, <1>3, <1>4

LEMMA LetsGoPreserves ==
    ASSUME TableInv, NEW t \in Thread, NEW st \in {"failed", "disposed"},
           LetsGo(t, st), UNCHANGED instances, InstancesTypeOK'
    PROVE  TableInv'
<1> USE DEF TableInv
<1>0. \A u \in Thread : /\ thread[u].obj # NoInstance => thread[u].obj \in Instance
                        /\ thread[u].op = "start" => thread[u].obj \in Instance
  BY PcDeterminesOp
<1>a. thread[t].obj # NoInstance
  BY InstancesAssumption DEF LetsGo
<1>1. HandleGiven'
  BY <1>0 DEF HandleGiven, LetsGo
<1>2. IdsGivenOut'
  BY DEF IdsGivenOut, LetsGo
<1>3. inst[thread[t].obj].stage # "live"
  BY <1>a DEF SoleOwner
<1>4. RegistryConsistent'
  BY <1>3 DEF RegistryConsistent, LetsGo, InstancesTypeOK, OrNil
<1>5. SoleOwner'
  BY <1>0, <1>a DEF SoleOwner, LetsGo
<1> QED BY <1>1, <1>2, <1>4, <1>5

LEMMA AllocatePreserves ==
    ASSUME TableInv, NEW t \in Thread, AllocateID(t), InstancesTypeOK'
    PROVE  TableInv'
<1> USE DEF TableInv
<1>0. thread[t].op = "start" /\ thread[t].obj \in Instance
  BY PcDeterminesOp DEF AllocateID, At, StartPC
<1>1. \A o \in Instance : /\ inst'[o].stage = inst[o].stage
                          /\ inst'[o].id = IF o = thread[t].obj THEN nextID + 1 ELSE inst[o].id
  BY <1>0 DEF AllocateID, InstancesTypeOK, InstanceFields
<1>2. nextID' = nextID + 1 /\ nextID \in Nat /\ UNCHANGED instances
  BY DEF AllocateID, InstancesTypeOK
<1>3. \A o \in Instance : inst[o].id \in Nat
  BY InstancesAssumption DEF InstancesTypeOK, InstanceFields
<1>4. \A u \in Thread : /\ thread'[u].op = thread[u].op
                        /\ thread'[u].obj = thread[u].obj
                        /\ u # t => thread'[u].pc = thread[u].pc
  <2>1. \A u \in Thread : thread[u] \in ThreadStates
    BY DEF InstancesTypeOK
  <2> QED BY <2>1 DEF AllocateID, Goto, InstancesTypeOK, ThreadStates
<1>5. \A u \in Thread : /\ thread[u].obj # NoInstance => thread[u].obj \in Instance
                        /\ thread[u].op = "start" => thread[u].obj \in Instance
  BY PcDeterminesOp
<1>6. HandleGiven'
  BY <1>0, <1>1, <1>2, <1>4, <1>5 DEF HandleGiven
<1>7. IdsGivenOut'
  BY <1>1, <1>2, <1>3 DEF IdsGivenOut
<1>8. inst[thread[t].obj].stage = "starting"
  <2>1. thread[t].obj # NoInstance
    BY <1>0, InstancesAssumption
  <2> QED BY <1>0, <2>1 DEF SoleOwner
<1>9. RegistryConsistent'
  <2>1. \A o1, o2 \in Instance : inst'[o1].id # 0 /\ inst'[o1].id = inst'[o2].id => o1 = o2
    BY <1>1, <1>2, <1>3 DEF IdsGivenOut, RegistryConsistent
  <2>2. \A h \in Handle : instances'[h] # NoInstance =>
            inst'[instances'[h]].id = h /\ inst'[instances'[h]].stage = "live"
    BY <1>1, <1>2, <1>8 DEF RegistryConsistent, InstancesTypeOK, OrNil
  <2>3. \A o \in Instance : inst'[o].stage = "live" =>
            inst'[o].id \in Handle /\ instances'[inst'[o].id] = o
    BY <1>1, <1>2, <1>8 DEF RegistryConsistent
  <2> QED BY <2>1, <2>2, <2>3 DEF RegistryConsistent
<1>10. SoleOwner'
  BY <1>1, <1>4, <1>5 DEF SoleOwner
<1> QED BY <1>6, <1>7, <1>9, <1>10

LEMMA PublishPreserves ==
    ASSUME TableInv, NEW t \in Thread, Publish(t), InstancesTypeOK'
    PROVE  TableInv'
<1> USE DEF TableInv
<1> DEFINE me == thread[t].obj
<1>0. thread[t].op = "start" /\ me \in Instance /\ thread[t].pc # "alloc"
  BY PcDeterminesOp DEF Publish, At, StartPC
<1>a. me # NoInstance
  BY <1>0, InstancesAssumption
<1>b. inst[me].stage = "starting"
  BY <1>0, <1>a DEF SoleOwner
<1>c. inst[me].id \in Handle
  <2>1. inst[me].id \in 0..MaxHandle
    BY <1>0 DEF InstancesTypeOK, InstanceFields
  <2> QED BY <1>0, <2>1, InstancesAssumption DEF HandleGiven, Handle
<1>1. \A o \in Instance : /\ inst'[o].id = inst[o].id
                          /\ inst'[o].stage = IF o = me THEN "live" ELSE inst[o].stage
  BY <1>0 DEF Publish, InstancesTypeOK, InstanceFields
<1>2. \A h \in Handle : instances'[h] = IF h = inst[me].id THEN me ELSE instances[h]
  BY <1>0, <1>c DEF Publish, InstancesTypeOK
<1>3. nextID' = nextID /\ thread'[t].op = "none" /\ thread'[t].obj = NoInstance
      /\ \A u \in Thread \ {t} : thread'[u] = thread[u]
  BY ThreadReturn DEF Publish
<1> HIDE DEF me
<1>5. \A u \in Thread : /\ thread[u].obj # NoInstance => thread[u].obj \in Instance
                        /\ thread[u].op = "start" => thread[u].obj \in Instance
  BY PcDeterminesOp
<1>6. HandleGiven'
  BY <1>1, <1>3, <1>5 DEF HandleGiven
<1>7. IdsGivenOut'
  BY <1>1, <1>3 DEF IdsGivenOut
<1>8. RegistryConsistent'
  <2>1. \A h \in Handle : instances[h] # NoInstance => instances[h] \in Instance
    BY DEF InstancesTypeOK, OrNil
  <2>3. \A h \in Handle : instances'[h] # NoInstance =>
            inst'[instances'[h]].id = h /\ inst'[instances'[h]].stage = "live"
    BY <1>0, <1>1, <1>2, <2>1 DEF RegistryConsistent
  <2>4. \A o \in Instance : inst'[o].stage = "live" =>
            inst'[o].id \in Handle /\ instances'[inst'[o].id] = o
    <3>1. CASE inst[me].id # 0
      BY <1>0, <1>1, <1>2, <1>c, <3>1 DEF RegistryConsistent
    <3> QED BY <1>c, <3>1 DEF Handle
  <2> QED BY <1>1, <2>3, <2>4 DEF RegistryConsistent
<1>9. SoleOwner'
  BY <1>0, <1>1, <1>3, <1>5, <1>a DEF SoleOwner, me
<1> QED BY <1>6, <1>7, <1>8, <1>9

LEMMA StartCallPreserves ==
    ASSUME TableInv, NEW t \in Thread, NEW o \in Instance, NEW opt \in Options,
           spicedb_start(t, o, opt), InstancesTypeOK'
    PROVE  TableInv' /\ UNCHANGED instances
<1> USE DEF TableInv
<1>0. thread[t].op = "none" /\ thread[t].obj = NoInstance
  <2>1. thread[t] \in ThreadStates
    BY DEF InstancesTypeOK
  <2> QED BY <2>1 DEF spicedb_start, At, ThreadStates, StartPC, DisposePC, CleanupPC
<1>1. inst[o].stage = "unused"
  BY DEF spicedb_start
<1>2. \E st \in {"failed", "starting"} : \A x \in Instance :
          inst'[x].id = inst[x].id /\ inst'[x].stage = IF x = o THEN st ELSE inst[x].stage
  <2>1. CASE MissingURI(opt)
    BY <2>1 DEF spicedb_start, InstancesTypeOK, InstanceFields
  <2>2. CASE ~MissingURI(opt)
    BY <2>2 DEF spicedb_start, InstancesTypeOK, InstanceFields
  <2> QED BY <2>1, <2>2
<1>3. UNCHANGED <<nextID, instances>>
  BY DEF spicedb_start
<1>4. \A u \in Thread \ {t} : thread'[u] = thread[u]
  BY DEF spicedb_start, Return, InstancesTypeOK
<1>5. \/ thread'[t].op = "none" /\ thread'[t].obj = NoInstance
      \/ /\ thread'[t].op = "start" /\ thread'[t].obj = o /\ thread'[t].pc = "alloc"
         /\ inst'[o].stage = "starting"
  <2>1. CASE MissingURI(opt)
    BY <2>1, ThreadReturn DEF spicedb_start
  <2>2. CASE ~MissingURI(opt)
    BY <2>2 DEF spicedb_start, InstancesTypeOK, InstanceFields
  <2> QED BY <2>1, <2>2
<1>6. \A u \in Thread : /\ thread[u].obj # NoInstance => thread[u].obj \in Instance
                        /\ thread[u].op = "start" => thread[u].obj \in Instance
  BY PcDeterminesOp
<1>7. HandleGiven'
  BY <1>2, <1>4, <1>5, <1>6 DEF HandleGiven
<1>8. IdsGivenOut'
  BY <1>2, <1>3 DEF IdsGivenOut
<1>9. RegistryConsistent'
  BY <1>1, <1>2, <1>3 DEF RegistryConsistent, InstancesTypeOK, OrNil
<1>10. SoleOwner'
  <2>1. \A u \in Thread : thread[u].obj # o
    BY <1>1, InstancesAssumption DEF SoleOwner
  <2> QED BY <1>2, <1>4, <1>5, <1>6, <2>1 DEF SoleOwner
<1> QED BY <1>3, <1>7, <1>8, <1>9, <1>10

LEMMA DisposeCallPreserves ==
    ASSUME TableInv, NEW t \in Thread, NEW h \in Handle,
           spicedb_dispose(t, h), InstancesTypeOK'
    PROVE  TableInv'
<1> USE DEF TableInv
<1>0. thread[t].op = "none" /\ thread[t].obj = NoInstance
  <2>1. thread[t] \in ThreadStates
    BY DEF InstancesTypeOK
  <2> QED BY <2>1 DEF spicedb_dispose, At, ThreadStates, StartPC, DisposePC, CleanupPC
<1>1. CASE instances[h] = NoInstance
  <2>1. Return(t, "error") /\ UNCHANGED <<nextID, instances, inst>>
    BY <1>1 DEF spicedb_dispose
  <2>2. /\ thread'[t].op = "none" /\ thread'[t].obj = NoInstance
        /\ \A u \in Thread \ {t} : thread'[u] = thread[u]
    BY <2>1, ThreadReturn
  <2>3. thread[t].pc # "alloc"
    BY DEF spicedb_dispose, At
  <2>4. Frame
    BY <1>0, <2>1, <2>2, <2>3 DEF Frame
  <2> QED BY <2>4, FramePreserves
<1>2. CASE instances[h] # NoInstance
  <2> DEFINE o == instances[h]
  <2>1. o \in Instance /\ inst[o].stage = "live" /\ inst[o].id = h
    BY <1>2 DEF InstancesTypeOK, OrNil, RegistryConsistent
  <2>2. \A x \in Instance : /\ inst'[x].id = inst[x].id
                            /\ inst'[x].stage = IF x = o THEN "disposing" ELSE inst[x].stage
    <3>1. inst' = [inst EXCEPT ![o].stage = "disposing"]
      BY <1>2 DEF spicedb_dispose
    <3> HIDE DEF o
    <3> QED BY <2>1, <3>1 DEF InstancesTypeOK, InstanceFields
  <2>3. /\ thread'[t].op = "dispose" /\ thread'[t].obj = o
        /\ \A u \in Thread \ {t} : thread'[u] = thread[u]
    BY <1>2 DEF spicedb_dispose, InstancesTypeOK
  <2>4. /\ nextID' = nextID
        /\ \A k \in Handle : instances'[k] = IF k = h THEN NoInstance ELSE instances[k]
    BY <1>2 DEF spicedb_dispose, InstancesTypeOK
  <2>5. o = instances[h]
    OBVIOUS
  <2> HIDE DEF o
  <2>6. \A u \in Thread : /\ thread[u].obj # NoInstance => thread[u].obj \in Instance
                          /\ thread[u].op = "start" => thread[u].obj \in Instance
    BY PcDeterminesOp
  <2>7. HandleGiven'
    BY <2>2, <2>3, <2>6 DEF HandleGiven
  <2>8. IdsGivenOut'
    BY <2>2, <2>4 DEF IdsGivenOut
  <2>9. RegistryConsistent'
    <3>1. \A k \in Handle : instances[k] # NoInstance => instances[k] \in Instance
      BY DEF InstancesTypeOK, OrNil
    <3>2. \A k \in Handle : instances'[k] # NoInstance =>
              inst'[instances'[k]].id = k /\ inst'[instances'[k]].stage = "live"
      BY <2>1, <2>2, <2>4, <3>1 DEF RegistryConsistent
    <3>3. \A x \in Instance : inst'[x].stage = "live" =>
              inst'[x].id \in Handle /\ instances'[inst'[x].id] = x
      BY <2>1, <2>2, <2>4, <2>5 DEF RegistryConsistent
    <3> QED BY <2>2, <3>2, <3>3 DEF RegistryConsistent
  <2>10. SoleOwner'
    <3>1. \A u \in Thread : thread[u].obj # o
      BY <2>1, InstancesAssumption DEF SoleOwner
    <3> QED BY <2>1, <2>2, <2>3, <2>6, <3>1 DEF SoleOwner
  <2> QED BY <2>7, <2>8, <2>9, <2>10
<1> QED BY <1>1, <1>2

LEMMA InitTable == InstancesInit => TableInv
<1> SUFFICES ASSUME InstancesInit PROVE TableInv
  OBVIOUS
<1>1. InstancesTypeOK
  BY InitType
<1>2. \A o \in Instance : inst[o].id = 0 /\ inst[o].stage = "unused"
  BY DEF InstancesInit, NewInstance
<1>3. \A t \in Thread : thread[t].op = "none" /\ thread[t].obj = NoInstance
  BY DEF InstancesInit, Idle
<1>4. nextID = 0 /\ \A h \in Handle : instances[h] = NoInstance
  BY DEF InstancesInit
<1> QED BY <1>1, <1>2, <1>3, <1>4
        DEF TableInv, HandleGiven, IdsGivenOut, RegistryConsistent, SoleOwner

LEMMA NextTable ==
    ASSUME TableInv, [InstancesNext]_instVars
    PROVE  TableInv'
<1>0. InstancesTypeOK /\ HandleGiven
  BY DEF TableInv
<1>1. InstancesTypeOK'
  BY <1>0, NextType
<1>2. CASE UNCHANGED instVars
  <2>1. Frame
    BY <1>2 DEF instVars, Frame
  <2> QED BY <1>1, <2>1, FramePreserves
<1>3. ASSUME NEW t \in Thread, HostCall(t)
      PROVE  TableInv'
  BY <1>1, <1>3, StartCallPreserves, DisposeCallPreserves DEF HostCall
<1>4. ASSUME NEW t \in Thread, StartStep(t)
      PROVE  TableInv'
  BY <1>0, <1>1, <1>4, StartStepFrame, AllocatePreserves, PublishPreserves,
     FramePreserves, LetsGoPreserves
<1>5. ASSUME NEW t \in Thread, CleanupStep(t)
      PROVE  TableInv'
  BY <1>0, <1>1, <1>5, CleanupStepFrame, FramePreserves, LetsGoPreserves
<1>6. ASSUME NEW t \in Thread, DisposeStep(t, TRUE)
      PROVE  TableInv'
  BY <1>0, <1>1, <1>6, DisposeStepFrame, FramePreserves, LetsGoPreserves
<1>7. ASSUME NEW o \in Instance, GoroutineStep(o, TRUE) \/ ServerRunFails(o, TRUE)
      PROVE  TableInv'
  BY <1>0, <1>1, <1>7, GoroutineFrame, FramePreserves
<1> QED BY <1>2, <1>3, <1>4, <1>5, <1>6, <1>7 DEF InstancesNext

LEMMA TableInvariant == InstancesSpec => []TableInv
<1>1. InstancesInit => TableInv
  BY InitTable
<1>2. TableInv /\ [InstancesNext]_instVars => TableInv'
  BY NextTable
<1> QED BY <1>1, <1>2, PTL DEF InstancesSpec

\* Every reachable state is well typed: start and dispose never act on a
\* handle or a struct that does not exist.
THEOREM TypeCorrect == InstancesSpec => []InstancesTypeOK
<1>1. TableInv => InstancesTypeOK
  BY DEF TableInv
<1> QED BY <1>1, TableInvariant, PTL

\* The table and the structs agree, in every reachable state: a handle leads
\* to its own instance and handles are unique (main.go 182, 246-248, 412-417).
THEOREM TableIsConsistent == InstancesSpec => []RegistryConsistent
<1>1. TableInv => RegistryConsistent
  BY DEF TableInv
<1> QED BY <1>1, TableInvariant, PTL

\* A struct that is being built or torn down belongs to one thread, and one in
\* the table to none: the unlocked accesses of spicedb_start and
\* spicedb_dispose never race (main.go 180-244, 423-443).
THEOREM OneOwner == InstancesSpec => []SoleOwner
<1>1. TableInv => SoleOwner
  BY DEF TableInv
<1> QED BY <1>1, TableInvariant, PTL

\* One step never brings a retired handle back.
LEMMA StepKeepsRetired ==
    ASSUME TableInv, TableInv', [InstancesNext]_instVars,
           NEW h \in Handle, NEW o \in Instance, inst[o].id = h,
           inst[o].stage \in {"disposing", "disposed", "failed"}
    PROVE  instances'[h] = NoInstance
<1>0. InstancesTypeOK /\ RegistryConsistent /\ SoleOwner
  BY DEF TableInv
<1>1. instances[h] = NoInstance
  <2>1. h # 0
    BY DEF Handle
  <2> QED BY <1>0, <2>1 DEF RegistryConsistent, InstancesTypeOK, OrNil
<1>2. CASE instances' = instances
  BY <1>1, <1>2
<1>3. CASE instances' # instances
  <2>1. ASSUME NEW t \in Thread, Publish(t)
        PROVE  instances'[h] = NoInstance
    <3>1. thread[t].op = "start" /\ thread[t].obj \in Instance
      BY <1>0, <2>1, PcDeterminesOp DEF Publish, At, StartPC
    <3>2. inst[thread[t].obj].stage = "starting"
      BY <1>0, <3>1, InstancesAssumption DEF SoleOwner
    <3>3. inst[thread[t].obj].id # h
      BY <1>0, <3>1, <3>2 DEF RegistryConsistent, Handle
    <3> QED BY <1>0, <1>1, <2>1, <3>3 DEF Publish, InstancesTypeOK
  <2>2. ASSUME NEW t \in Thread, HostCall(t)
        PROVE  instances'[h] = NoInstance
    BY <1>0, <1>1, <2>2 DEF HostCall, spicedb_start, spicedb_dispose, InstancesTypeOK
  <2>3. ASSUME NEW t \in Thread, StartStep(t)
        PROVE  instances'[h] = NoInstance
    BY <1>0, <1>3, <2>1, <2>3, StartStepFrame DEF Frame, AllocateID
  <2>4. ASSUME NEW t \in Thread, CleanupStep(t) \/ DisposeStep(t, TRUE)
        PROVE  instances'[h] = NoInstance
    BY <1>0, <1>3, <2>4, CleanupStepFrame, DisposeStepFrame DEF Frame
  <2>5. ASSUME NEW x \in Instance, GoroutineStep(x, TRUE) \/ ServerRunFails(x, TRUE)
        PROVE  instances'[h] = NoInstance
    BY <1>0, <1>3, <2>5, GoroutineFrame DEF Frame
  <2> QED BY <1>3, <2>2, <2>3, <2>4, <2>5 DEF InstancesNext, instVars
<1> QED BY <1>2, <1>3

\* A handle that was disposed of, or whose start failed, never leads anywhere
\* again: a stale handle cannot reach an instance started later (main.go 182).
THEOREM RetiredForGood == InstancesSpec => RetiredStaysRetired
<1>1. TableInv /\ TableInv' /\ [InstancesNext]_instVars =>
          [\A h \in Handle :
              (\E o \in Instance : /\ inst[o].id = h
                                   /\ inst[o].stage \in {"disposing", "disposed", "failed"})
              => instances'[h] = NoInstance]_instVars
  BY StepKeepsRetired
<1> QED BY <1>1, TableInvariant, PTL DEF InstancesSpec, RetiredStaysRetired

-----------------------------------------------------------------------------
\* What an instance holds, from the first step of its start to the last of its
\* dispose.

\* Run owns the datastore: it is open while Run runs and closed when Run is over.
Backend(s) ==
    \/ s.server = "running" /\ s.datastore = "open"
    \/ s.server = "exited" /\ s.datastore = "closed"

NoProxy(s) ==
    s.streamingServer = "none" /\ s.serve = "none" /\ s.streamingListener = "none"

ProxyUp(s) ==
    /\ s.streamingServer = "built"
    /\ s.serve \in {"spawned", "running"}
    /\ s.streamingListener = "open"

\* Tracing and metrics before they are set up, while they are up, and after
\* the metrics server was shut down.
Unobserved(s) == s.tracerProvider = "none" /\ s.metricsServer = "none"

Observed(s) ==
    /\ s.tracerProvider = IF UsesTracing(s.opts) THEN "active" ELSE "none"
    /\ s.metricsServer \in {"none", "spawned", "serving"}

MetricsDown(s) == s.metricsServer \in {"none", "shutdown"}

NothingBuilt(s) ==
    /\ s.datastore = "none" /\ s.server = "none" /\ s.clientConn = "none"
    /\ NoProxy(s) /\ Unobserved(s)

\* A published instance.
Ready(s) ==
    /\ s.ctx = "open" /\ s.failure = "none" /\ s.clientConn = "open"
    /\ Backend(s) /\ ProxyUp(s) /\ Observed(s)

\* A start that failed after it had built something and has stopped it again.
Stopped(s) ==
    /\ s.ctx = "cancelled"
    /\ NoProxy(s)
    /\ \/ /\ s.failure = "metrics" /\ s.clientConn = "none"
          /\ s.server = "created" /\ s.datastore = "open"
       \/ /\ s.failure = "client" /\ s.clientConn = "none"
          /\ s.server = "exited" /\ s.datastore = "closed"
       \/ /\ s.failure \in {"remove", "listen"} /\ s.clientConn = "open"
          /\ s.server = "exited" /\ s.datastore = "closed"

\* A struct that no thread is working on.
AtRest(s) ==
    /\ s.stage = "unused" => NothingBuilt(s) /\ s.failure = "none" /\ s.ctx = "none"
    /\ s.stage = "live" => Ready(s)
    /\ s.stage = "failed" => /\ s.ctx # "open"
                             /\ s.server # "running"
                             /\ NoProxy(s)
                             /\ s.tracerProvider # "active"
                             /\ MetricsDown(s)
                             /\ s.datastore = "open" => s.failure \in {"server", "otel", "metrics"}
                             /\ s.clientConn = "open" => s.failure \in {"remove", "listen"}
    /\ s.stage = "disposed" => /\ s.ctx = "cancelled" /\ s.failure = "none"
                               /\ s.server = "exited" /\ s.datastore = "closed"
                               /\ s.streamingServer = "stopped"
                               /\ s.serve = "exited" /\ s.streamingListener = "closed"
                               /\ s.clientConn = "closed"
                               /\ s.tracerProvider # "active"
                               /\ MetricsDown(s)

\* A struct that spicedb_start is building, at pc.
Building(s, pc) ==
    /\ pc \in {"alloc", "datastore"} => NothingBuilt(s)
    /\ pc \in {"alloc", "datastore", "server", "otelGet", "otelSet", "metrics", "run",
               "client", "proxy", "publish"} => s.ctx = "open" /\ s.failure = "none"
    /\ pc \in {"server", "otelGet", "otelSet"} => Unobserved(s)
    /\ pc \in {"server", "otelGet", "otelSet", "metrics", "run"} =>
           s.datastore = "open" /\ s.clientConn = "none" /\ NoProxy(s)
    /\ pc = "server" => s.server = "none"
    /\ pc \in {"otelGet", "otelSet", "metrics", "run"} => s.server = "created"
    /\ pc \in {"otelGet", "otelSet"} => UsesTracing(s.opts)
    /\ pc \in {"metrics", "run", "client", "proxy", "publish", "failWait", "cleanup"} => Observed(s)
    /\ pc \in {"client", "proxy", "publish", "failWait"} => Backend(s)
    /\ pc = "metrics" => UsesMetricsPort(s.opts)
    /\ pc = "client" => s.clientConn = "none" /\ NoProxy(s)
    /\ pc = "proxy" => s.clientConn = "open" /\ NoProxy(s)
    /\ pc = "publish" => s.clientConn = "open" /\ ProxyUp(s)
    /\ pc = "failWait" => /\ s.ctx = "cancelled" /\ NoProxy(s)
                          /\ \/ s.failure = "client" /\ s.clientConn = "none"
                             \/ s.failure \in {"remove", "listen"} /\ s.clientConn = "open"
    /\ pc \in CleanupPC => Stopped(s)
    /\ pc \in {"tracerShutdown", "tracerRestore"} => MetricsDown(s)
    /\ pc = "tracerShutdown" => s.tracerProvider = "active"
    /\ pc = "tracerRestore" => s.tracerProvider = "shutdown"

\* A struct that spicedb_dispose is tearing down, at pc.
Closing(s, pc) ==
    /\ s.failure = "none"
    /\ Backend(s)
    /\ pc = "cancel" => Ready(s)
    /\ pc # "cancel" => s.ctx = "cancelled"
    /\ pc = "closeConn" => s.clientConn = "open"
    /\ pc \notin {"cancel", "closeConn"} => s.clientConn = "closed"
    /\ pc \in {"closeConn", "gracefulStop"} => ProxyUp(s)
    /\ pc \in {"graceWait", "closeListener", "wait"} => s.serve \in {"spawned", "running", "exited"}
    /\ pc = "graceWait" => s.streamingServer = "stopping"
    /\ pc \in CleanupPC \cup {"closeListener", "wait", "removeSocket"} => s.streamingServer = "stopped"
    /\ pc \in CleanupPC \cup {"wait", "removeSocket"} => s.streamingListener = "closed"
    /\ pc \in CleanupPC \cup {"removeSocket"} => s.server = "exited" /\ s.serve = "exited"
    /\ pc \in DisposePC \cup {"cleanup"} => pc = "removeSocket" \/ Observed(s)
    /\ pc \in {"tracerShutdown", "tracerRestore", "removeSocket"} => MetricsDown(s)
    /\ pc = "tracerShutdown" => s.tracerProvider = "active"
    /\ pc = "tracerRestore" => s.tracerProvider = "shutdown"
    /\ pc = "removeSocket" => s.tracerProvider # "active"

\* What an instance has outside the process: its socket file is there exactly
\* while its listener is open, or one that could not be removed; and it has a
\* port only with a metrics server.
Outside(s, files) ==
    /\ s.streamingListener = "open" => s.id \in files
    /\ s.streamingListener = "closed" => s.id \notin files
    /\ s.failure = "listen" => s.id \notin files
    /\ s.failure = "remove" => s.id \in files /\ s.serve = "none"
    /\ s.metricsServer # "none" => UsesMetricsPort(s.opts)
    /\ s.metricsPort = "bound" => s.metricsServer # "none"

\* The inductive invariant, beside TableInv.
LifeInv ==
    /\ \A o \in Instance : AtRest(inst[o])
    /\ \A t \in Thread : thread[t].op = "start" => Building(inst[thread[t].obj], thread[t].pc)
    /\ \A t \in Thread : thread[t].op = "dispose" => Closing(inst[thread[t].obj], thread[t].pc)
    /\ \A o \in Instance : Outside(inst[o], sock)

LEMMA GotoMoves ==
    ASSUME InstancesTypeOK, NEW t \in Thread, NEW next, Goto(t, next)
    PROVE  /\ thread'[t].op = thread[t].op /\ thread'[t].obj = thread[t].obj
           /\ thread'[t].pc = next
           /\ \A u \in Thread \ {t} : thread'[u] = thread[u]
<1>1. thread[t] \in ThreadStates
  BY DEF InstancesTypeOK
<1> QED BY <1>1 DEF Goto, InstancesTypeOK, ThreadStates

\* Binding, unbinding or removing one instance's socket path leaves the socket
\* files of the others alone: handles are unique.
LEMMA OthersKeepSocket ==
    ASSUME TableInv, TableInv', NEW me \in Instance, NEW x \in Instance \ {me},
           sock' \in {sock, sock \ {inst[me].id}, sock \cup {inst[me].id}},
           Outside(inst[x], sock)
    PROVE  Outside(inst[x], sock')
<1>1. sock \subseteq Handle /\ sock' \subseteq Handle /\ 0 \notin Handle
  BY DEF TableInv, InstancesTypeOK, Handle
<1>2. inst[me].id # 0 => inst[x].id # inst[me].id
  BY DEF TableInv, RegistryConsistent
<1>3. inst[x].id \in sock' <=> inst[x].id \in sock
  BY <1>1, <1>2
<1> QED BY <1>3 DEF Outside

\* What it takes for a step of thread t, which changes the struct me only, to
\* preserve the invariant.
LEMMA LifeStep ==
    ASSUME TableInv, TableInv', LifeInv,
           NEW t \in Thread, NEW me \in Instance, NEW r,
           \A u \in Thread \ {t} : thread'[u] = thread[u] /\ thread[u].obj # me,
           inst' = [inst EXCEPT ![me] = r],
           sock' \in {sock, sock \ {inst[me].id}, sock \cup {inst[me].id}},
           AtRest(r),
           Outside(r, sock'),
           thread'[t].op = "start" => thread'[t].obj = me /\ Building(r, thread'[t].pc),
           thread'[t].op = "dispose" => thread'[t].obj = me /\ Closing(r, thread'[t].pc)
    PROVE  LifeInv'
<1>1. inst'[me] = r /\ \A x \in Instance \ {me} : inst'[x] = inst[x]
  BY DEF TableInv, InstancesTypeOK
<1>2. \A u \in Thread : thread[u].op \in {"start", "dispose"} => thread[u].obj \in Instance
  BY PcDeterminesOp DEF TableInv
<1>3. \A o \in Instance : AtRest(inst'[o])
  BY <1>1 DEF LifeInv
<1>4. \A o \in Instance : Outside(inst'[o], sock')
  BY <1>1, OthersKeepSocket DEF LifeInv
<1>5. \A u \in Thread : thread'[u].op = "start" => Building(inst'[thread'[u].obj], thread'[u].pc)
  BY <1>1, <1>2 DEF LifeInv
<1>6. \A u \in Thread : thread'[u].op = "dispose" => Closing(inst'[thread'[u].obj], thread'[u].pc)
  BY <1>1, <1>2 DEF LifeInv
<1> QED BY <1>3, <1>4, <1>5, <1>6 DEF LifeInv

\* ... when t goes on inside its call,
LEMMA LifeGoto ==
    ASSUME TableInv, TableInv', LifeInv,
           NEW t \in Thread, thread[t].obj \in Instance, NEW next, NEW r,
           Goto(t, next),
           inst' = [inst EXCEPT ![thread[t].obj] = r],
           sock' \in {sock, sock \ {inst[thread[t].obj].id}, sock \cup {inst[thread[t].obj].id}},
           r.stage = inst[thread[t].obj].stage,
           Outside(r, sock'),
           thread[t].op = "start" => Building(r, next),
           thread[t].op = "dispose" => Closing(r, next)
    PROVE  LifeInv'
<1>1. thread[t].obj # NoInstance
  BY InstancesAssumption
<1>2. r.stage \in {"starting", "disposing"}
  BY <1>1 DEF TableInv, SoleOwner
<1>3. AtRest(r)
  BY <1>2 DEF AtRest
<1>4. \A u \in Thread \ {t} : thread[u].obj # thread[t].obj
  BY <1>1 DEF TableInv, SoleOwner
<1>5. /\ thread'[t].op = thread[t].op /\ thread'[t].obj = thread[t].obj
      /\ thread'[t].pc = next
      /\ \A u \in Thread \ {t} : thread'[u] = thread[u] /\ thread[u].obj # thread[t].obj
  BY <1>4, GotoMoves DEF TableInv
<1> QED BY <1>3, <1>5, LifeStep

\* ... and when its call returns.
LEMMA LifeReturn ==
    ASSUME TableInv, TableInv', LifeInv,
           NEW t \in Thread, thread[t].obj \in Instance, NEW res, NEW r,
           Return(t, res),
           inst' = [inst EXCEPT ![thread[t].obj] = r],
           sock' \in {sock, sock \ {inst[thread[t].obj].id}, sock \cup {inst[thread[t].obj].id}},
           AtRest(r),
           Outside(r, sock')
    PROVE  LifeInv'
<1>1. thread[t].obj # NoInstance
  BY InstancesAssumption
<1>4. \A u \in Thread \ {t} : thread[u].obj # thread[t].obj
  BY <1>1 DEF TableInv, SoleOwner
<1>5. /\ thread'[t].op = "none"
      /\ \A u \in Thread \ {t} : thread'[u] = thread[u] /\ thread[u].obj # thread[t].obj
  BY <1>4, ThreadReturn DEF TableInv
<1> QED BY <1>5, LifeStep

LEMMA InitLife == InstancesInit => LifeInv
<1> SUFFICES ASSUME InstancesInit PROVE LifeInv
  OBVIOUS
<1>1. \A o \in Instance : inst[o] = NewInstance
  BY DEF InstancesInit
<1>2. \A t \in Thread : thread[t].op = "none"
  BY DEF InstancesInit, Idle
<1>3. AtRest(NewInstance) /\ Outside(NewInstance, sock)
  BY DEF NewInstance, AtRest, Outside, NothingBuilt, NoProxy, Unobserved
<1> QED BY <1>1, <1>2, <1>3 DEF LifeInv

LEMMA LifeFailAtOnce ==
    ASSUME TableInv, TableInv', LifeInv, NEW t \in Thread, thread[t].obj \in Instance,
           NEW kind, FailAtOnce(t, kind), kind \notin {"remove", "listen"},
           inst[thread[t].obj].clientConn = "none", NoProxy(inst[thread[t].obj]),
           Unobserved(inst[thread[t].obj]), inst[thread[t].obj].server # "running",
           inst[thread[t].obj].datastore = "open" => kind \in {"server", "otel"}
    PROVE  LifeInv'
<1> DEFINE s == inst[thread[t].obj]
           r == [s EXCEPT !.ctx = "cancelled", !.stage = "failed", !.failure = kind]
<1>0. s \in InstanceFields
  BY DEF TableInv, InstancesTypeOK
<1>1. inst' = [inst EXCEPT ![thread[t].obj] = r] /\ Return(t, "error") /\ UNCHANGED sock
  BY DEF FailAtOnce, TableInv, InstancesTypeOK
<1>2. AtRest(r) /\ Outside(r, sock)
  BY <1>0 DEF LifeInv, AtRest, Outside, NoProxy, Unobserved, MetricsDown, InstanceFields
<1> QED BY <1>1, <1>2, LifeReturn

LEMMA StartLife ==
    ASSUME TableInv, TableInv', LifeInv, NEW t \in Thread, StartStep(t)
    PROVE  LifeInv'
<1> DEFINE me == thread[t].obj
           s == inst[me]
<1>0. thread[t].op = "start" /\ me \in Instance /\ s \in InstanceFields
  BY StartStepFrame DEF TableInv, InstancesTypeOK
<1>1. Building(s, thread[t].pc) /\ Outside(s, sock) /\ s.stage = "starting"
  BY <1>0, InstancesAssumption DEF LifeInv, TableInv, SoleOwner
<1>2. CASE AllocateID(t)
  <2> DEFINE r == [s EXCEPT !.id = nextID + 1]
  <2>1. inst' = [inst EXCEPT ![me] = r] /\ Goto(t, "datastore") /\ UNCHANGED sock /\ thread[t].pc = "alloc"
    BY <1>0, <1>2 DEF AllocateID, At, TableInv, InstancesTypeOK
  <2>2. r.stage = s.stage /\ Outside(r, sock) /\ Building(r, "datastore")
    BY <1>0, <1>1, <2>1 DEF Building, NothingBuilt, NoProxy, Unobserved, Observed, Backend, ProxyUp, Stopped, CleanupPC, Outside, InstanceFields
  <2> QED BY <1>0, <2>1, <2>2, LifeGoto
<1>3. CASE newDatastoreFromOpts(t)
  <2>a. thread[t].pc = "datastore"
    BY <1>3 DEF newDatastoreFromOpts, At
  <2>b. CASE FailAtOnce(t, "datastore")
    <3>1. s.failure = "none" /\ s.clientConn = "none" /\ NoProxy(s) /\ Unobserved(s) /\ s.server # "running"
          /\ (s.datastore = "open" => "datastore" \in {"server", "otel"})
      BY <1>1, <2>a DEF Building, NothingBuilt
    <3> QED BY <1>0, <1>1, <2>b, <3>1, LifeFailAtOnce
  <2>c. CASE ~FailAtOnce(t, "datastore")
    <3> DEFINE r == [s EXCEPT !.datastore = "open"]
    <3>1. inst' = [inst EXCEPT ![me] = r] /\ Goto(t, "server") /\ UNCHANGED sock
      BY <1>0, <1>3, <2>c DEF newDatastoreFromOpts, TableInv, InstancesTypeOK
    <3>2. r.stage = s.stage /\ Outside(r, sock) /\ Building(r, "server")
      BY <1>0, <1>1, <2>a DEF Building, NothingBuilt, NoProxy, Unobserved, Observed, Backend, ProxyUp, Stopped, CleanupPC, Outside, InstanceFields
    <3> QED BY <1>0, <3>1, <3>2, LifeGoto
  <2> QED BY <2>b, <2>c
<1>4. CASE newSpiceDBServerFromDatastore(t)
  <2>a. thread[t].pc = "server"
    BY <1>4 DEF newSpiceDBServerFromDatastore, At
  <2>b. CASE FailAtOnce(t, "server")
    <3>1. s.failure = "none" /\ s.clientConn = "none" /\ NoProxy(s) /\ Unobserved(s) /\ s.server # "running"
          /\ (s.datastore = "open" => "server" \in {"server", "otel"})
      BY <1>1, <2>a DEF Building, NothingBuilt
    <3> QED BY <1>0, <1>1, <2>b, <3>1, LifeFailAtOnce
  <2>c. CASE ~FailAtOnce(t, "server")
    <3> DEFINE r == [s EXCEPT !.server = "created"]
    <3>1. inst' = [inst EXCEPT ![me] = r] /\ Goto(t, AfterServer(s.opts)) /\ UNCHANGED sock
      BY <1>0, <1>4, <2>c DEF newSpiceDBServerFromDatastore, TableInv, InstancesTypeOK
    <3>2. r.stage = s.stage /\ Outside(r, sock) /\ Building(r, AfterServer(s.opts))
      BY <1>0, <1>1, <2>a DEF Building, NothingBuilt, NoProxy, Unobserved, Observed, Backend, ProxyUp, Stopped, CleanupPC, Outside, InstanceFields, AfterServer
    <3> QED BY <1>0, <3>1, <3>2, LifeGoto
  <2> QED BY <2>b, <2>c
<1>5. CASE otelGet(t)
  <2>a. thread[t].pc = "otelGet"
    BY <1>5 DEF otelGet, At
  <2>b. CASE FailAtOnce(t, "otel")
    <3>1. s.failure = "none" /\ s.clientConn = "none" /\ NoProxy(s) /\ Unobserved(s) /\ s.server # "running"
          /\ (s.datastore = "open" => "otel" \in {"server", "otel"})
      BY <1>1, <2>a DEF Building, NothingBuilt
    <3> QED BY <1>0, <1>1, <2>b, <3>1, LifeFailAtOnce
  <2>c. CASE ~FailAtOnce(t, "otel")
    <3> DEFINE r == [s EXCEPT !.prevTracerProvider = globalTP]
    <3>1. inst' = [inst EXCEPT ![me] = r] /\ Goto(t, "otelSet") /\ UNCHANGED sock
      BY <1>0, <1>5, <2>c DEF otelGet, TableInv, InstancesTypeOK
    <3>2. r.stage = s.stage /\ Outside(r, sock) /\ Building(r, "otelSet")
      BY <1>0, <1>1, <2>a DEF Building, NothingBuilt, NoProxy, Unobserved, Observed, Backend, ProxyUp, Stopped, CleanupPC, Outside, InstanceFields
    <3> QED BY <1>0, <3>1, <3>2, LifeGoto
  <2> QED BY <2>b, <2>c
<1>6. CASE otelSet(t)
  <2> DEFINE r == [s EXCEPT !.tracerProvider = "active"]
  <2>1. inst' = [inst EXCEPT ![me] = r] /\ Goto(t, AfterTracing(s.opts)) /\ UNCHANGED sock /\ thread[t].pc = "otelSet"
    BY <1>0, <1>6 DEF otelSet, At, TableInv, InstancesTypeOK
  <2>2. r.stage = s.stage /\ Outside(r, sock) /\ Building(r, AfterTracing(s.opts))
    BY <1>0, <1>1, <2>1 DEF Building, NothingBuilt, NoProxy, Unobserved, Observed, Backend, ProxyUp, Stopped, CleanupPC, Outside, InstanceFields, AfterTracing
  <2> QED BY <1>0, <2>1, <2>2, LifeGoto
<1>7. CASE startMetricsServer(t)
  <2>a. thread[t].pc = "metrics" /\ UNCHANGED sock
    BY <1>7 DEF startMetricsServer, At
  <2>b. CASE inst' = [inst EXCEPT ![me].ctx = "cancelled", ![me].failure = "metrics"] /\ Goto(t, "cleanup")
    <3> DEFINE r == [s EXCEPT !.ctx = "cancelled", !.failure = "metrics"]
    <3>1. inst' = [inst EXCEPT ![me] = r]
      BY <1>0, <2>b DEF TableInv, InstancesTypeOK
    <3>2. r.stage = s.stage /\ Outside(r, sock) /\ Building(r, "cleanup")
      BY <1>0, <1>1, <2>a DEF Building, NothingBuilt, NoProxy, Unobserved, Observed, Backend, ProxyUp, Stopped, CleanupPC, Outside, InstanceFields
    <3> QED BY <1>0, <2>a, <2>b, <3>1, <3>2, LifeGoto
  <2>c. CASE inst' = [inst EXCEPT ![me].metricsServer = "spawned", ![me].metricsPort = "bound"] /\ Goto(t, "run")
    <3> DEFINE r == [s EXCEPT !.metricsServer = "spawned", !.metricsPort = "bound"]
    <3>1. inst' = [inst EXCEPT ![me] = r]
      BY <1>0, <2>c DEF TableInv, InstancesTypeOK
    <3>2. r.stage = s.stage /\ Outside(r, sock) /\ Building(r, "run")
      BY <1>0, <1>1, <2>a DEF Building, NothingBuilt, NoProxy, Unobserved, Observed, Backend, ProxyUp, Stopped, CleanupPC, Outside, InstanceFields
    <3> QED BY <1>0, <2>a, <2>c, <3>1, <3>2, LifeGoto
  <2> QED BY <1>7, <2>b, <2>c DEF startMetricsServer
<1>8. CASE RunServer(t)
  <2> DEFINE r == [s EXCEPT !.server = "running"]
  <2>1. inst' = [inst EXCEPT ![me] = r] /\ Goto(t, "client") /\ UNCHANGED sock /\ thread[t].pc = "run"
    BY <1>0, <1>8 DEF RunServer, At, TableInv, InstancesTypeOK
  <2>2. r.stage = s.stage /\ Outside(r, sock) /\ Building(r, "client")
    BY <1>0, <1>1, <2>1 DEF Building, NothingBuilt, NoProxy, Unobserved, Observed, Backend, ProxyUp, Stopped, CleanupPC, Outside, InstanceFields
  <2> QED BY <1>0, <2>1, <2>2, LifeGoto
<1>9. ASSUME NEW kind \in {"client", "remove", "listen"}, FailAndWait(t, kind),
              thread[t].pc = IF kind = "client" THEN "client" ELSE "proxy",
              sock' \in {sock, sock \ {s.id}},
              kind = "remove" => s.id \in sock',
              kind = "listen" => s.id \notin sock',
              kind = "client" => sock' = sock
      PROVE  LifeInv'
  <2> DEFINE r == [s EXCEPT !.ctx = "cancelled", !.failure = kind]
  <2>1. inst' = [inst EXCEPT ![me] = r] /\ Goto(t, "failWait")
    BY <1>0, <1>9 DEF FailAndWait, TableInv, InstancesTypeOK
  <2>2. r.stage = s.stage /\ Outside(r, sock') /\ Building(r, "failWait")
    BY <1>0, <1>1, <1>9 DEF Building, NothingBuilt, NoProxy, Unobserved, Observed, Backend, ProxyUp, Stopped, CleanupPC, Outside, InstanceFields
  <2> QED BY <1>0, <1>9, <2>1, <2>2, LifeGoto
<1>10. CASE NewClient(t)
  <2>a. thread[t].pc = "client" /\ UNCHANGED sock
    BY <1>10 DEF NewClient, At
  <2>b. CASE FailAndWait(t, "client")
    BY <1>9, <2>a, <2>b
  <2>c. CASE ~FailAndWait(t, "client")
    <3> DEFINE r == [s EXCEPT !.clientConn = "open"]
    <3>1. inst' = [inst EXCEPT ![me] = r] /\ Goto(t, "proxy")
      BY <1>0, <1>10, <2>c DEF NewClient, TableInv, InstancesTypeOK
    <3>2. r.stage = s.stage /\ Outside(r, sock) /\ Building(r, "proxy")
      BY <1>0, <1>1, <2>a DEF Building, NothingBuilt, NoProxy, Unobserved, Observed, Backend, ProxyUp, Stopped, CleanupPC, Outside, InstanceFields
    <3> QED BY <1>0, <2>a, <3>1, <3>2, LifeGoto
  <2> QED BY <2>b, <2>c
<1>11. CASE startStreamingProxy(t)
  <2>a. thread[t].pc = "proxy"
    BY <1>11 DEF startStreamingProxy, At
  <2>b. CASE \E kind \in {"remove", "listen"} :
                /\ FailAndWait(t, kind)
                /\ sock' \in {sock, sock \ {s.id}}
                /\ s.id \in sock' <=> kind = "remove"
    BY <1>9, <2>a, <2>b
  <2>c. CASE Goto(t, "publish")
    <3> DEFINE r == [s EXCEPT !.streamingListener = "open", !.streamingServer = "built",
                              !.serve = "spawned"]
    <3>0. \A kind : ~FailAndWait(t, kind)
      BY <2>c, GotoMoves DEF FailAndWait, TableInv
    <3>1. inst' = [inst EXCEPT ![me] = r] /\ Goto(t, "publish") /\ sock' = sock \cup {s.id}
      BY <1>0, <1>11, <2>c, <3>0 DEF startStreamingProxy, ClearSocketPath, TableInv, InstancesTypeOK
    <3>2. r.stage = s.stage /\ Outside(r, sock') /\ Building(r, "publish")
      BY <1>0, <1>1, <2>a, <3>1 DEF Building, NothingBuilt, NoProxy, Unobserved, Observed, Backend, ProxyUp, Stopped, CleanupPC, Outside, InstanceFields
    <3> QED BY <1>0, <2>a, <3>1, <3>2, LifeGoto
  <2> QED
    <3>1. PICK removes \in BOOLEAN :
            LET left == IF removes THEN ClearSocketPath(s.id) ELSE sock IN
            \/ /\ sock' = left
               /\ FailAndWait(t, IF s.id \in left /\ ~removes THEN "remove" ELSE "listen")
            \/ Goto(t, "publish")
      BY <1>11 DEF startStreamingProxy
    <3>2. CASE Goto(t, "publish")
      BY <2>c, <3>2
    <3>3. CASE ~Goto(t, "publish") /\ removes
      BY <2>b, <3>1, <3>3 DEF ClearSocketPath
    <3>4. CASE ~Goto(t, "publish") /\ ~removes
      BY <2>b, <3>1, <3>4 DEF ClearSocketPath
    <3> QED BY <3>2, <3>3, <3>4
<1>12. CASE Publish(t)
  <2> DEFINE r == [s EXCEPT !.stage = "live"]
  <2>1. inst' = [inst EXCEPT ![me] = r] /\ Return(t, "ok") /\ UNCHANGED sock /\ thread[t].pc = "publish"
    BY <1>0, <1>12 DEF Publish, At, TableInv, InstancesTypeOK
  <2>2. AtRest(r) /\ Outside(r, sock)
    BY <1>0, <1>1, <2>1 DEF AtRest, Ready, Building, NothingBuilt, NoProxy, Unobserved, Observed, Backend, ProxyUp, Stopped, CleanupPC, Outside, InstanceFields
  <2> QED BY <1>0, <2>1, <2>2, LifeReturn
<1>13. CASE FailWait(t)
  <2>1. inst' = [inst EXCEPT ![me] = s] /\ Goto(t, "cleanup") /\ UNCHANGED sock
        /\ thread[t].pc = "failWait" /\ s.server = "exited"
    BY <1>0, <1>13 DEF FailWait, At, TableInv, InstancesTypeOK
  <2>2. Building(s, "cleanup")
    BY <1>0, <1>1, <2>1 DEF Building, NothingBuilt, NoProxy, Unobserved, Observed, Backend, ProxyUp, Stopped, CleanupPC, Outside, InstanceFields
  <2> QED BY <1>0, <1>1, <2>1, <2>2, LifeGoto
<1> QED BY <1>2, <1>3, <1>4, <1>5, <1>6, <1>7, <1>8, <1>10, <1>11, <1>12, <1>13 DEF StartStep

\* Either caller of cleanupObservability, when it has shut everything down.
LEMMA LifeLeaveCleanup ==
    ASSUME TableInv, TableInv', LifeInv, NEW t \in Thread, thread[t].obj \in Instance,
           NEW r \in InstanceFields, LeaveCleanup(t, r), UNCHANGED sock,
           r.stage = inst[thread[t].obj].stage, Outside(r, sock),
           MetricsDown(r), r.tracerProvider # "active",
           thread[t].op = "start" => Stopped(r),
           thread[t].op = "dispose" => Closing(r, "removeSocket")
    PROVE  LifeInv'
<1>1. CASE thread[t].op = "start"
  <2> DEFINE f == [r EXCEPT !.stage = "failed"]
  <2>1. inst' = [inst EXCEPT ![thread[t].obj] = f] /\ Return(t, "error")
    BY <1>1 DEF LeaveCleanup
  <2>2. AtRest(f) /\ Outside(f, sock)
    BY <1>1 DEF AtRest, Stopped, NoProxy, MetricsDown, Outside, InstanceFields
  <2> QED BY <2>1, <2>2, LifeReturn
<1>2. CASE thread[t].op = "dispose"
  <2>1. inst' = [inst EXCEPT ![thread[t].obj] = r] /\ Goto(t, "removeSocket")
    BY <1>2 DEF LeaveCleanup
  <2> QED BY <1>2, <2>1, LifeGoto
<1> QED BY <1>1, <1>2 DEF LeaveCleanup

LEMMA CleanupLife ==
    ASSUME TableInv, TableInv', LifeInv, NEW t \in Thread, CleanupStep(t)
    PROVE  LifeInv'
<1> DEFINE me == thread[t].obj
           s == inst[me]
<1>0. thread[t].op \in {"start", "dispose"} /\ me \in Instance /\ s \in InstanceFields
  <2>1. thread[t].pc \in CleanupPC
    BY DEF CleanupStep, CleanupMetrics, TracerShutdown, TracerRestore, At, CleanupPC
  <2> QED BY <2>1, PcDeterminesOp DEF TableInv, InstancesTypeOK
<1>1. /\ thread[t].op = "start" => Building(s, thread[t].pc)
      /\ thread[t].op = "dispose" => Closing(s, thread[t].pc)
      /\ Outside(s, sock)
  BY <1>0 DEF LifeInv
<1>2. CASE CleanupMetrics(t)
  <2> DEFINE r == ShutdownMetrics(s)
  <2>a. thread[t].pc = "cleanup" /\ UNCHANGED sock
    BY <1>2 DEF CleanupMetrics, At
  <2>b. r \in InstanceFields
    BY <1>0, ShutdownMetricsType
  <2>c. /\ r.stage = s.stage /\ r.id = s.id /\ r.failure = s.failure /\ r.ctx = s.ctx
        /\ r.server = s.server /\ r.datastore = s.datastore /\ r.clientConn = s.clientConn
        /\ r.streamingServer = s.streamingServer /\ r.serve = s.serve
        /\ r.streamingListener = s.streamingListener /\ r.tracerProvider = s.tracerProvider
        /\ MetricsDown(r)
    BY <1>0 DEF ShutdownMetrics, InstanceFields, MetricsDown
  <2>d. \/ r.tracerProvider = "none" /\ LeaveCleanup(t, r)
        \/ r.tracerProvider # "none" /\ inst' = [inst EXCEPT ![me] = r] /\ Goto(t, "tracerShutdown")
    BY <1>2 DEF CleanupMetrics
  <2>e. s.tracerProvider \in {"none", "active"}
    BY <1>0, <1>1, <2>a DEF Building, Closing, Observed
  <2> HIDE DEF r
  <2>1. Outside(r, sock)
    <3>1. CASE s.metricsServer = "none"
      BY <1>1, <3>1 DEF ShutdownMetrics, r
    <3>2. CASE s.metricsServer # "none"
      <4>1. r.opts = s.opts /\ r.metricsServer # "none"
        BY <1>0, <3>2 DEF ShutdownMetrics, InstanceFields, r
      <4> QED BY <1>1, <2>c, <3>2, <4>1 DEF Outside
    <3> QED BY <3>1, <3>2
  <2>2. thread[t].op = "start" => Stopped(r)
    BY <1>1, <2>a, <2>c DEF Building, Stopped, NoProxy, CleanupPC
  <2>3. CASE r.tracerProvider = "none" /\ LeaveCleanup(t, r)
    <3>1. thread[t].op = "dispose" => Closing(r, "removeSocket")
      BY <1>1, <2>a, <2>c, <2>3 DEF Closing, Ready, Backend, ProxyUp, Observed, MetricsDown, DisposePC, CleanupPC, Outside, InstanceFields
    <3> QED BY <1>0, <2>1, <2>2, <2>3, <2>a, <2>b, <2>c, <3>1, LifeLeaveCleanup
  <2>4. CASE r.tracerProvider # "none" /\ inst' = [inst EXCEPT ![me] = r] /\ Goto(t, "tracerShutdown")
    <3>1. thread[t].op = "start" => Building(r, "tracerShutdown")
      BY <2>2, <2>4, <2>c, <2>e DEF Building
    <3>2. thread[t].op = "dispose" => Closing(r, "tracerShutdown")
      BY <1>1, <2>a, <2>c, <2>e, <2>4 DEF Closing, Ready, Backend, ProxyUp, Observed, MetricsDown, DisposePC, CleanupPC, Outside, InstanceFields
    <3> QED BY <1>0, <2>1, <2>4, <2>a, <2>c, <3>1, <3>2, LifeGoto
  <2> QED BY <2>3, <2>4, <2>d
<1>3. CASE TracerShutdown(t)
  <2> DEFINE r == [s EXCEPT !.tracerProvider = "shutdown"]
  <2>1. /\ inst' = [inst EXCEPT ![me] = r] /\ Goto(t, "tracerRestore")
        /\ UNCHANGED sock /\ thread[t].pc = "tracerShutdown"
    BY <1>0, <1>3 DEF TracerShutdown, At, TableInv, InstancesTypeOK
  <2>2. r.stage = s.stage /\ Outside(r, sock)
    BY <1>0, <1>1 DEF Outside, InstanceFields
  <2>3. thread[t].op = "start" => Building(r, "tracerRestore")
    BY <1>0, <1>1, <2>1 DEF Building, Stopped, NoProxy, Observed, MetricsDown, CleanupPC, Outside, InstanceFields
  <2>4. thread[t].op = "dispose" => Closing(r, "tracerRestore")
    BY <1>0, <1>1, <2>1 DEF Closing, Ready, Backend, ProxyUp, Observed, MetricsDown, DisposePC, CleanupPC, Outside, InstanceFields
  <2> QED BY <1>0, <2>1, <2>2, <2>3, <2>4, LifeGoto
<1>4. CASE TracerRestore(t)
  <2>1. LeaveCleanup(t, s) /\ UNCHANGED sock /\ thread[t].pc = "tracerRestore"
    BY <1>4 DEF TracerRestore, At
  <2>2. MetricsDown(s) /\ s.tracerProvider # "active"
    BY <1>0, <1>1, <2>1 DEF Building, Closing
  <2>3. thread[t].op = "start" => Stopped(s)
    BY <1>1, <2>1 DEF Building, CleanupPC
  <2>4. thread[t].op = "dispose" => Closing(s, "removeSocket")
    BY <1>1, <2>1 DEF Closing, Ready, Backend, ProxyUp, Observed, MetricsDown, DisposePC, CleanupPC, Outside, InstanceFields
  <2> QED BY <1>0, <1>1, <2>1, <2>2, <2>3, <2>4, LifeLeaveCleanup
<1> QED BY <1>2, <1>3, <1>4 DEF CleanupStep

LEMMA DisposeLife ==
    ASSUME TableInv, TableInv', LifeInv, NEW t \in Thread, NEW drained, DisposeStep(t, drained)
    PROVE  LifeInv'
<1> DEFINE me == thread[t].obj
           s == inst[me]
<1>0. thread[t].op = "dispose" /\ me \in Instance /\ s \in InstanceFields
  <2>1. thread[t].pc \in DisposePC
    BY DEF DisposeStep, Cancel, CloseConn, GracefulStop, GracefulStopReturns,
           CloseListener, DisposeWait, RemoveSocket, At, DisposePC
  <2> QED BY <2>1, PcDeterminesOp DEF TableInv, InstancesTypeOK
<1>1. Closing(s, thread[t].pc) /\ Outside(s, sock)
  BY <1>0 DEF LifeInv
<1>2. CASE Cancel(t)
  <2> DEFINE r == [s EXCEPT !.ctx = "cancelled"]
  <2>1. /\ inst' = [inst EXCEPT ![me] = r] /\ Goto(t, "closeConn")
        /\ UNCHANGED sock /\ thread[t].pc = "cancel"
    BY <1>0, <1>2 DEF Cancel, At, TableInv, InstancesTypeOK
  <2>2. r.stage = s.stage /\ Outside(r, sock') /\ Closing(r, "closeConn")
    BY <1>0, <1>1, <2>1 DEF Closing, Ready, Backend, ProxyUp, Observed, MetricsDown, DisposePC, CleanupPC, Outside, InstanceFields
  <2> QED BY <1>0, <2>1, <2>2, LifeGoto
<1>3. CASE CloseConn(t)
  <2> DEFINE r == [s EXCEPT !.clientConn = "closed"]
  <2>1. /\ inst' = [inst EXCEPT ![me] = r] /\ Goto(t, "gracefulStop")
        /\ UNCHANGED sock /\ thread[t].pc = "closeConn"
    BY <1>0, <1>3 DEF CloseConn, At, TableInv, InstancesTypeOK
  <2>2. r.stage = s.stage /\ Outside(r, sock') /\ Closing(r, "gracefulStop")
    BY <1>0, <1>1, <2>1 DEF Closing, Ready, Backend, ProxyUp, Observed, MetricsDown, DisposePC, CleanupPC, Outside, InstanceFields
  <2> QED BY <1>0, <2>1, <2>2, LifeGoto
<1>4. CASE GracefulStop(t)
  <2>a. Goto(t, "graceWait") /\ thread[t].pc = "gracefulStop"
    BY <1>4 DEF GracefulStop, At
  <2>b. CASE s.serve = "running"
    <3> DEFINE r == [s EXCEPT !.streamingServer = "stopping", !.streamingListener = "closed"]
    <3>1. inst' = [inst EXCEPT ![me] = r] /\ sock' = sock \ {s.id}
      BY <1>0, <1>4, <2>b DEF GracefulStop, TableInv, InstancesTypeOK
    <3>2. r.stage = s.stage /\ Outside(r, sock') /\ Closing(r, "graceWait")
      BY <1>0, <1>1, <2>a, <3>1 DEF Closing, Ready, Backend, ProxyUp, Observed, MetricsDown, DisposePC, CleanupPC, Outside, InstanceFields
    <3> QED BY <1>0, <2>a, <3>1, <3>2, LifeGoto
  <2>c. CASE s.serve # "running"
    <3> DEFINE r == [s EXCEPT !.streamingServer = "stopping"]
    <3>1. inst' = [inst EXCEPT ![me] = r] /\ UNCHANGED sock
      BY <1>0, <1>4, <2>c DEF GracefulStop, TableInv, InstancesTypeOK
    <3>2. r.stage = s.stage /\ Outside(r, sock') /\ Closing(r, "graceWait")
      BY <1>0, <1>1, <2>a, <3>1 DEF Closing, Ready, Backend, ProxyUp, Observed, MetricsDown, DisposePC, CleanupPC, Outside, InstanceFields
    <3> QED BY <1>0, <2>a, <3>1, <3>2, LifeGoto
  <2> QED BY <2>b, <2>c
<1>5. CASE GracefulStopReturns(t, drained)
  <2> DEFINE r == [s EXCEPT !.streamingServer = "stopped"]
  <2>1. /\ inst' = [inst EXCEPT ![me] = r] /\ Goto(t, "closeListener")
        /\ UNCHANGED sock /\ thread[t].pc = "graceWait"
    BY <1>0, <1>5 DEF GracefulStopReturns, At, TableInv, InstancesTypeOK
  <2>2. r.stage = s.stage /\ Outside(r, sock') /\ Closing(r, "closeListener")
    BY <1>0, <1>1, <2>1 DEF Closing, Ready, Backend, ProxyUp, Observed, MetricsDown, DisposePC, CleanupPC, Outside, InstanceFields
  <2> QED BY <1>0, <2>1, <2>2, LifeGoto
<1>6. CASE CloseListener(t)
  <2> DEFINE r == [s EXCEPT !.streamingListener = "closed"]
  <2>1. /\ inst' = [inst EXCEPT ![me] = r] /\ Goto(t, "wait")
        /\ sock' = sock \ {s.id} /\ thread[t].pc = "closeListener"
    BY <1>0, <1>6 DEF CloseListener, At, TableInv, InstancesTypeOK
  <2>2. r.stage = s.stage /\ Outside(r, sock') /\ Closing(r, "wait")
    BY <1>0, <1>1, <2>1 DEF Closing, Ready, Backend, ProxyUp, Observed, MetricsDown, DisposePC, CleanupPC, Outside, InstanceFields
  <2> QED BY <1>0, <2>1, <2>2, LifeGoto
<1>7. CASE DisposeWait(t)
  <2> DEFINE r == s
  <2>1. /\ inst' = [inst EXCEPT ![me] = r] /\ Goto(t, "cleanup")
        /\ UNCHANGED sock /\ thread[t].pc = "wait" /\ s.server = "exited" /\ s.serve = "exited"
    BY <1>0, <1>7 DEF DisposeWait, At, TableInv, InstancesTypeOK
  <2>2. r.stage = s.stage /\ Outside(r, sock') /\ Closing(r, "cleanup")
    BY <1>0, <1>1, <2>1 DEF Closing, Ready, Backend, ProxyUp, Observed, MetricsDown, DisposePC, CleanupPC, Outside, InstanceFields
  <2> QED BY <1>0, <2>1, <2>2, LifeGoto
<1>8. CASE RemoveSocket(t)
  <2> DEFINE r == [s EXCEPT !.stage = "disposed"]
  <2>1. /\ inst' = [inst EXCEPT ![me] = r] /\ Return(t, "ok")
        /\ sock' = sock \ {s.id} /\ thread[t].pc = "removeSocket"
    BY <1>0, <1>8 DEF RemoveSocket, At, TableInv, InstancesTypeOK
  <2>2. AtRest(r) /\ Outside(r, sock')
    BY <1>0, <1>1, <2>1 DEF AtRest, Closing, Ready, Backend, ProxyUp, Observed, MetricsDown, DisposePC, CleanupPC, Outside, InstanceFields
  <2> QED BY <1>0, <2>1, <2>2, LifeReturn
<1> QED BY <1>2, <1>3, <1>4, <1>5, <1>6, <1>7, <1>8 DEF DisposeStep

LEMMA StartCallLife ==
    ASSUME TableInv, TableInv', LifeInv, NEW t \in Thread, NEW o \in Instance,
           NEW opt \in Options, spicedb_start(t, o, opt)
    PROVE  LifeInv'
<1> DEFINE s == inst[o]
<1>0. s \in InstanceFields /\ s.stage = "unused" /\ UNCHANGED sock
  BY DEF spicedb_start, TableInv, InstancesTypeOK
<1>1. NothingBuilt(s) /\ s.failure = "none" /\ s.ctx = "none" /\ Outside(s, sock)
  BY <1>0 DEF LifeInv, AtRest
<1>2. \A u \in Thread : thread[u].obj # o
  BY <1>0, InstancesAssumption DEF TableInv, SoleOwner
<1>3. CASE MissingURI(opt)
  <2> DEFINE r == [s EXCEPT !.stage = "failed", !.failure = "uri"]
  <2>1. inst' = [inst EXCEPT ![o] = r] /\ Return(t, "error")
    BY <1>3 DEF spicedb_start, TableInv, InstancesTypeOK
  <2>2. AtRest(r) /\ Outside(r, sock')
    BY <1>0, <1>1 DEF AtRest, NothingBuilt, NoProxy, Unobserved, MetricsDown, Outside, InstanceFields
  <2>3. thread'[t].op = "none" /\ \A u \in Thread \ {t} : thread'[u] = thread[u]
    BY <2>1, ThreadReturn DEF TableInv
  <2> HIDE DEF r
  <2> QED BY <1>0, <1>2, <2>1, <2>2, <2>3, LifeStep
<1>4. CASE ~MissingURI(opt)
  <2> DEFINE r == [s EXCEPT !.stage = "starting", !.opts = opt, !.ctx = "open"]
             begun == [op |-> "start", pc |-> "alloc", obj |-> o, result |-> "none"]
  <2>1. inst' = [inst EXCEPT ![o] = r] /\ thread' = [thread EXCEPT ![t] = begun]
    BY <1>4 DEF spicedb_start, TableInv, InstancesTypeOK
  <2>2. /\ thread'[t] = begun /\ \A u \in Thread \ {t} : thread'[u] = thread[u]
        /\ thread'[t].op = "start" /\ thread'[t].obj = o /\ thread'[t].pc = "alloc"
    BY <2>1 DEF TableInv, InstancesTypeOK
  <2>3. AtRest(r) /\ Outside(r, sock') /\ Building(r, "alloc")
    BY <1>0, <1>1 DEF AtRest, Building, NothingBuilt, NoProxy, Unobserved, Outside,
                      CleanupPC, InstanceFields
  <2> HIDE DEF r, begun
  <2> QED BY <1>0, <1>2, <2>1, <2>2, <2>3, LifeStep
<1> QED BY <1>3, <1>4

LEMMA DisposeCallLife ==
    ASSUME TableInv, TableInv', LifeInv, NEW t \in Thread, NEW h \in Handle,
           spicedb_dispose(t, h)
    PROVE  LifeInv'
<1>1. CASE instances[h] = NoInstance
  <2>1. Return(t, "error") /\ UNCHANGED <<inst, sock>>
    BY <1>1 DEF spicedb_dispose
  <2>2. thread'[t].op = "none" /\ \A u \in Thread \ {t} : thread'[u] = thread[u]
    BY <2>1, ThreadReturn DEF TableInv
  <2> QED BY <2>1, <2>2 DEF LifeInv
<1>2. CASE instances[h] # NoInstance
  <2> DEFINE o == instances[h]
             s == inst[o]
             r == [s EXCEPT !.stage = "disposing"]
             begun == [op |-> "dispose", pc |-> "cancel", obj |-> o, result |-> "none"]
  <2>1. o \in Instance /\ s.stage = "live" /\ s \in InstanceFields
    BY <1>2 DEF TableInv, InstancesTypeOK, OrNil, RegistryConsistent
  <2>2. inst' = [inst EXCEPT ![o] = r] /\ thread' = [thread EXCEPT ![t] = begun] /\ UNCHANGED sock
    BY <1>2 DEF spicedb_dispose, TableInv, InstancesTypeOK
  <2>3. /\ thread'[t] = begun /\ \A u \in Thread \ {t} : thread'[u] = thread[u]
        /\ thread'[t].op = "dispose" /\ thread'[t].obj = o /\ thread'[t].pc = "cancel"
    BY <2>2 DEF TableInv, InstancesTypeOK
  <2>4. Ready(s) /\ Outside(s, sock)
    BY <2>1 DEF LifeInv, AtRest
  <2>5. AtRest(r) /\ Outside(r, sock') /\ Closing(r, "cancel")
    BY <2>1, <2>2, <2>4 DEF AtRest, Closing, Ready, Backend, ProxyUp, Observed, MetricsDown, DisposePC, CleanupPC, Outside, InstanceFields
  <2>6. \A u \in Thread : thread[u].obj # o
    BY <2>1, InstancesAssumption DEF TableInv, SoleOwner
  <2> HIDE DEF o, r, begun
  <2> QED BY <2>1, <2>2, <2>3, <2>5, <2>6, LifeStep
<1> QED BY <1>1, <1>2

\* A goroutine of the instance runs at any time, whoever holds the struct.
LEMMA GoroutineLife ==
    ASSUME TableInv, TableInv', LifeInv, NEW o \in Instance, NEW quiet,
           GoroutineStep(o, quiet) \/ ServerRunFails(o, quiet)
    PROVE  LifeInv'
<1> DEFINE s == inst[o]
<1>0. s \in InstanceFields /\ AtRest(s) /\ Outside(s, sock)
  BY DEF TableInv, InstancesTypeOK, LifeInv
<1>a. ASSUME NEW r, inst' = [inst EXCEPT ![o] = r], UNCHANGED thread,
             sock' \in {sock, sock \ {s.id}}, AtRest(r), Outside(r, sock'),
             \A pc : Building(s, pc) => Building(r, pc),
             \A pc : Closing(s, pc) => Closing(r, pc)
      PROVE  LifeInv'
  <2>1. inst'[o] = r /\ \A x \in Instance \ {o} : inst'[x] = inst[x]
    BY <1>a DEF TableInv, InstancesTypeOK
  <2>2. \A u \in Thread : thread[u].op \in {"start", "dispose"} => thread[u].obj \in Instance
    BY PcDeterminesOp DEF TableInv
  <2>3. \A x \in Instance : AtRest(inst'[x])
    BY <1>a, <2>1 DEF LifeInv
  <2>4. \A x \in Instance : Outside(inst'[x], sock')
    BY <1>a, <2>1, OthersKeepSocket DEF LifeInv
  <2>5. \A u \in Thread : thread[u].op = "start" => Building(inst'[thread[u].obj], thread[u].pc)
    BY <1>a, <2>1, <2>2 DEF LifeInv
  <2>6. \A u \in Thread : thread[u].op = "dispose" => Closing(inst'[thread[u].obj], thread[u].pc)
    BY <1>a, <2>1, <2>2 DEF LifeInv
  <2> QED BY <1>a, <2>3, <2>4, <2>5, <2>6 DEF LifeInv
<1>1. CASE ServerRunExits(o, quiet) \/ ServerRunFails(o, quiet)
  <2> DEFINE r == [s EXCEPT !.server = "exited", !.datastore = "closed"]
  <2>1. inst' = [inst EXCEPT ![o] = r] /\ UNCHANGED thread /\ UNCHANGED sock
    BY <1>1 DEF ServerRunExits, ServerRunFails, TableInv, InstancesTypeOK
  <2>2. AtRest(r)
    BY <1>0, <1>1 DEF ServerRunExits, ServerRunFails, AtRest, NothingBuilt, NoProxy, Unobserved, Observed, MetricsDown, Backend, ProxyUp, Ready, Stopped, InstanceFields
  <2>3. \A pc : Building(s, pc) => Building(r, pc)
    BY <1>0, <1>1 DEF ServerRunExits, ServerRunFails, Building, NothingBuilt, NoProxy, Unobserved, Observed, MetricsDown, Backend, ProxyUp, Ready, Stopped, InstanceFields
  <2>4. \A pc : Closing(s, pc) => Closing(r, pc)
    BY <1>0, <1>1 DEF ServerRunExits, ServerRunFails, Closing, NothingBuilt, NoProxy, Unobserved, Observed, MetricsDown, Backend, ProxyUp, Ready, Stopped, InstanceFields
  <2>5. Outside(r, sock')
    BY <1>0, <2>1 DEF Outside, InstanceFields
  <2> HIDE DEF r
  <2> QED BY <1>a, <2>1, <2>2, <2>3, <2>4, <2>5
<1>2. CASE ServeBegins(o)
  <2> DEFINE r == [s EXCEPT !.serve = "running"]
  <2>1. inst' = [inst EXCEPT ![o] = r] /\ UNCHANGED thread /\ UNCHANGED sock
    BY <1>2 DEF ServeBegins, TableInv, InstancesTypeOK
  <2>2. AtRest(r)
    BY <1>0, <1>2 DEF ServeBegins, AtRest, NothingBuilt, NoProxy, Unobserved, Observed, MetricsDown, Backend, ProxyUp, Ready, Stopped, InstanceFields
  <2>3. \A pc : Building(s, pc) => Building(r, pc)
    BY <1>0, <1>2 DEF ServeBegins, Building, NothingBuilt, NoProxy, Unobserved, Observed, MetricsDown, Backend, ProxyUp, Ready, Stopped, InstanceFields
  <2>4. \A pc : Closing(s, pc) => Closing(r, pc)
    BY <1>0, <1>2 DEF ServeBegins, Closing, NothingBuilt, NoProxy, Unobserved, Observed, MetricsDown, Backend, ProxyUp, Ready, Stopped, InstanceFields
  <2>5. Outside(r, sock')
    BY <1>0, <1>2, <2>1 DEF ServeBegins, Outside, InstanceFields
  <2> HIDE DEF r
  <2> QED BY <1>a, <2>1, <2>2, <2>3, <2>4, <2>5
<1>3. CASE ServeExits(o)
  <2> DEFINE r == [s EXCEPT !.serve = "exited", !.streamingListener = "closed"]
  <2>1. inst' = [inst EXCEPT ![o] = r] /\ UNCHANGED thread /\ sock' = sock \ {s.id}
    BY <1>3 DEF ServeExits, TableInv, InstancesTypeOK
  <2>2. AtRest(r)
    BY <1>0, <1>3 DEF ServeExits, AtRest, NothingBuilt, NoProxy, Unobserved, Observed, MetricsDown, Backend, ProxyUp, Ready, Stopped, InstanceFields
  <2>3. \A pc : Building(s, pc) => Building(r, pc)
    BY <1>0, <1>3 DEF ServeExits, Building, NothingBuilt, NoProxy, Unobserved, Observed, MetricsDown, Backend, ProxyUp, Ready, Stopped, InstanceFields
  <2>4. \A pc : Closing(s, pc) => Closing(r, pc)
    BY <1>0, <1>3 DEF ServeExits, Closing, NothingBuilt, NoProxy, Unobserved, Observed, MetricsDown, Backend, ProxyUp, Ready, Stopped, InstanceFields
  <2>5. Outside(r, sock')
    BY <1>0, <1>3, <2>1 DEF ServeExits, Outside, InstanceFields
  <2> HIDE DEF r
  <2> QED BY <1>a, <2>1, <2>2, <2>3, <2>4, <2>5
<1>4. CASE MetricsServeBegins(o)
  <2> DEFINE r == [s EXCEPT !.metricsServer = "serving"]
  <2>1. inst' = [inst EXCEPT ![o] = r] /\ UNCHANGED thread /\ UNCHANGED sock
    BY <1>4 DEF MetricsServeBegins, TableInv, InstancesTypeOK
  <2>2. AtRest(r)
    BY <1>0, <1>4 DEF MetricsServeBegins, AtRest, NothingBuilt, NoProxy, Unobserved, Observed, MetricsDown, Backend, ProxyUp, Ready, Stopped, InstanceFields
  <2>3. \A pc : Building(s, pc) => Building(r, pc)
    BY <1>0, <1>4 DEF MetricsServeBegins, Building, NothingBuilt, NoProxy, Unobserved, Observed, MetricsDown, Backend, ProxyUp, Ready, Stopped, InstanceFields
  <2>4. \A pc : Closing(s, pc) => Closing(r, pc)
    BY <1>0, <1>4 DEF MetricsServeBegins, Closing, NothingBuilt, NoProxy, Unobserved, Observed, MetricsDown, Backend, ProxyUp, Ready, Stopped, InstanceFields
  <2>5. Outside(r, sock')
    BY <1>0, <1>4, <2>1 DEF MetricsServeBegins, Outside, InstanceFields
  <2> HIDE DEF r
  <2> QED BY <1>a, <2>1, <2>2, <2>3, <2>4, <2>5
<1>5. CASE MetricsServeTooLate(o)
  <2> DEFINE r == [s EXCEPT !.metricsPort = "free"]
  <2>1. inst' = [inst EXCEPT ![o] = r] /\ UNCHANGED thread /\ UNCHANGED sock
    BY <1>5 DEF MetricsServeTooLate, TableInv, InstancesTypeOK
  <2>2. AtRest(r)
    BY <1>0, <1>5 DEF MetricsServeTooLate, AtRest, NothingBuilt, NoProxy, Unobserved, Observed, MetricsDown, Backend, ProxyUp, Ready, Stopped, InstanceFields
  <2>3. \A pc : Building(s, pc) => Building(r, pc)
    BY <1>0, <1>5 DEF MetricsServeTooLate, Building, NothingBuilt, NoProxy, Unobserved, Observed, MetricsDown, Backend, ProxyUp, Ready, Stopped, InstanceFields
  <2>4. \A pc : Closing(s, pc) => Closing(r, pc)
    BY <1>0, <1>5 DEF MetricsServeTooLate, Closing, NothingBuilt, NoProxy, Unobserved, Observed, MetricsDown, Backend, ProxyUp, Ready, Stopped, InstanceFields
  <2>5. Outside(r, sock')
    BY <1>0, <2>1 DEF Outside, InstanceFields
  <2> HIDE DEF r
  <2> QED BY <1>a, <2>1, <2>2, <2>3, <2>4, <2>5
<1> QED BY <1>1, <1>2, <1>3, <1>4, <1>5 DEF GoroutineStep

LEMMA NextLife ==
    ASSUME TableInv, TableInv', LifeInv, [InstancesNext]_instVars
    PROVE  LifeInv'
<1>1. CASE UNCHANGED instVars
  BY <1>1 DEF instVars, LifeInv
<1>2. CASE InstancesNext
  BY <1>2, StartCallLife, DisposeCallLife, StartLife, CleanupLife, DisposeLife, GoroutineLife
     DEF InstancesNext, HostCall
<1> QED BY <1>1, <1>2

LEMMA LifeInvariant == InstancesSpec => [](TableInv /\ LifeInv)
<1>1. InstancesInit => LifeInv
  BY InitLife
<1>2. TableInv /\ TableInv' /\ LifeInv /\ [InstancesNext]_instVars => LifeInv'
  BY NextLife
<1> QED BY <1>1, <1>2, TableInvariant, PTL DEF InstancesSpec

\* Whatever fails and however start, dispose and the goroutines interleave, a
\* handle in the table leads to an instance whose parts all exist
\* (main.go 236, 244, 247; rpc.go 37).
THEOREM PublishedIsReady == InstancesSpec => []RegisteredIsReady
<1>1. TableInv /\ LifeInv => RegisteredIsReady
  BY DEF TableInv, InstancesTypeOK, OrNil, RegistryConsistent, LifeInv, AtRest, Ready,
         ProxyUp, Outside, RegisteredIsReady
<1> QED BY <1>1, LifeInvariant, PTL

\* An instance that spicedb_dispose has finished with holds no connection,
\* listener, socket file, datastore or tracer and no goroutine, but for the one
\* of a metrics server that was shut down before it ran, with its port
\* (main.go 386, 396, 423-443).
THEOREM DisposeReleasesAllButPort == InstancesSpec => []DisposedLeavesOnlyPort
<1>1. TableInv /\ LifeInv => DisposedLeavesOnlyPort
  BY DEF LifeInv, AtRest, MetricsDown, Outside, DisposedLeavesOnlyPort
<1> QED BY <1>1, LifeInvariant, PTL

\* At whichever step a start fails, it has stopped what it had started when it
\* returns; all that it leaves is a datastore and a server that was never run,
\* or the client connection of a proxy that could not listen (main.go 184-243).
THEOREM FailureStops == InstancesSpec => []FailedStartStops
<1>1. TableInv /\ LifeInv => FailedStartStops
  <2> SUFFICES ASSUME TableInv, LifeInv, NEW o \in Instance, inst[o].stage = "failed"
               PROVE  /\ AtRest(inst[o])
                      /\ \A h \in Handle : instances[h] # o
    BY DEF FailedStartStops, AtRest, NoProxy, MetricsDown
  <2>1. \A h \in Handle : instances[h] # o
    BY InstancesAssumption DEF TableInv, RegistryConsistent
  <2> QED BY <2>1 DEF LifeInv
<1> QED BY <1>1, LifeInvariant, PTL

\* A start whose bind failed has met and left no socket file, whatever files
\* earlier processes left, unless it could not remove the one at its path, which
\* is then still there (streaming_proxy.go 152).
THEOREM OnlyStuckFilesMatter == InstancesSpec => []StaleSocketHarmless
<1>1. LifeInv => StaleSocketHarmless
  BY DEF LifeInv, Outside, StaleSocketHarmless
<1> QED BY <1>1, LifeInvariant, PTL

-----------------------------------------------------------------------------
\* The process-wide tracer provider, if the host never runs two traced
\* instances at a time.

InUse(s) == s.stage \in {"starting", "live", "disposing"}

\* One traced instance at a time; it remembers the host's provider, which is
\* the global one before it has set its own and after it has restored it.
TracerInv ==
    /\ \A o1, o2 \in Instance :
           /\ InUse(inst[o1]) /\ UsesTracing(inst[o1].opts)
           /\ InUse(inst[o2]) /\ UsesTracing(inst[o2].opts)
           => o1 = o2
    /\ \A o \in Instance :
           inst[o].stage = "unused" \/ InUse(inst[o]) => inst[o].prevTracerProvider = NoInstance
    /\ \A o \in Instance : InUse(inst[o]) =>
           /\ inst[o].tracerProvider # "none" => UsesTracing(inst[o].opts)
           /\ inst[o].tracerProvider = "none" /\ UsesTracing(inst[o].opts) => globalTP = NoInstance
           /\ inst[o].tracerProvider = "active" => globalTP = o
    /\ \A t \in Thread :
           /\ thread[t].pc = "tracerRestore" => globalTP = thread[t].obj
           /\ thread[t].pc = "removeSocket" /\ UsesTracing(inst[thread[t].obj].opts) =>
                  globalTP = NoInstance
    /\ TracerRestored

TracerSame(x) ==
    /\ inst'[x].opts = inst[x].opts
    /\ inst'[x].tracerProvider = inst[x].tracerProvider
    /\ inst'[x].prevTracerProvider = inst[x].prevTracerProvider

\* A step that sets no provider: instances may go out of use that have none
\* set, and threads may go on.
TracerIdle ==
    /\ UNCHANGED globalTP
    /\ \A x \in Instance :
           /\ TracerSame(x)
           /\ inst'[x].stage = "unused" => inst[x].stage = "unused"
           /\ InUse(inst'[x]) => InUse(inst[x])
           /\ InUse(inst[x]) /\ UsesTracing(inst[x].opts) /\ ~InUse(inst'[x]) => globalTP = NoInstance
    /\ \A u \in Thread : thread'[u].pc \in {"tracerRestore", "removeSocket"} =>
           /\ thread'[u].obj = thread[u].obj
           /\ \/ thread'[u].pc = thread[u].pc
              \/ thread'[u].pc = "removeSocket" /\ ~UsesTracing(inst[thread[u].obj].opts)

LEMMA TracerIdlePreserves ==
    ASSUME TableInv, TableInv', TracerInv, TracerIdle
    PROVE  TracerInv'
<1>0. \A u \in Thread : thread'[u].pc \in {"tracerRestore", "removeSocket"} => thread'[u].obj \in Instance
  <2>1. \A u \in Thread : thread'[u] \in ThreadStates
    BY DEF TableInv, InstancesTypeOK
  <2> QED BY <2>1 DEF ThreadStates, StartPC, DisposePC, CleanupPC
<1>1. (\A o1, o2 \in Instance :
           /\ InUse(inst[o1]) /\ UsesTracing(inst[o1].opts)
           /\ InUse(inst[o2]) /\ UsesTracing(inst[o2].opts)
           => o1 = o2)'
  BY DEF TracerInv, TracerIdle, TracerSame
<1>2. (\A o \in Instance :
           inst[o].stage = "unused" \/ InUse(inst[o]) => inst[o].prevTracerProvider = NoInstance)'
  BY DEF TracerInv, TracerIdle, TracerSame
<1>3. (\A o \in Instance : InUse(inst[o]) =>
           /\ inst[o].tracerProvider # "none" => UsesTracing(inst[o].opts)
           /\ inst[o].tracerProvider = "none" /\ UsesTracing(inst[o].opts) => globalTP = NoInstance
           /\ inst[o].tracerProvider = "active" => globalTP = o)'
  BY DEF TracerInv, TracerIdle, TracerSame
<1>4. (\A t \in Thread :
           /\ thread[t].pc = "tracerRestore" => globalTP = thread[t].obj
           /\ thread[t].pc = "removeSocket" /\ UsesTracing(inst[thread[t].obj].opts) =>
                  globalTP = NoInstance)'
  BY <1>0 DEF TracerInv, TracerIdle, TracerSame
<1>5. TracerRestored'
  BY DEF TracerInv, TracerIdle, TracerSame, TracerRestored, TracedInUse, InUse
<1> QED BY <1>1, <1>2, <1>3, <1>4, <1>5 DEF TracerInv

LEMMA FailAtOnceTracer ==
    ASSUME TableInv, TracerInv, NEW t \in Thread, thread[t].obj \in Instance,
           inst[thread[t].obj].tracerProvider = "none", NEW kind, FailAtOnce(t, kind)
    PROVE  TracerIdle
<1>1. \A x \in Instance :
          /\ TracerSame(x)
          /\ inst'[x].stage = IF x = thread[t].obj THEN "failed" ELSE inst[x].stage
  BY DEF FailAtOnce, TableInv, InstancesTypeOK, InstanceFields, TracerSame
<1>2. thread'[t].pc = "idle" /\ (\A u \in Thread \ {t} : thread'[u] = thread[u]) /\ UNCHANGED globalTP
  BY ThreadReturn DEF FailAtOnce, TableInv
<1> QED BY <1>1, <1>2 DEF TracerIdle, InUse, TracerInv

\* Steps of a thread inside its call that change neither a provider nor what is
\* in use.
LEMMA GotoTracer ==
    ASSUME TableInv, NEW t \in Thread, NEW next, Goto(t, next), next \notin {"tracerRestore", "removeSocket"},
           UNCHANGED globalTP,
           \A x \in Instance : TracerSame(x) /\ inst'[x].stage = inst[x].stage
    PROVE  TracerIdle
<1>1. thread'[t].pc = next /\ \A u \in Thread \ {t} : thread'[u] = thread[u]
  BY GotoMoves DEF TableInv
<1> QED BY <1>1 DEF TracerIdle, InUse

LEMMA StartTracer ==
    ASSUME TableInv, TableInv', LifeInv, TracerInv, NEW t \in Thread, StartStep(t)
    PROVE  TracerInv'
<1> DEFINE me == thread[t].obj
           s == inst[me]
<1>0. thread[t].op = "start" /\ me \in Instance /\ s \in InstanceFields
  BY StartStepFrame DEF TableInv, InstancesTypeOK
<1>1. Building(s, thread[t].pc) /\ s.stage = "starting"
  BY <1>0, InstancesAssumption DEF LifeInv, TableInv, SoleOwner
<1>2. CASE AllocateID(t)
  <2>1. \A x \in Instance : TracerSame(x) /\ inst'[x].stage = inst[x].stage
    BY <1>0, <1>2 DEF AllocateID, TableInv, InstancesTypeOK, InstanceFields, TracerSame
  <2> QED BY <1>2, <2>1, GotoTracer, TracerIdlePreserves DEF AllocateID
<1>3. CASE newDatastoreFromOpts(t)
  <2>1. CASE FailAtOnce(t, "datastore")
    <3>1. s.tracerProvider = "none"
      BY <1>1, <1>3 DEF newDatastoreFromOpts, At, Building, NothingBuilt, Unobserved
    <3> QED BY <1>0, <2>1, <3>1, FailAtOnceTracer, TracerIdlePreserves
  <2>2. CASE ~FailAtOnce(t, "datastore")
    <3>1. \A x \in Instance : TracerSame(x) /\ inst'[x].stage = inst[x].stage
      BY <1>0, <1>3, <2>2 DEF newDatastoreFromOpts, TableInv, InstancesTypeOK, InstanceFields, TracerSame
    <3> QED BY <1>3, <2>2, <3>1, GotoTracer, TracerIdlePreserves DEF newDatastoreFromOpts
  <2> QED BY <2>1, <2>2
<1>4. CASE newSpiceDBServerFromDatastore(t)
  <2>1. CASE FailAtOnce(t, "server")
    <3>1. s.tracerProvider = "none"
      BY <1>1, <1>4 DEF newSpiceDBServerFromDatastore, At, Building, NothingBuilt, Unobserved
    <3> QED BY <1>0, <2>1, <3>1, FailAtOnceTracer, TracerIdlePreserves
  <2>2. CASE ~FailAtOnce(t, "server")
    <3>1. \A x \in Instance : TracerSame(x) /\ inst'[x].stage = inst[x].stage
      BY <1>0, <1>4, <2>2 DEF newSpiceDBServerFromDatastore, TableInv, InstancesTypeOK, InstanceFields, TracerSame
    <3> QED BY <1>4, <2>2, <3>1, GotoTracer, TracerIdlePreserves DEF newSpiceDBServerFromDatastore, AfterServer
  <2> QED BY <2>1, <2>2
<1>5. CASE otelGet(t)
  <2>0. s.tracerProvider = "none" /\ UsesTracing(s.opts)
    BY <1>1, <1>5 DEF otelGet, At, Building, Unobserved
  <2>1. CASE FailAtOnce(t, "otel")
    BY <1>0, <2>0, <2>1, FailAtOnceTracer, TracerIdlePreserves
  <2>2. CASE ~FailAtOnce(t, "otel")
    <3>1. globalTP = NoInstance /\ s.prevTracerProvider = NoInstance
      BY <1>0, <1>1, <2>0 DEF TracerInv, InUse
    <3>2. \A x \in Instance : TracerSame(x) /\ inst'[x].stage = inst[x].stage
      BY <1>0, <1>5, <2>2, <3>1 DEF otelGet, TableInv, InstancesTypeOK, InstanceFields, TracerSame
    <3> QED BY <1>5, <2>2, <3>2, GotoTracer, TracerIdlePreserves DEF otelGet
  <2> QED BY <2>1, <2>2
<1>6. CASE otelSet(t)
  <2>0. s.tracerProvider = "none" /\ UsesTracing(s.opts) /\ globalTP' = me
    BY <1>1, <1>6 DEF otelSet, At, Building, Unobserved
  <2>1. \A x \in Instance :
            /\ inst'[x].stage = inst[x].stage /\ inst'[x].opts = inst[x].opts
            /\ inst'[x].prevTracerProvider = inst[x].prevTracerProvider
            /\ inst'[x].tracerProvider = IF x = me THEN "active" ELSE inst[x].tracerProvider
    BY <1>0, <1>6 DEF otelSet, TableInv, InstancesTypeOK, InstanceFields, TracerSame
  <2>2. \A x \in Instance \ {me} : InUse(inst[x]) => ~UsesTracing(inst[x].opts)
    BY <1>0, <1>1, <2>0 DEF TracerInv, InUse
  <2>3. \A u \in Thread : thread'[u].pc \notin {"tracerRestore", "removeSocket"} \/
                           (u # t /\ thread'[u] = thread[u])
    BY <1>6, GotoMoves DEF otelSet, AfterTracing, TableInv
  <2>4. \A u \in Thread \ {t} : thread[u].pc \in {"tracerRestore", "removeSocket"} =>
            /\ thread[u].obj \in Instance \ {me} /\ InUse(inst[thread[u].obj])
            /\ thread[u].pc = "tracerRestore" => inst[thread[u].obj].tracerProvider = "shutdown"
    <3> TAKE u \in Thread \ {t}
    <3> HAVE thread[u].pc \in {"tracerRestore", "removeSocket"}
    <3>1. thread[u].op \in {"start", "dispose"} /\ thread[u].obj \in Instance
      BY PcDeterminesOp DEF TableInv, CleanupPC, DisposePC
    <3>2. thread[u].obj # me /\ InUse(inst[thread[u].obj])
      BY <3>1, InstancesAssumption DEF TableInv, SoleOwner, InUse
    <3> QED BY <3>1, <3>2 DEF LifeInv, Building, Closing
  <2>5. \A u \in Thread : /\ thread'[u].pc # "tracerRestore"
                          /\ thread'[u].pc = "removeSocket" => ~UsesTracing(inst[thread'[u].obj].opts)
                                                            /\ thread'[u].obj \in Instance
    BY <2>2, <2>3, <2>4 DEF TracerInv
  <2>6. TracerRestored'
    BY <1>0, <1>1, <2>0, <2>1 DEF TracerRestored, TracedInUse
  <2> QED BY <1>0, <2>0, <2>1, <2>2, <2>5, <2>6 DEF TracerInv, InUse
<1>7. CASE startMetricsServer(t)
  <2>1. \A x \in Instance : TracerSame(x) /\ inst'[x].stage = inst[x].stage
    BY <1>0, <1>7 DEF startMetricsServer, TableInv, InstancesTypeOK, InstanceFields, TracerSame
  <2> QED BY <1>7, <2>1, GotoTracer, TracerIdlePreserves DEF startMetricsServer
<1>8. CASE RunServer(t)
  <2>1. \A x \in Instance : TracerSame(x) /\ inst'[x].stage = inst[x].stage
    BY <1>0, <1>8 DEF RunServer, TableInv, InstancesTypeOK, InstanceFields, TracerSame
  <2> QED BY <1>8, <2>1, GotoTracer, TracerIdlePreserves DEF RunServer
<1>9. CASE NewClient(t)
  <2>1. \A x \in Instance : TracerSame(x) /\ inst'[x].stage = inst[x].stage
    BY <1>0, <1>9 DEF NewClient, FailAndWait, TableInv, InstancesTypeOK, InstanceFields, TracerSame
  <2> QED BY <1>9, <2>1, GotoTracer, TracerIdlePreserves DEF NewClient, FailAndWait
<1>10. CASE startStreamingProxy(t)
  <2>1. \A x \in Instance : TracerSame(x) /\ inst'[x].stage = inst[x].stage
    <3>1. CASE FailAndWait(t, "listen") \/ FailAndWait(t, "remove")
      BY <1>0, <3>1 DEF FailAndWait, TableInv, InstancesTypeOK, InstanceFields, TracerSame
    <3>2. CASE inst' = [inst EXCEPT ![me].streamingListener = "open",
                                    ![me].streamingServer = "built",
                                    ![me].serve = "spawned"]
      <4> DEFINE r == [s EXCEPT !.streamingListener = "open", !.streamingServer = "built",
                                !.serve = "spawned"]
      <4>1. inst' = [inst EXCEPT ![me] = r]
        BY <1>0, <3>2 DEF TableInv, InstancesTypeOK
      <4>2. /\ r.stage = s.stage /\ r.opts = s.opts /\ r.tracerProvider = s.tracerProvider
            /\ r.prevTracerProvider = s.prevTracerProvider
        BY <1>0 DEF InstanceFields
      <4> HIDE DEF r
      <4> QED BY <4>1, <4>2 DEF TableInv, InstancesTypeOK, TracerSame
    <3> QED BY <1>10, <3>1, <3>2 DEF startStreamingProxy
  <2> QED BY <1>10, <2>1, GotoTracer, TracerIdlePreserves DEF startStreamingProxy, FailAndWait
<1>11. CASE Publish(t)
  <2>1. \A x \in Instance : /\ TracerSame(x)
                            /\ inst'[x].stage = IF x = me THEN "live" ELSE inst[x].stage
    BY <1>0, <1>11 DEF Publish, TableInv, InstancesTypeOK, InstanceFields, TracerSame
  <2>2. thread'[t].pc = "idle" /\ (\A u \in Thread \ {t} : thread'[u] = thread[u]) /\ UNCHANGED globalTP
    BY <1>11, ThreadReturn DEF Publish, TableInv
  <2>3. TracerIdle
    BY <1>0, <1>1, <2>1, <2>2 DEF TracerIdle, InUse
  <2> QED BY <2>3, TracerIdlePreserves
<1>12. CASE FailWait(t)
  <2>1. \A x \in Instance : TracerSame(x) /\ inst'[x].stage = inst[x].stage
    BY <1>0, <1>12 DEF FailWait, TableInv, InstancesTypeOK, InstanceFields, TracerSame
  <2> QED BY <1>12, <2>1, GotoTracer, TracerIdlePreserves DEF FailWait
<1> QED BY <1>2, <1>3, <1>4, <1>5, <1>6, <1>7, <1>8, <1>9, <1>10, <1>11, <1>12 DEF StartStep

LEMMA CleanupTracer ==
    ASSUME TableInv, TableInv', LifeInv, TracerInv, NEW t \in Thread, CleanupStep(t)
    PROVE  TracerInv'
<1> DEFINE me == thread[t].obj
           s == inst[me]
<1>0. thread[t].pc \in CleanupPC /\ thread[t].op \in {"start", "dispose"} /\ me \in Instance
      /\ s \in InstanceFields
  <2>1. thread[t].pc \in CleanupPC
    BY DEF CleanupStep, CleanupMetrics, TracerShutdown, TracerRestore, At, CleanupPC
  <2> QED BY <2>1, PcDeterminesOp DEF TableInv, InstancesTypeOK
<1>1. /\ thread[t].op = "start" => Building(s, thread[t].pc)
      /\ thread[t].op = "dispose" => Closing(s, thread[t].pc)
      /\ s.stage \in {"starting", "disposing"} /\ InUse(s)
  BY <1>0, InstancesAssumption DEF LifeInv, TableInv, SoleOwner, InUse
<1>a. ASSUME NEW r, LeaveCleanup(t, r), r \in InstanceFields, r.stage = s.stage, r.opts = s.opts,
             r.tracerProvider = s.tracerProvider, r.prevTracerProvider = s.prevTracerProvider
      PROVE  /\ \A x \in Instance :
                    /\ TracerSame(x)
                    /\ x # me => inst'[x] = inst[x]
                    /\ x = me => inst'[x].stage \in {s.stage, "failed"}
             /\ thread'[t].pc \in {"idle", "removeSocket"}
             /\ thread'[t].pc = "removeSocket" => thread'[t].obj = me
             /\ \A u \in Thread \ {t} : thread'[u] = thread[u]
  <2>1. CASE thread[t].op = "start"
    <3> DEFINE f == [r EXCEPT !.stage = "failed"]
    <3>1. inst' = [inst EXCEPT ![me] = f] /\ Return(t, "error")
      BY <1>a, <2>1 DEF LeaveCleanup
    <3>2. /\ f.stage = "failed" /\ f.opts = s.opts /\ f.tracerProvider = s.tracerProvider
          /\ f.prevTracerProvider = s.prevTracerProvider
      BY <1>a DEF InstanceFields
    <3> HIDE DEF f
    <3>3. \A x \in Instance : /\ TracerSame(x)
                              /\ x # me => inst'[x] = inst[x]
                              /\ x = me => inst'[x].stage \in {s.stage, "failed"}
      BY <3>1, <3>2 DEF TableInv, InstancesTypeOK, TracerSame
    <3> QED BY <3>1, <3>3, ThreadReturn DEF TableInv
  <2>2. CASE thread[t].op = "dispose"
    <3>1. inst' = [inst EXCEPT ![me] = r] /\ Goto(t, "removeSocket")
      BY <1>a, <2>2 DEF LeaveCleanup
    <3>2. \A x \in Instance : /\ TracerSame(x)
                              /\ x # me => inst'[x] = inst[x]
                              /\ x = me => inst'[x].stage \in {s.stage, "failed"}
      BY <1>a, <3>1 DEF TableInv, InstancesTypeOK, TracerSame
    <3> QED BY <3>1, <3>2, GotoMoves DEF TableInv
  <2> QED BY <1>0, <2>1, <2>2
<1>2. CASE CleanupMetrics(t)
  <2> DEFINE r == ShutdownMetrics(s)
  <2>a. thread[t].pc = "cleanup" /\ UNCHANGED globalTP
    BY <1>2 DEF CleanupMetrics, At
  <2>b. Observed(s)
    BY <1>0, <1>1, <2>a DEF Building, Closing
  <2>c. /\ r \in InstanceFields /\ r.stage = s.stage /\ r.opts = s.opts
        /\ r.tracerProvider = s.tracerProvider /\ r.prevTracerProvider = s.prevTracerProvider
    <3>1. r \in InstanceFields
      BY <1>0, ShutdownMetricsType
    <3> QED BY <1>0, <3>1 DEF ShutdownMetrics, InstanceFields
  <2>d. \/ r.tracerProvider = "none" /\ LeaveCleanup(t, r)
        \/ r.tracerProvider # "none" /\ inst' = [inst EXCEPT ![me] = r] /\ Goto(t, "tracerShutdown")
    BY <1>2 DEF CleanupMetrics
  <2> HIDE DEF r
  <2>1. CASE r.tracerProvider = "none" /\ LeaveCleanup(t, r)
    <3>1. ~UsesTracing(s.opts)
      BY <2>1, <2>b, <2>c DEF Observed
    <3>2. TracerIdle
      BY <1>1, <1>a, <2>1, <2>a, <2>c, <3>1 DEF TracerIdle, InUse
    <3> QED BY <3>2, TracerIdlePreserves
  <2>2. CASE inst' = [inst EXCEPT ![me] = r] /\ Goto(t, "tracerShutdown")
    <3>1. \A x \in Instance : TracerSame(x) /\ inst'[x].stage = inst[x].stage
      BY <2>2, <2>c DEF TableInv, InstancesTypeOK, TracerSame
    <3> QED BY <2>2, <2>a, <3>1, GotoTracer, TracerIdlePreserves
  <2> QED BY <2>1, <2>2, <2>d
<1>b. s.tracerProvider # "none" =>
          /\ UsesTracing(s.opts)
          /\ \A x \in Instance \ {me} : InUse(inst[x]) =>
                 ~UsesTracing(inst[x].opts) /\ inst[x].tracerProvider = "none"
  BY <1>0, <1>1 DEF TracerInv
<1>c. \A u \in Thread \ {t} : thread[u].pc \in {"tracerRestore", "removeSocket"} =>
          /\ thread[u].obj \in Instance \ {me} /\ InUse(inst[thread[u].obj])
          /\ thread[u].pc = "tracerRestore" => inst[thread[u].obj].tracerProvider = "shutdown"
  <2> TAKE u \in Thread \ {t}
  <2> HAVE thread[u].pc \in {"tracerRestore", "removeSocket"}
  <2>1. thread[u].op \in {"start", "dispose"} /\ thread[u].obj \in Instance
    BY PcDeterminesOp DEF TableInv, CleanupPC, DisposePC
  <2>2. thread[u].obj # me /\ InUse(inst[thread[u].obj])
    BY <2>1, InstancesAssumption DEF TableInv, SoleOwner, InUse
  <2> QED BY <2>1, <2>2 DEF LifeInv, Building, Closing
<1>3. CASE TracerShutdown(t)
  <2>0. thread[t].pc = "tracerShutdown" /\ s.tracerProvider = "active"
    BY <1>0, <1>1, <1>3 DEF TracerShutdown, At, Building, Closing
  <2>1. \A x \in Instance :
            /\ inst'[x].stage = inst[x].stage /\ inst'[x].opts = inst[x].opts
            /\ inst'[x].prevTracerProvider = inst[x].prevTracerProvider
            /\ inst'[x].tracerProvider = IF x = me THEN "shutdown" ELSE inst[x].tracerProvider
    BY <1>0, <1>3 DEF TracerShutdown, TableInv, InstancesTypeOK, InstanceFields
  <2>2. /\ UNCHANGED globalTP /\ globalTP = me
        /\ thread'[t].pc = "tracerRestore" /\ thread'[t].obj = me
        /\ \A u \in Thread \ {t} : thread'[u] = thread[u]
    BY <1>0, <1>1, <1>3, <2>0, GotoMoves DEF TracerShutdown, TableInv, TracerInv
  <2>3. TracerRestored'
    BY <2>1, <2>2 DEF TracerRestored, TracedInUse, TracerInv
  <2> QED BY <1>0, <1>b, <1>c, <2>0, <2>1, <2>2, <2>3 DEF TracerInv, InUse
<1>4. CASE TracerRestore(t)
  <2>0. thread[t].pc = "tracerRestore" /\ s.tracerProvider = "shutdown" /\ LeaveCleanup(t, s)
    BY <1>0, <1>1, <1>4 DEF TracerRestore, At, Building, Closing
  <2>1. globalTP' = NoInstance
    BY <1>0, <1>1, <1>4 DEF TracerRestore, TracerInv
  <2>2. /\ \A x \in Instance : /\ TracerSame(x)
                               /\ x # me => inst'[x] = inst[x]
                               /\ x = me => inst'[x].stage \in {s.stage, "failed"}
        /\ thread'[t].pc \in {"idle", "removeSocket"}
        /\ \A u \in Thread \ {t} : thread'[u] = thread[u]
    BY <1>0, <1>a, <2>0
  <2>3. \A x \in Instance : InUse(inst'[x]) =>
            /\ InUse(inst[x])
            /\ inst'[x].tracerProvider # "active"
            /\ inst'[x].tracerProvider # "none" => UsesTracing(inst'[x].opts)
            /\ inst'[x].prevTracerProvider = NoInstance
    BY <1>1, <1>b, <2>0, <2>2 DEF TracerSame, TracerInv
  <2>4. \A u \in Thread : thread'[u].pc # "tracerRestore"
    BY <1>b, <1>c, <2>0, <2>2
  <2>5. \A x \in Instance : inst'[x].stage = "unused" => inst'[x].prevTracerProvider = NoInstance
    BY <1>1, <2>2 DEF TracerSame, TracerInv
  <2>6. \A o1, o2 \in Instance :
            /\ InUse(inst'[o1]) /\ UsesTracing(inst'[o1].opts)
            /\ InUse(inst'[o2]) /\ UsesTracing(inst'[o2].opts)
            => o1 = o2
    BY <2>2, <2>3 DEF TracerSame, TracerInv
  <2>7. TracerRestored'
    BY <2>1 DEF TracerRestored
  <2> QED BY <2>1, <2>3, <2>4, <2>5, <2>6, <2>7 DEF TracerInv
<1> QED BY <1>2, <1>3, <1>4 DEF CleanupStep

LEMMA DisposeTracer ==
    ASSUME TableInv, TableInv', LifeInv, TracerInv, NEW t \in Thread, NEW drained,
           DisposeStep(t, drained)
    PROVE  TracerInv'
<1> DEFINE me == thread[t].obj
<1>0. thread[t].op = "dispose" /\ me \in Instance
  <2>1. thread[t].pc \in DisposePC
    BY DEF DisposeStep, Cancel, CloseConn, GracefulStop, GracefulStopReturns,
           CloseListener, DisposeWait, RemoveSocket, At, DisposePC
  <2> QED BY <2>1, PcDeterminesOp DEF TableInv
<1>1. CASE Cancel(t)
  <2>1. \A x \in Instance : TracerSame(x) /\ inst'[x].stage = inst[x].stage
    BY <1>0, <1>1 DEF Cancel, TableInv, InstancesTypeOK, InstanceFields, TracerSame
  <2> QED BY <1>1, <2>1, GotoTracer, TracerIdlePreserves DEF Cancel
<1>2. CASE CloseConn(t)
  <2>1. \A x \in Instance : TracerSame(x) /\ inst'[x].stage = inst[x].stage
    BY <1>0, <1>2 DEF CloseConn, TableInv, InstancesTypeOK, InstanceFields, TracerSame
  <2> QED BY <1>2, <2>1, GotoTracer, TracerIdlePreserves DEF CloseConn
<1>3. CASE GracefulStop(t)
  <2>1. \A x \in Instance : TracerSame(x) /\ inst'[x].stage = inst[x].stage
    BY <1>0, <1>3 DEF GracefulStop, TableInv, InstancesTypeOK, InstanceFields, TracerSame
  <2> QED BY <1>3, <2>1, GotoTracer, TracerIdlePreserves DEF GracefulStop
<1>4. CASE GracefulStopReturns(t, drained)
  <2>1. \A x \in Instance : TracerSame(x) /\ inst'[x].stage = inst[x].stage
    BY <1>0, <1>4 DEF GracefulStopReturns, TableInv, InstancesTypeOK, InstanceFields, TracerSame
  <2> QED BY <1>4, <2>1, GotoTracer, TracerIdlePreserves DEF GracefulStopReturns
<1>5. CASE CloseListener(t)
  <2>1. \A x \in Instance : TracerSame(x) /\ inst'[x].stage = inst[x].stage
    BY <1>0, <1>5 DEF CloseListener, TableInv, InstancesTypeOK, InstanceFields, TracerSame
  <2> QED BY <1>5, <2>1, GotoTracer, TracerIdlePreserves DEF CloseListener
<1>6. CASE DisposeWait(t)
  <2>1. \A x \in Instance : TracerSame(x) /\ inst'[x].stage = inst[x].stage
    BY <1>0, <1>6 DEF DisposeWait, TableInv, InstancesTypeOK, InstanceFields, TracerSame
  <2> QED BY <1>6, <2>1, GotoTracer, TracerIdlePreserves DEF DisposeWait
<1>7. CASE RemoveSocket(t)
  <2>1. \A x \in Instance : /\ TracerSame(x)
                            /\ inst'[x].stage = IF x = me THEN "disposed" ELSE inst[x].stage
    BY <1>0, <1>7 DEF RemoveSocket, TableInv, InstancesTypeOK, InstanceFields, TracerSame
  <2>2. thread'[t].pc = "idle" /\ (\A u \in Thread \ {t} : thread'[u] = thread[u]) /\ UNCHANGED globalTP
    BY <1>7, ThreadReturn DEF RemoveSocket, TableInv
  <2>3. UsesTracing(inst[me].opts) => globalTP = NoInstance
    BY <1>7 DEF RemoveSocket, At, TracerInv
  <2>4. TracerIdle
    BY <1>0, <2>1, <2>2, <2>3 DEF TracerIdle, InUse
  <2> QED BY <2>4, TracerIdlePreserves
<1> QED BY <1>1, <1>2, <1>3, <1>4, <1>5, <1>6, <1>7 DEF DisposeStep

LEMMA GoroutineTracer ==
    ASSUME TableInv, TableInv', TracerInv, NEW o \in Instance, NEW quiet,
           GoroutineStep(o, quiet) \/ ServerRunFails(o, quiet)
    PROVE  TracerInv'
<1>1. UNCHANGED <<thread, globalTP>>
  BY DEF GoroutineStep, ServerRunExits, ServerRunFails, ServeBegins, ServeExits,
         MetricsServeBegins, MetricsServeTooLate
<1>2. \A x \in Instance : TracerSame(x)
  <2>1. CASE ServerRunExits(o, quiet) \/ ServerRunFails(o, quiet)
    <3>1. inst' = [inst EXCEPT ![o].server = "exited", ![o].datastore = "closed"]
      BY <2>1 DEF ServerRunExits, ServerRunFails
    <3> QED BY <3>1 DEF TableInv, InstancesTypeOK, InstanceFields, TracerSame
  <2>2. CASE ServeBegins(o)
    BY <2>2 DEF ServeBegins, TableInv, InstancesTypeOK, InstanceFields, TracerSame
  <2>3. CASE ServeExits(o)
    BY <2>3 DEF ServeExits, TableInv, InstancesTypeOK, InstanceFields, TracerSame
  <2>4. CASE MetricsServeBegins(o)
    BY <2>4 DEF MetricsServeBegins, TableInv, InstancesTypeOK, InstanceFields, TracerSame
  <2>5. CASE MetricsServeTooLate(o)
    BY <2>5 DEF MetricsServeTooLate, TableInv, InstancesTypeOK, InstanceFields, TracerSame
  <2> QED BY <2>1, <2>2, <2>3, <2>4, <2>5 DEF GoroutineStep
<1>3. \A x \in Instance : inst'[x].stage = inst[x].stage
  BY GoroutineFrame DEF Frame, TableInv
<1>4. TracerIdle
  BY <1>1, <1>2, <1>3 DEF TracerIdle, InUse
<1> QED BY <1>4, TracerIdlePreserves

LEMMA DisposeCallTracer ==
    ASSUME TableInv, TableInv', TracerInv, NEW t \in Thread, NEW h \in Handle,
           spicedb_dispose(t, h)
    PROVE  TracerInv'
<1>1. UNCHANGED globalTP /\ \A u \in Thread \ {t} : thread'[u] = thread[u]
  BY DEF spicedb_dispose, Return, TableInv, InstancesTypeOK
<1>2. thread'[t].pc \in {"idle", "cancel"}
  BY DEF spicedb_dispose, Return, Idle, TableInv, InstancesTypeOK
<1>3. \A x \in Instance : TracerSame(x) /\ (InUse(inst'[x]) <=> InUse(inst[x]))
                          /\ (inst'[x].stage = "unused" => inst[x].stage = "unused")
  <2>1. CASE instances[h] = NoInstance
    BY <2>1 DEF spicedb_dispose, TracerSame
  <2>2. CASE instances[h] # NoInstance
    <3>1. instances[h] \in Instance /\ inst[instances[h]].stage = "live"
      BY <2>2 DEF TableInv, InstancesTypeOK, OrNil, RegistryConsistent
    <3>2. inst' = [inst EXCEPT ![instances[h]].stage = "disposing"]
      BY <2>2 DEF spicedb_dispose
    <3> QED BY <3>1, <3>2 DEF TableInv, InstancesTypeOK, InstanceFields, TracerSame, InUse
  <2> QED BY <2>1, <2>2
<1>4. TracerIdle
  BY <1>1, <1>2, <1>3 DEF TracerIdle
<1> QED BY <1>4, TracerIdlePreserves

\* A start: the one place that rests on the host's restraint.
LEMMA StartCallTracer ==
    ASSUME TracedOverlap = FALSE, TableInv, TableInv', LifeInv, TracerInv,
           NEW t \in Thread, NEW o \in Instance, NEW opt \in Options, spicedb_start(t, o, opt)
    PROVE  TracerInv'
<1>0. inst[o].stage = "unused" /\ UNCHANGED globalTP
      /\ \A u \in Thread \ {t} : thread'[u] = thread[u]
  BY DEF spicedb_start, Return, TableInv, InstancesTypeOK
<1>1. inst[o].tracerProvider = "none" /\ inst[o].prevTracerProvider = NoInstance
  BY <1>0 DEF LifeInv, AtRest, NothingBuilt, Unobserved, TracerInv
<1>2. CASE MissingURI(opt)
  <2>1. inst' = [inst EXCEPT ![o].stage = "failed", ![o].failure = "uri"] /\ Return(t, "error")
    BY <1>2 DEF spicedb_start
  <2>2. \A x \in Instance : TracerSame(x) /\ inst'[x].stage = IF x = o THEN "failed" ELSE inst[x].stage
    BY <2>1 DEF TableInv, InstancesTypeOK, InstanceFields, TracerSame
  <2>3. thread'[t].pc = "idle"
    BY <2>1, ThreadReturn DEF TableInv
  <2>4. TracerIdle
    BY <1>0, <2>2, <2>3 DEF TracerIdle, InUse
  <2> QED BY <2>4, TracerIdlePreserves
<1>3. CASE ~MissingURI(opt)
  <2> DEFINE begun == [op |-> "start", pc |-> "alloc", obj |-> o, result |-> "none"]
  <2>1. /\ inst' = [inst EXCEPT ![o].stage = "starting", ![o].opts = opt, ![o].ctx = "open"]
        /\ thread' = [thread EXCEPT ![t] = begun]
    BY <1>3 DEF spicedb_start
  <2>2. /\ \A x \in Instance \ {o} : inst'[x] = inst[x]
        /\ inst'[o].stage = "starting" /\ inst'[o].opts = opt
        /\ inst'[o].tracerProvider = "none" /\ inst'[o].prevTracerProvider = NoInstance
    BY <1>1, <2>1 DEF TableInv, InstancesTypeOK, InstanceFields
  <2>3. thread'[t].pc = "alloc"
    BY <2>1 DEF TableInv, InstancesTypeOK
  <2>4. UsesTracing(opt) => /\ \A x \in Instance : InUse(inst[x]) => ~UsesTracing(inst[x].opts)
                            /\ globalTP = NoInstance
    BY DEF spicedb_start, TracedInUse, InUse, TracerInv, TracerRestored
  <2>5. \A u \in Thread : thread'[u].pc \in {"tracerRestore", "removeSocket"} =>
            thread'[u] = thread[u] /\ thread[u].obj \in Instance \ {o}
    <3> TAKE u \in Thread
    <3> HAVE thread'[u].pc \in {"tracerRestore", "removeSocket"}
    <3>1. thread'[u] = thread[u]
      BY <1>0, <2>3
    <3>2. thread[u].op \in {"start", "dispose"} /\ thread[u].obj \in Instance
      BY <3>1, PcDeterminesOp DEF TableInv, CleanupPC, DisposePC
    <3>3. thread[u].obj # o
      BY <1>0, <3>2, InstancesAssumption DEF TableInv, SoleOwner
    <3> QED BY <3>1, <3>2, <3>3
  <2>6. TracerRestored'
    BY <1>0, <2>2 DEF TracerRestored, TracedInUse, TracerInv
  <2>7. (\A t1 \in Thread :
           /\ thread[t1].pc = "tracerRestore" => globalTP = thread[t1].obj
           /\ thread[t1].pc = "removeSocket" /\ UsesTracing(inst[thread[t1].obj].opts) =>
                  globalTP = NoInstance)'
    BY <1>0, <2>2, <2>5 DEF TracerInv
  <2> QED BY <1>0, <1>1, <2>2, <2>4, <2>6, <2>7 DEF TracerInv, InUse
<1> QED BY <1>2, <1>3

LEMMA InitTracer == InstancesInit => TracerInv
<1> SUFFICES ASSUME InstancesInit PROVE TracerInv
  OBVIOUS
<1>1. \A o \in Instance : inst[o].stage = "unused" /\ inst[o].prevTracerProvider = NoInstance
  BY DEF InstancesInit, NewInstance
<1>2. \A t \in Thread : thread[t].pc = "idle"
  BY DEF InstancesInit, Idle
<1> QED BY <1>1, <1>2 DEF TracerInv, InUse, TracerRestored, InstancesInit

LEMMA NextTracer ==
    ASSUME TracedOverlap = FALSE, TableInv, TableInv', LifeInv, TracerInv, [InstancesNext]_instVars
    PROVE  TracerInv'
<1>1. CASE UNCHANGED instVars
  BY <1>1 DEF instVars, TracerInv, TracerRestored, TracedInUse
<1>2. CASE InstancesNext
  BY <1>2, StartCallTracer, DisposeCallTracer, StartTracer, CleanupTracer, DisposeTracer,
     GoroutineTracer DEF InstancesNext, HostCall
<1> QED BY <1>1, <1>2

LEMMA TracerInvariant ==
    ASSUME TracedOverlap = FALSE
    PROVE  InstancesSpec => [](LifeInv /\ TracerInv)
<1>1. InstancesInit => TracerInv
  BY InitTracer
<1>2. TableInv /\ TableInv' /\ LifeInv /\ TracerInv /\ [InstancesNext]_instVars => TracerInv'
  BY NextTracer
<1> QED BY <1>1, <1>2, TableInvariant, LifeInvariant, PTL DEF InstancesSpec

\* If the host keeps to one traced instance at a time, the process gets back
\* the tracer provider it had, however the instance ended: its start failed at
\* any later step, or it was disposed of (main.go 349, 390-391).
THEOREM ProviderRestored ==
    ASSUME TracedOverlap = FALSE
    PROVE  InstancesSpec => []TracerRestored
<1>1. TracerInv => TracerRestored
  BY DEF TracerInv
<1> QED BY <1>1, TracerInvariant, PTL

\* ... and while it is served its spans go to a provider that exports
\* (main.go 398-402).
THEOREM ProviderUsable ==
    ASSUME TracedOverlap = FALSE
    PROVE  InstancesSpec => []LiveTracerUsable
<1>1. LifeInv /\ TracerInv => LiveTracerUsable
  BY InstancesAssumption DEF LifeInv, AtRest, Ready, Observed, TracerInv, InUse, LiveTracerUsable
<1> QED BY <1>1, TracerInvariant, PTL
=============================================================================
