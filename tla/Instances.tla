----------------------------- MODULE Instances -----------------------------
(***************************************************************************)
(* The instance table of the C-shared library and the two exported         *)
(* functions that change it, spicedb_start and spicedb_dispose             *)
(* (shared/c/main.go), run by any number of host threads at once.          *)
(*                                                                         *)
(* An element of Instance is one call of spicedb_start: the Instance       *)
(* struct that call builds.  Its handle is inst[o].id, given out by the    *)
(* global counter nextID, and the table "instances" maps handles to        *)
(* structs.  Identity and handle are kept apart on purpose: that a handle  *)
(* never leads to another caller's instance is something to check.         *)
(*                                                                         *)
(* Each action is the code between two points where another thread or      *)
(* goroutine can observe the state.                                        *)
(***************************************************************************)
EXTENDS Naturals

CONSTANTS
    Thread,        \* host threads that call spicedb_start / spicedb_dispose
    Instance,      \* start calls; each builds at most one Instance struct
    NoInstance,    \* nil; as a tracer provider, the one the host installed
    Options,       \* the StartOptions the host uses
    Faults,        \* the external steps of a start that may fail
    TracedOverlap, \* may the host run two traced instances at a time?
    MaxHandle      \* bound on nextID

FaultKinds == {"datastore", "server", "otel", "metrics", "run", "client", "remove", "listen"}

ASSUME InstancesAssumption ==
    /\ NoInstance \notin Instance
    /\ Options # {}
    /\ Options \subseteq [remote : BOOLEAN, uri : BOOLEAN, metrics : BOOLEAN,
                          otlp : BOOLEAN, port : Nat]
    /\ Faults \subseteq FaultKinds
    /\ TracedOverlap \in BOOLEAN
    /\ MaxHandle \in Nat

VARIABLES
    nextID,     \* handle counter (atomic)
    instances,  \* handle -> Instance, guarded by instanceMu
    inst,       \* the fields of every Instance struct
    thread,     \* what each host thread is executing
    sock,       \* handles whose streaming socket file exists on disk
    globalTP    \* the process-wide OpenTelemetry TracerProvider

instVars == <<nextID, instances, inst, thread, sock, globalTP>>

Handle == 1..MaxHandle
OrNil == Instance \cup {NoInstance}

StartPC == {"alloc", "datastore", "server", "otelGet", "otelSet", "metrics",
            "run", "client", "proxy", "publish", "failWait"}
DisposePC == {"cancel", "closeConn", "gracefulStop", "graceWait",
              "closeListener", "wait", "removeSocket"}
CleanupPC == {"cleanup", "tracerShutdown", "tracerRestore"}

\* The Instance struct, the resources it points to, and what the caller of
\* spicedb_start / spicedb_dispose has been told about it (stage, failure).
InstanceFields ==
    [stage : {"unused", "starting", "failed", "live", "disposing", "disposed"},
     failure : FaultKinds \cup {"none", "uri"},
     id : 0..MaxHandle,
     opts : Options,
     ctx : {"none", "open", "cancelled"},
     datastore : {"none", "open", "closed"},
     server : {"none", "created", "running", "exited"},
     clientConn : {"none", "open", "closed"},
     streamingServer : {"none", "built", "stopping", "stopped"},
     serve : {"none", "spawned", "running", "exited"},
     streamingListener : {"none", "open", "closed"},
     tracerProvider : {"none", "active", "shutdown"},
     prevTracerProvider : OrNil,
     metricsServer : {"none", "spawned", "serving", "shutdown"},
     metricsPort : {"free", "bound"}]

NewInstance ==
    [stage |-> "unused", failure |-> "none", id |-> 0,
     opts |-> CHOOSE opt \in Options : TRUE,
     ctx |-> "none", datastore |-> "none", server |-> "none",
     clientConn |-> "none", streamingServer |-> "none", serve |-> "none",
     streamingListener |-> "none", tracerProvider |-> "none",
     prevTracerProvider |-> NoInstance, metricsServer |-> "none",
     metricsPort |-> "free"]

Idle(res) == [op |-> "none", pc |-> "idle", obj |-> NoInstance, result |-> res]

\* A process that starts in a temporary directory where crashed processes of
\* the same pid, perhaps of other users, may have left socket files behind:
\* sock is arbitrary.
InstancesInit ==
    /\ nextID = 0
    /\ instances = [h \in Handle |-> NoInstance]
    /\ inst = [o \in Instance |-> NewInstance]
    /\ thread = [t \in Thread |-> Idle("none")]
    /\ sock \in SUBSET Handle
    /\ globalTP = NoInstance

-----------------------------------------------------------------------------
\* Options.

UsesTracing(opt) == opt.metrics /\ opt.otlp
UsesMetricsPort(opt) == opt.metrics /\ opt.port > 0
MissingURI(opt) == opt.remote /\ ~opt.uri

PortInUse(p) == \E o \in Instance : inst[o].metricsPort = "bound" /\ inst[o].opts.port = p

TracedInUse ==
    \E o \in Instance : /\ inst[o].stage \in {"starting", "live", "disposing"}
                        /\ UsesTracing(inst[o].opts)

-----------------------------------------------------------------------------
\* Thread t, executing at pc on instance o, goes on to next.

At(t, pc) == thread[t].pc = pc
Goto(t, next) == thread' = [thread EXCEPT ![t].pc = next]
Return(t, res) == thread' = [thread EXCEPT ![t] = Idle(res)]

AfterServer(opt) ==
    IF UsesTracing(opt) THEN "otelGet"
    ELSE IF UsesMetricsPort(opt) THEN "metrics" ELSE "run"
AfterTracing(opt) == IF UsesMetricsPort(opt) THEN "metrics" ELSE "run"

-----------------------------------------------------------------------------
\* spicedb_start.

\* The call comes in; a remote engine without a URI is refused before
\* anything is allocated.
spicedb_start(t, o, opt) ==
    /\ At(t, "idle")
    /\ inst[o].stage = "unused"
    /\ UsesTracing(opt) => TracedOverlap \/ ~TracedInUse
    /\ \/ /\ MissingURI(opt)
          /\ inst' = [inst EXCEPT ![o].stage = "failed", ![o].failure = "uri"]
          /\ Return(t, "error")
       \/ /\ ~MissingURI(opt)
          /\ inst' = [inst EXCEPT ![o].stage = "starting", ![o].opts = opt,
                                  ![o].ctx = "open"]
          /\ thread' = [thread EXCEPT ![t] = [op |-> "start", pc |-> "alloc",
                                              obj |-> o, result |-> "none"]]
    /\ UNCHANGED <<nextID, instances, sock, globalTP>>

\* Mutant of AllocateID: the counter is read and not advanced.
AllocateIDLost(t) ==
    /\ At(t, "alloc")
    /\ nextID < MaxHandle
    /\ inst' = [inst EXCEPT ![thread[t].obj].id = nextID + 1]
    /\ Goto(t, "datastore")
    /\ UNCHANGED <<nextID, instances, sock, globalTP>>

\* id := atomic.AddUint64(&nextID, 1)
AllocateID(t) ==
    /\ At(t, "alloc")
    /\ nextID < MaxHandle
    /\ nextID' = nextID + 1
    /\ inst' = [inst EXCEPT ![thread[t].obj].id = nextID + 1]
    /\ Goto(t, "datastore")
    /\ UNCHANGED <<instances, sock, globalTP>>

\* cancel() and return makeError(...), with nothing else released.
FailAtOnce(t, kind) ==
    LET o == thread[t].obj IN
    /\ kind \in Faults
    /\ inst' = [inst EXCEPT ![o].ctx = "cancelled", ![o].stage = "failed",
                            ![o].failure = kind]
    /\ Return(t, "error")
    /\ UNCHANGED <<nextID, instances, sock, globalTP>>

newDatastoreFromOpts(t) ==
    LET o == thread[t].obj IN
    /\ At(t, "datastore")
    /\ \/ FailAtOnce(t, "datastore")
       \/ /\ inst' = [inst EXCEPT ![o].datastore = "open"]
          /\ Goto(t, "server")
          /\ UNCHANGED <<nextID, instances, sock, globalTP>>

newSpiceDBServerFromDatastore(t) ==
    LET o == thread[t].obj IN
    /\ At(t, "server")
    /\ \/ FailAtOnce(t, "server")
       \/ /\ inst' = [inst EXCEPT ![o].server = "created"]
          /\ Goto(t, AfterServer(inst[o].opts))
          /\ UNCHANGED <<nextID, instances, sock, globalTP>>

\* setupOTelTracing reads the global provider and, in a later step, replaces
\* it; no lock is held in between.
otelGet(t) ==
    LET o == thread[t].obj IN
    /\ At(t, "otelGet")
    /\ \/ FailAtOnce(t, "otel")
       \/ /\ inst' = [inst EXCEPT ![o].prevTracerProvider = globalTP]
          /\ Goto(t, "otelSet")
          /\ UNCHANGED <<nextID, instances, sock, globalTP>>

\* Mutant of otelSet: the provider is built and never made the global one.
otelSetForgotten(t) ==
    /\ At(t, "otelSet")
    /\ inst' = [inst EXCEPT ![thread[t].obj].tracerProvider = "active"]
    /\ Goto(t, AfterTracing(inst[thread[t].obj].opts))
    /\ UNCHANGED <<nextID, instances, sock, globalTP>>

otelSet(t) ==
    LET o == thread[t].obj IN
    /\ At(t, "otelSet")
    /\ globalTP' = o
    /\ inst' = [inst EXCEPT ![o].tracerProvider = "active"]
    /\ Goto(t, AfterTracing(inst[o].opts))
    /\ UNCHANGED <<nextID, instances, sock>>

\* The bind fails when the port is taken (by any instance, or by someone
\* else: the fault); then cancel() and cleanupObservability.
startMetricsServer(t) ==
    LET o == thread[t].obj IN
    /\ At(t, "metrics")
    /\ \/ /\ PortInUse(inst[o].opts.port) \/ "metrics" \in Faults
          /\ inst' = [inst EXCEPT ![o].ctx = "cancelled", ![o].failure = "metrics"]
          /\ Goto(t, "cleanup")
       \/ /\ ~PortInUse(inst[o].opts.port)
          /\ inst' = [inst EXCEPT ![o].metricsServer = "spawned",
                                  ![o].metricsPort = "bound"]
          /\ Goto(t, "run")
    /\ UNCHANGED <<nextID, instances, sock, globalTP>>

\* wg.Go(instance.server.Run)
RunServer(t) ==
    /\ At(t, "run")
    /\ inst' = [inst EXCEPT ![thread[t].obj].server = "running"]
    /\ Goto(t, "client")
    /\ UNCHANGED <<nextID, instances, sock, globalTP>>

\* cancel(), then wg.Wait() and cleanupObservability
FailAndWait(t, kind) ==
    /\ inst' = [inst EXCEPT ![thread[t].obj].ctx = "cancelled",
                            ![thread[t].obj].failure = kind]
    /\ Goto(t, "failWait")

\* Mutant of NewClient: the connection is not kept in the struct.
NewClientForgotten(t) ==
    /\ At(t, "client")
    /\ Goto(t, "proxy")
    /\ UNCHANGED <<nextID, instances, inst, sock, globalTP>>

NewClient(t) ==
    /\ At(t, "client")
    /\ \/ "client" \in Faults /\ FailAndWait(t, "client")
       \/ /\ inst' = [inst EXCEPT ![thread[t].obj].clientConn = "open"]
          /\ Goto(t, "proxy")
    /\ UNCHANGED <<nextID, instances, sock, globalTP>>

\* Mutant of ClearSocketPath: no os.Remove before the bind.
ClearSocketPathSkipped(id) == sock

\* os.Remove(addr), net.Listen("unix", addr) and, on success, the gRPC server
\* with its Serve goroutine.  A path that exists cannot be bound, and the error
\* of a Remove that fails (the file is another user's) is dropped.
ClearSocketPath(id) == sock \ {id}

startStreamingProxy(t) ==
    LET o == thread[t].obj
        id == inst[o].id IN
    /\ At(t, "proxy")
    /\ \E removes \in IF "remove" \in Faults THEN BOOLEAN ELSE {TRUE} :
          LET left == IF removes THEN ClearSocketPath(id) ELSE sock IN
          \/ /\ id \in left \/ "listen" \in Faults
             /\ sock' = left
             /\ FailAndWait(t, IF id \in left /\ ~removes THEN "remove" ELSE "listen")
          \/ /\ id \notin left
             /\ sock' = left \cup {id}
             /\ inst' = [inst EXCEPT ![o].streamingListener = "open",
                                     ![o].streamingServer = "built",
                                     ![o].serve = "spawned"]
             /\ Goto(t, "publish")
    /\ UNCHANGED <<nextID, instances, globalTP>>

\* Mutant of Publish: the entry is made under the counter's present value.
PublishAtCounter(t) ==
    LET o == thread[t].obj IN
    /\ At(t, "publish")
    /\ instances' = [instances EXCEPT ![nextID] = o]
    /\ inst' = [inst EXCEPT ![o].stage = "live"]
    /\ Return(t, "ok")
    /\ UNCHANGED <<nextID, sock, globalTP>>

Publish(t) ==
    LET o == thread[t].obj IN
    /\ At(t, "publish")
    /\ instances' = [instances EXCEPT ![inst[o].id] = o]
    /\ inst' = [inst EXCEPT ![o].stage = "live"]
    /\ Return(t, "ok")
    /\ UNCHANGED <<nextID, sock, globalTP>>

\* Mutant of FailWait: a failed start does not wait for Run.
FailWaitSkipped(t) ==
    /\ At(t, "failWait")
    /\ Goto(t, "cleanup")
    /\ UNCHANGED <<nextID, instances, inst, sock, globalTP>>

\* wg.Wait() of a failed start: only the Run goroutine is in the group.
FailWait(t) ==
    /\ At(t, "failWait")
    /\ inst[thread[t].obj].server = "exited"
    /\ Goto(t, "cleanup")
    /\ UNCHANGED <<nextID, instances, inst, sock, globalTP>>

-----------------------------------------------------------------------------
\* cleanupObservability, called by a failing start and by dispose.

\* Mutant of LeaveCleanup: a failing start goes on as a dispose does.
LeaveCleanupAsDispose(t, s) ==
    /\ inst' = [inst EXCEPT ![thread[t].obj] = s]
    /\ Goto(t, "removeSocket")

\* The caller goes on: a failing start returns its error, dispose removes the
\* socket file.
LeaveCleanup(t, s) ==
    LET o == thread[t].obj IN
    \/ /\ thread[t].op = "start"
       /\ inst' = [inst EXCEPT ![o] = [s EXCEPT !.stage = "failed"]]
       /\ Return(t, "error")
    \/ /\ thread[t].op = "dispose"
       /\ inst' = [inst EXCEPT ![o] = s]
       /\ Goto(t, "removeSocket")

\* Mutant of ShutdownMetrics: the metrics server is not shut down.
ShutdownMetricsSkipped(s) == s

\* metricsServer.Shutdown.  It closes the listener only if the goroutine that
\* was to serve it has got as far as registering it.
ShutdownMetrics(s) ==
    IF s.metricsServer = "none" THEN s
    ELSE [s EXCEPT !.metricsServer = "shutdown",
                   !.metricsPort = IF s.metricsServer = "spawned" THEN "bound" ELSE "free"]

CleanupMetrics(t) ==
    LET o == thread[t].obj
        s == ShutdownMetrics(inst[o]) IN
    /\ At(t, "cleanup")
    /\ \/ /\ s.tracerProvider = "none"
          /\ LeaveCleanup(t, s)
       \/ /\ s.tracerProvider # "none"
          /\ inst' = [inst EXCEPT ![o] = s]
          /\ Goto(t, "tracerShutdown")
    /\ UNCHANGED <<nextID, instances, sock, globalTP>>

TracerShutdown(t) ==
    /\ At(t, "tracerShutdown")
    /\ inst' = [inst EXCEPT ![thread[t].obj].tracerProvider = "shutdown"]
    /\ Goto(t, "tracerRestore")
    /\ UNCHANGED <<nextID, instances, sock, globalTP>>

\* Mutant of TracerRestore: the provider that was shut down stays the global one.
TracerRestoreSkipped(t) ==
    /\ At(t, "tracerRestore")
    /\ LeaveCleanup(t, inst[thread[t].obj])
    /\ UNCHANGED <<nextID, instances, sock, globalTP>>

\* otel.SetTracerProvider(instance.prevTracerProvider)
TracerRestore(t) ==
    LET o == thread[t].obj IN
    /\ At(t, "tracerRestore")
    /\ globalTP' = inst[o].prevTracerProvider
    /\ LeaveCleanup(t, inst[o])
    /\ UNCHANGED <<nextID, instances, sock>>

-----------------------------------------------------------------------------
\* spicedb_dispose.

\* Mutant of spicedb_dispose: the handle is not deleted from the table.
spicedb_disposeKeepsEntry(t, h) ==
    /\ At(t, "idle")
    /\ instances[h] # NoInstance
    /\ inst' = [inst EXCEPT ![instances[h]].stage = "disposing"]
    /\ thread' = [thread EXCEPT ![t] = [op |-> "dispose", pc |-> "cancel",
                                        obj |-> instances[h], result |-> "none"]]
    /\ UNCHANGED <<nextID, instances, sock, globalTP>>

\* The critical section: look the handle up and delete it.  Any integer can be
\* passed; one that is not in the table is an error.
spicedb_dispose(t, h) ==
    /\ At(t, "idle")
    /\ \/ /\ instances[h] = NoInstance
          /\ Return(t, "error")
          /\ UNCHANGED <<instances, inst>>
       \/ /\ instances[h] # NoInstance
          /\ instances' = [instances EXCEPT ![h] = NoInstance]
          /\ inst' = [inst EXCEPT ![instances[h]].stage = "disposing"]
          /\ thread' = [thread EXCEPT ![t] = [op |-> "dispose", pc |-> "cancel",
                                              obj |-> instances[h],
                                              result |-> "none"]]
    /\ UNCHANGED <<nextID, sock, globalTP>>

\* Mutant of Cancel: the context is not cancelled.
CancelSkipped(t) ==
    /\ At(t, "cancel")
    /\ Goto(t, "closeConn")
    /\ UNCHANGED <<nextID, instances, inst, sock, globalTP>>

Cancel(t) ==
    /\ At(t, "cancel")
    /\ inst' = [inst EXCEPT ![thread[t].obj].ctx = "cancelled"]
    /\ Goto(t, "closeConn")
    /\ UNCHANGED <<nextID, instances, sock, globalTP>>

\* Mutant of CloseConn: the in-memory connection stays open.
CloseConnSkipped(t) ==
    /\ At(t, "closeConn")
    /\ Goto(t, "gracefulStop")
    /\ UNCHANGED <<nextID, instances, inst, sock, globalTP>>

CloseConn(t) ==
    /\ At(t, "closeConn")
    /\ inst' = [inst EXCEPT ![thread[t].obj].clientConn = "closed"]
    /\ Goto(t, "gracefulStop")
    /\ UNCHANGED <<nextID, instances, sock, globalTP>>

\* streamingServer.GracefulStop() refuses new streams, closes the listener if
\* Serve has registered it (which unlinks the socket file), and waits.
GracefulStop(t) ==
    LET o == thread[t].obj IN
    /\ At(t, "gracefulStop")
    /\ \/ /\ inst[o].serve = "running"
          /\ inst' = [inst EXCEPT ![o].streamingServer = "stopping",
                                  ![o].streamingListener = "closed"]
          /\ sock' = sock \ {inst[o].id}
       \/ /\ inst[o].serve # "running"
          /\ inst' = [inst EXCEPT ![o].streamingServer = "stopping"]
          /\ UNCHANGED sock
    /\ Goto(t, "graceWait")
    /\ UNCHANGED <<nextID, instances, globalTP>>

\* Mutant of GracefulStopReturns: handlers are not waited for.
GracefulStopReturnsAtOnce(t, drained) ==
    /\ At(t, "graceWait")
    /\ inst' = [inst EXCEPT ![thread[t].obj].streamingServer = "stopped"]
    /\ Goto(t, "closeListener")
    /\ UNCHANGED <<nextID, instances, sock, globalTP>>

\* ... until no forwarded stream is left (drained).
GracefulStopReturns(t, drained) ==
    /\ At(t, "graceWait")
    /\ drained
    /\ inst' = [inst EXCEPT ![thread[t].obj].streamingServer = "stopped"]
    /\ Goto(t, "closeListener")
    /\ UNCHANGED <<nextID, instances, sock, globalTP>>

CloseListener(t) ==
    LET o == thread[t].obj IN
    /\ At(t, "closeListener")
    /\ inst' = [inst EXCEPT ![o].streamingListener = "closed"]
    /\ sock' = sock \ {inst[o].id}
    /\ Goto(t, "wait")
    /\ UNCHANGED <<nextID, instances, globalTP>>

\* Mutant of DisposeWait: no wg.Wait.
DisposeWaitSkipped(t) ==
    /\ At(t, "wait")
    /\ Goto(t, "cleanup")
    /\ UNCHANGED <<nextID, instances, inst, sock, globalTP>>

\* wg.Wait(): the Run and the Serve goroutine.
DisposeWait(t) ==
    LET o == thread[t].obj IN
    /\ At(t, "wait")
    /\ inst[o].server = "exited"
    /\ inst[o].serve = "exited"
    /\ Goto(t, "cleanup")
    /\ UNCHANGED <<nextID, instances, inst, sock, globalTP>>

RemoveSocket(t) ==
    LET o == thread[t].obj IN
    /\ At(t, "removeSocket")
    /\ sock' = sock \ {inst[o].id}
    /\ inst' = [inst EXCEPT ![o].stage = "disposed"]
    /\ Return(t, "ok")
    /\ UNCHANGED <<nextID, instances, globalTP>>

-----------------------------------------------------------------------------
\* The goroutines an instance owns (SpiceDB, gRPC and net/http are external).

\* RunnableServer.Run returns after its context is cancelled, once its own
\* graceful stop has no request left to wait for (quiet); it closes the
\* datastore.
ServerRunExits(o, quiet) ==
    /\ inst[o].server = "running"
    /\ inst[o].ctx = "cancelled"
    /\ quiet
    /\ inst' = [inst EXCEPT ![o].server = "exited", ![o].datastore = "closed"]
    /\ UNCHANGED <<nextID, instances, thread, sock, globalTP>>

\* Run fails by itself.  The errgroup keeps the error; nobody looks at it
\* before wg.Wait, so the instance stays in the table.
ServerRunFails(o, quiet) ==
    /\ "run" \in Faults
    /\ inst[o].server = "running"
    /\ inst[o].ctx = "open"
    /\ quiet
    /\ inst' = [inst EXCEPT ![o].server = "exited", ![o].datastore = "closed"]
    /\ UNCHANGED <<nextID, instances, thread, sock, globalTP>>

\* srv.Serve(lis) registers the listener and accepts.
ServeBegins(o) ==
    /\ inst[o].serve = "spawned"
    /\ inst[o].streamingServer = "built"
    /\ inst' = [inst EXCEPT ![o].serve = "running"]
    /\ UNCHANGED <<nextID, instances, thread, sock, globalTP>>

\* Serve returns when the server has stopped.  A Serve that comes too late
\* finds the server stopping and closes the listener itself.
ServeExits(o) ==
    /\ \/ inst[o].serve = "running" /\ inst[o].streamingServer = "stopped"
       \/ inst[o].serve = "spawned" /\ inst[o].streamingServer \in {"stopping", "stopped"}
    /\ inst' = [inst EXCEPT ![o].serve = "exited", ![o].streamingListener = "closed"]
    /\ sock' = sock \ {inst[o].id}
    /\ UNCHANGED <<nextID, instances, thread, globalTP>>

\* go func() { _ = srv.Serve(ln) }() of the metrics server; a Serve that comes
\* after Shutdown closes the listener and returns.
MetricsServeBegins(o) ==
    /\ inst[o].metricsServer = "spawned"
    /\ inst' = [inst EXCEPT ![o].metricsServer = "serving"]
    /\ UNCHANGED <<nextID, instances, thread, sock, globalTP>>

MetricsServeTooLate(o) ==
    /\ inst[o].metricsServer = "shutdown"
    /\ inst[o].metricsPort = "bound"
    /\ inst' = [inst EXCEPT ![o].metricsPort = "free"]
    /\ UNCHANGED <<nextID, instances, thread, sock, globalTP>>

-----------------------------------------------------------------------------
\* What a thread does by itself once it is inside a call.
StartStep(t) ==
    \/ AllocateID(t)
    \/ newDatastoreFromOpts(t)
    \/ newSpiceDBServerFromDatastore(t)
    \/ otelGet(t)
    \/ otelSet(t)
    \/ startMetricsServer(t)
    \/ RunServer(t)
    \/ NewClient(t)
    \/ startStreamingProxy(t)
    \/ Publish(t)
    \/ FailWait(t)

CleanupStep(t) ==
    \/ CleanupMetrics(t)
    \/ TracerShutdown(t)
    \/ TracerRestore(t)

DisposeStep(t, drained) ==
    \/ Cancel(t)
    \/ CloseConn(t)
    \/ GracefulStop(t)
    \/ GracefulStopReturns(t, drained)
    \/ CloseListener(t)
    \/ DisposeWait(t)
    \/ RemoveSocket(t)

GoroutineStep(o, quiet) ==
    \/ ServerRunExits(o, quiet)
    \/ ServeBegins(o)
    \/ ServeExits(o)
    \/ MetricsServeBegins(o)
    \/ MetricsServeTooLate(o)

HostCall(t) ==
    \/ \E o \in Instance, opt \in Options : spicedb_start(t, o, opt)
    \/ \E h \in Handle : spicedb_dispose(t, h)

\* The library with every wait for a request taken as over: what start and
\* dispose do to the table, whatever the requests do.
InstancesNext ==
    \/ \E t \in Thread : \/ HostCall(t)
                         \/ StartStep(t)
                         \/ CleanupStep(t)
                         \/ DisposeStep(t, TRUE)
    \/ \E o \in Instance : GoroutineStep(o, TRUE) \/ ServerRunFails(o, TRUE)

InstancesSpec == InstancesInit /\ [][InstancesNext]_instVars

\* A thread inside a call and a goroutine of the library keep running; nobody
\* is obliged to make a call, and nothing is obliged to fail.
InstancesFairness ==
    /\ \A t \in Thread : WF_instVars(StartStep(t) \/ CleanupStep(t) \/ DisposeStep(t, TRUE))
    /\ \A o \in Instance : /\ WF_instVars(ServerRunExits(o, TRUE))
                           /\ WF_instVars(ServeBegins(o) \/ ServeExits(o))
                           /\ WF_instVars(MetricsServeBegins(o) \/ MetricsServeTooLate(o))

InstancesFairSpec == InstancesSpec /\ InstancesFairness

-----------------------------------------------------------------------------
\* Properties.

ThreadStates ==
    [op : {"none"}, pc : {"idle"}, obj : {NoInstance},
     result : {"none", "ok", "error"}]
    \cup [op : {"start"}, pc : StartPC \cup CleanupPC, obj : Instance, result : {"none"}]
    \cup [op : {"dispose"}, pc : DisposePC \cup CleanupPC, obj : Instance, result : {"none"}]

InstancesTypeOK ==
    /\ nextID \in 0..MaxHandle
    /\ instances \in [Handle -> OrNil]
    /\ inst \in [Instance -> InstanceFields]
    /\ thread \in [Thread -> ThreadStates]
    /\ sock \in SUBSET Handle
    /\ globalTP \in OrNil

\* The table and the structs agree: a handle leads to the instance that was
\* given that handle and to no other, every started instance that nobody has
\* disposed of can be found, and no two starts are given the same handle
\* (main.go 182, 246-248, 412-417).
RegistryConsistent ==
    /\ \A h \in Handle : instances[h] # NoInstance =>
           /\ inst[instances[h]].id = h
           /\ inst[instances[h]].stage = "live"
    /\ \A o \in Instance : inst[o].stage = "live" =>
           inst[o].id \in Handle /\ instances[inst[o].id] = o
    /\ \A o1, o2 \in Instance :
           inst[o1].id # 0 /\ inst[o1].id = inst[o2].id => o1 = o2

\* Start and dispose touch the fields of a struct without a lock.  That is
\* safe because a struct being built or torn down is in the hands of one
\* thread, and a struct in the table in the hands of none (main.go 180, 423-443).
SoleOwner ==
    /\ \A t1, t2 \in Thread :
           thread[t1].obj # NoInstance /\ thread[t1].obj = thread[t2].obj => t1 = t2
    /\ \A t \in Thread : thread[t].obj # NoInstance =>
           inst[thread[t].obj].stage =
               IF thread[t].op = "start" THEN "starting" ELSE "disposing"

\* A handle in the table leads to an instance whose parts all exist: a call
\* through it never meets a nil connection, and its socket can be dialled
\* (main.go 236, 244, 247; rpc.go 37).
RegisteredIsReady ==
    \A h \in Handle : instances[h] # NoInstance =>
        LET o == instances[h] IN
        /\ inst[o].ctx = "open"
        /\ inst[o].clientConn = "open"
        /\ inst[o].streamingListener = "open"
        /\ inst[o].serve \in {"spawned", "running"}
        /\ h \in sock

\* When dispose has returned, what is left of the instance is at most the
\* metrics port with the goroutine that was to serve it, and that only if the
\* goroutine has not run yet: Shutdown does not know its listener, and closing
\* it is up to the goroutine (main.go 386, 396).  No other goroutine, no
\* connection, no listener, no socket file, no datastore and no tracer is left.
\* shared/c/README.md:70 says more, "Frees all resources"; MetricsPortReleased
\* is what there is of the rest.
DisposedLeavesOnlyPort ==
    \A o \in Instance : inst[o].stage = "disposed" =>
        /\ inst[o].ctx = "cancelled"
        /\ inst[o].server = "exited"
        /\ inst[o].serve = "exited"
        /\ inst[o].clientConn = "closed"
        /\ inst[o].streamingListener = "closed"
        /\ inst[o].datastore = "closed"
        /\ inst[o].tracerProvider # "active"
        /\ inst[o].metricsServer \in {"none", "shutdown"}
        /\ inst[o].metricsPort = "bound" =>
               inst[o].metricsServer = "shutdown" /\ UsesMetricsPort(inst[o].opts)
        /\ inst[o].id \notin sock

\* A start that returned an error has stopped what it had started, at
\* whichever step it failed (main.go 184-243): no goroutine, no listener, no
\* tracer and no table entry is left.  What it does leave is exactly a
\* datastore and a server that was never run, and the client connection of a
\* start whose listener could not be bound; its metrics port may be bound a
\* while longer, as after a dispose.
FailedStartStops ==
    \A o \in Instance : inst[o].stage = "failed" =>
        /\ inst[o].ctx # "open"
        /\ inst[o].server # "running"
        /\ inst[o].serve = "none"
        /\ inst[o].streamingListener = "none"
        /\ inst[o].tracerProvider # "active"
        /\ inst[o].metricsServer \in {"none", "shutdown"}
        /\ inst[o].datastore = "open" => inst[o].failure \in {"server", "otel", "metrics"}
        /\ inst[o].clientConn = "open" => inst[o].failure \in {"remove", "listen"}
        /\ \A h \in Handle : instances[h] # o

\* A socket file left by a crashed process of the same pid keeps an instance
\* from starting only if it cannot be removed, an error that the code drops: any
\* other bind that failed did so with the path clear, and leaves it clear; and
\* no later start or dispose removes the file that was in the way
\* (streaming_proxy.go 152-157).
StaleSocketHarmless ==
    \A o \in Instance :
        /\ inst[o].failure = "listen" => inst[o].id \notin sock
        /\ inst[o].failure = "remove" => inst[o].id \in sock

\* Once no instance uses tracing, the process has the tracer provider it had
\* before (main.go 349, 390-391: "restoring the previous global
\* TracerProvider").
TracerRestored == ~TracedInUse => globalTP = NoInstance

\* While a traced instance is being served, spans go to a provider that still
\* exports (main.go 398-402: Shutdown comes before the restore).
LiveTracerUsable ==
    \A o \in Instance : inst[o].stage = "live" /\ UsesTracing(inst[o].opts) =>
        globalTP # NoInstance /\ inst[globalTP].tracerProvider = "active"

\* A handle that was disposed of, or whose start failed, never leads anywhere
\* again (main.go 182: ids are never reused).
RetiredStaysRetired ==
    [][\A h \in Handle :
          (\E o \in Instance : /\ inst[o].id = h
                               /\ inst[o].stage \in {"disposing", "disposed", "failed"})
          => instances'[h] = NoInstance]_instVars

\* Every call of spicedb_start and of spicedb_dispose returns, however the
\* start fails and whether or not Run has died (main.go 232, 240, 423-437).
CallsReturn == \A t \in Thread : thread[t].op # "none" ~> thread[t].op = "none"

\* The metrics port is free again some time after its instance is gone, even
\* if the instance was torn down before its Serve goroutine ran (main.go 386, 396).
MetricsPortReleased ==
    \A o \in Instance : inst[o].stage \in {"failed", "disposed"} ~> inst[o].metricsPort = "free"

=============================================================================
