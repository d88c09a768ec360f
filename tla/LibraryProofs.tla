---------------------------- MODULE LibraryProofs ----------------------------
(***************************************************************************)
(* Proofs about the whole library.  Its steps are steps of Instances or    *)
(* leave it alone, so that the table invariant of InstancesProofs holds    *)
(* while requests and streams are under way; the invariants of requests    *)
(* and of streams are then proved on top of it.                            *)
(***************************************************************************)
EXTENDS Library, InstancesProofs

LEMMA RequestLeavesInstances ==
    ASSUME NEW c \in Call, HostRpc(c) \/ RpcStep(c) \/ BackendStep(c)
    PROVE  UNCHANGED instVars
<1>1. CASE HostRpc(c)
  BY <1>1 DEF HostRpc, spicedb_rpc, MethodExport
<1>2. CASE RpcStep(c)
  BY <1>2 DEF RpcStep, runRPC, InvokeReturns, InvokeFails, InvokeTimesOut
<1>3. CASE BackendStep(c)
  BY <1>3 DEF BackendStep, BackendAccepts, BackendApplies, BackendAborts
<1> QED BY <1>1, <1>2, <1>3

LEMMA StreamLeavesInstances ==
    ASSUME NEW s \in Stream, ClientStep(s) \/ ProxyStep(s) \/ BackendStreamStep(s)
    PROVE  UNCHANGED instVars
<1>1. CASE ClientStep(s)
  BY <1>1 DEF ClientStep, ClientOpens, ClientReads, ClientLeaves
<1>2. CASE ProxyStep(s)
  BY <1>2 DEF ProxyStep, OpenBackend, RecvMessage, RecvEOF, RecvError, SendMessage, SendError
<1>3. CASE BackendStreamStep(s)
  BY <1>3 DEF BackendStreamStep, BackendProduces, BackendEnds, BackendCancelled
<1> QED BY <1>1, <1>2, <1>3

\* Every wait the library really makes is one that Instances takes as over.
LEMMA NextOfInstances ==
    ASSUME [Next]_vars
    PROVE  [InstancesNext]_instVars
<1>1. CASE UNCHANGED vars
  BY <1>1 DEF vars, instVars
<1>2. CASE RequestStep
  <2>1. PICK c \in Call : HostRpc(c) \/ RpcStep(c) \/ BackendStep(c)
    BY <1>2 DEF RequestStep
  <2>2. UNCHANGED instVars
    BY <2>1, RequestLeavesInstances
  <2> QED BY <2>2
<1>3. CASE StreamStep
  <2>1. PICK s \in Stream : ClientStep(s) \/ ProxyStep(s) \/ BackendStreamStep(s)
    BY <1>3 DEF StreamStep
  <2>2. UNCHANGED instVars
    BY <2>1, StreamLeavesInstances
  <2> QED BY <2>2
<1>4. CASE LifecycleStep
  <2>1. ASSUME NEW t \in Thread, DisposeStep(t, Drained(t))
        PROVE  DisposeStep(t, TRUE)
    BY <2>1 DEF DisposeStep, GracefulStopReturns
  <2>2. ASSUME NEW o \in Instance, GoroutineStep(o, Quiet(o)) \/ ServerRunFails(o, Quiet(o))
        PROVE  GoroutineStep(o, TRUE) \/ ServerRunFails(o, TRUE)
    BY <2>2 DEF GoroutineStep, ServerRunExits, ServerRunFails
  <2> QED BY <1>4, <2>1, <2>2 DEF LifecycleStep, ThreadStep, InstancesNext
<1> QED BY <1>1, <1>2, <1>3, <1>4 DEF Next

\* Requests and streams never disturb what start and dispose do: the library
\* as a whole behaves, for its table and its structs, as Instances says.
THEOREM LibraryRunsInstances == Spec => InstancesSpec
<1>1. Init => InstancesInit
  BY DEF Init
<1>2. [Next]_vars => [InstancesNext]_instVars
  BY NextOfInstances
<1> QED BY <1>1, <1>2, PTL DEF Spec, InstancesSpec

-----------------------------------------------------------------------------
\* Requests.

LEMMA TableInLibrary == Spec => []TableInv
BY LibraryRunsInstances, TableInvariant, PTL

CallsType == call \in [Call -> CallStates]

\* What a request knows and has done at each point of runRPC.
CallProgress ==
    \A c \in Call :
        /\ call[c].pc \in {"idle", "lookup"} => call[c].obj = NoInstance /\ call[c].result = "none"
        /\ call[c].pc # "idle" => call[c].h \in Handle
        /\ call[c].pc = "invoke" => call[c].obj # NoInstance /\ call[c].result = "none"
        /\ call[c].obj = NoInstance => call[c].work = "none" /\ call[c].effect = "none"
        /\ call[c].work = "replied" => call[c].effect = "applied"
        /\ call[c].result = "ok" => call[c].effect = "applied"
        /\ call[c].result \in {"unsupported", "invalid"} =>
               call[c].pc = "done" /\ call[c].obj = NoInstance

Published == {"live", "disposing", "disposed"}

\* A request found its instance in the table, under its handle.
CallBound ==
    \A c \in Call : call[c].obj # NoInstance =>
        /\ inst[call[c].obj].stage \in Published
        /\ inst[call[c].obj].id = call[c].h

CallInv == CallsType /\ CallProgress /\ CallBound

\* An instance that has been published is never built or given a handle again.
LEMMA PublishedStays ==
    ASSUME TableInv, [InstancesNext]_instVars,
           NEW o \in Instance, inst[o].stage \in Published
    PROVE  inst'[o].stage \in Published /\ inst'[o].id = inst[o].id
<1>0. InstancesTypeOK /\ SoleOwner /\ RegistryConsistent
  BY DEF TableInv
<1>a. ASSUME NEW t \in Thread, thread[t].op = "start", thread[t].obj \in Instance
      PROVE  thread[t].obj # o
  <2>1. inst[thread[t].obj].stage = "starting"
    BY <1>0, <1>a, InstancesAssumption DEF SoleOwner
  <2> QED BY <2>1 DEF Published
<1>b. CASE Frame
  BY <1>b DEF Frame
<1>1. CASE UNCHANGED instVars
  BY <1>1 DEF instVars
<1>2. ASSUME NEW t \in Thread, HostCall(t)
      PROVE  inst'[o].stage \in Published /\ inst'[o].id = inst[o].id
  <2>1. ASSUME NEW x \in Instance, NEW opt \in Options, spicedb_start(t, x, opt)
        PROVE  inst'[o].stage \in Published /\ inst'[o].id = inst[o].id
    <3>1. x # o
      BY <2>1 DEF spicedb_start, Published
    <3> QED BY <1>0, <2>1, <3>1 DEF spicedb_start, InstancesTypeOK
  <2>2. ASSUME NEW h \in Handle, spicedb_dispose(t, h)
        PROVE  inst'[o].stage \in Published /\ inst'[o].id = inst[o].id
    <3>1. CASE inst' = inst
      BY <3>1
    <3>2. CASE inst' = [inst EXCEPT ![instances[h]].stage = "disposing"]
      BY <1>0, <3>2 DEF InstancesTypeOK, InstanceFields, Published
    <3> QED BY <2>2, <3>1, <3>2 DEF spicedb_dispose
  <2> QED BY <1>2, <2>1, <2>2 DEF HostCall
<1>3. ASSUME NEW t \in Thread, StartStep(t)
      PROVE  inst'[o].stage \in Published /\ inst'[o].id = inst[o].id
  <2>0. thread[t].obj \in Instance /\ thread[t].obj # o
    BY <1>0, <1>3, <1>a, StartStepFrame
  <2>1. CASE AllocateID(t)
    BY <1>0, <2>0, <2>1 DEF AllocateID, InstancesTypeOK
  <2>2. CASE Publish(t)
    BY <1>0, <2>0, <2>2 DEF Publish, InstancesTypeOK
  <2>3. CASE LetsGo(t, "failed")
    BY <2>0, <2>3 DEF LetsGo
  <2> QED BY <1>0, <1>3, <1>b, <2>1, <2>2, <2>3, StartStepFrame
<1>4. ASSUME NEW t \in Thread, CleanupStep(t)
      PROVE  inst'[o].stage \in Published /\ inst'[o].id = inst[o].id
  <2>1. CASE thread[t].op = "start" /\ LetsGo(t, "failed")
    BY <1>a, <2>1 DEF LetsGo
  <2> QED BY <1>0, <1>4, <1>b, <2>1, CleanupStepFrame
<1>5. ASSUME NEW t \in Thread, DisposeStep(t, TRUE)
      PROVE  inst'[o].stage \in Published /\ inst'[o].id = inst[o].id
  <2>1. CASE LetsGo(t, "disposed")
    BY <2>1 DEF LetsGo, Published
  <2> QED BY <1>0, <1>5, <1>b, <2>1, DisposeStepFrame
<1>6. ASSUME NEW x \in Instance, GoroutineStep(x, TRUE) \/ ServerRunFails(x, TRUE)
      PROVE  inst'[o].stage \in Published /\ inst'[o].id = inst[o].id
  BY <1>0, <1>6, <1>b, GoroutineFrame
<1> QED BY <1>1, <1>2, <1>3, <1>4, <1>5, <1>6 DEF InstancesNext

LEMMA InitCall == Init => CallInv
<1> SUFFICES ASSUME Init PROVE CallInv
  OBVIOUS
<1>1. NewCall \in CallStates
  BY FfiRpcAssumption, InstancesAssumption DEF NewCall, CallStates, Results, OrNil
<1>2. \A c \in Call : /\ call[c].pc = "idle" /\ call[c].obj = NoInstance
                      /\ call[c].work = "none" /\ call[c].effect = "none"
                      /\ call[c].result = "none"
  BY DEF Init, FfiRpcInit, NewCall
<1>3. CallsType
  BY <1>1 DEF Init, FfiRpcInit, CallsType
<1>4. CallProgress /\ CallBound
  BY <1>2 DEF CallProgress, CallBound
<1> QED BY <1>3, <1>4 DEF CallInv

\* A step of one request keeps the invariant of all of them.
LEMMA RequestKeepsCalls ==
    ASSUME TableInv, CallInv, NEW c \in Call, HostRpc(c) \/ RpcStep(c) \/ BackendStep(c)
    PROVE  CallInv'
<1>0. UNCHANGED instVars /\ inst' = inst
  BY RequestLeavesInstances DEF instVars
<1> USE DEF CallInv
<1>a. call[c] \in CallStates
  BY DEF CallsType
<1>1. CASE HostRpc(c)
  <2>1. PICK h \in Handle, req \in Request : spicedb_rpc(c, h, req) \/ MethodExport(c, h, req)
    BY <1>1 DEF HostRpc
  <2>2. h \in 0..MaxHandle
    BY InstancesAssumption DEF Handle
  <2>3. call[c].pc = "idle"
    BY <2>1 DEF spicedb_rpc, MethodExport
  <2>4. CASE call' = [call EXCEPT ![c].pc = "done", ![c].h = h, ![c].req = req,
                                  ![c].result = "unsupported"]
    <3>1. CallsType'
      BY <1>a, <2>2, <2>4 DEF CallsType, CallStates, Results
    <3>2. CallProgress' /\ CallBound'
      BY <1>0, <1>a, <2>3, <2>4 DEF CallsType, CallStates, CallProgress, CallBound
    <3> QED BY <3>1, <3>2
  <2>5. CASE call' = [call EXCEPT ![c].pc = "lookup", ![c].h = h, ![c].req = req]
    <3>1. CallsType'
      BY <1>a, <2>2, <2>5 DEF CallsType, CallStates
    <3>2. CallProgress' /\ CallBound'
      BY <1>0, <1>a, <2>3, <2>5 DEF CallsType, CallStates, CallProgress, CallBound
    <3> QED BY <3>1, <3>2
  <2> QED BY <2>1, <2>4, <2>5 DEF spicedb_rpc, MethodExport
<1>2. CASE runRPC(c)
  <2> DEFINE o == instances[call[c].h]
  <2>1. call[c].pc = "lookup" /\ call[c].h \in Handle
    BY <1>2 DEF runRPC, CallProgress
  <2>2. o # NoInstance => o \in Instance /\ inst[o].id = call[c].h /\ inst[o].stage = "live"
    BY <2>1 DEF TableInv, InstancesTypeOK, OrNil, RegistryConsistent
  <2>3. CASE \E res \in {"invalid", "failed"} : Finish(c, res)
    <3>0. PICK res \in {"invalid", "failed"} :
              call' = [call EXCEPT ![c].pc = "done", ![c].result = res]
      BY <2>3 DEF Finish
    <3>1. CallsType'
      BY <1>a, <3>0 DEF CallsType, CallStates, Results
    <3>2. CallProgress' /\ CallBound'
      BY <1>0, <1>a, <2>1, <3>0 DEF CallsType, CallStates, CallProgress, CallBound
    <3> QED BY <3>1, <3>2
  <2>4. CASE o # NoInstance /\ call' = [call EXCEPT ![c].pc = "invoke", ![c].obj = o]
    <3> HIDE DEF o
    <3>1. CallsType'
      BY <1>a, <2>2, <2>4 DEF CallsType, CallStates, OrNil
    <3>2. CallProgress'
      BY <1>a, <2>1, <2>4 DEF CallsType, CallStates, CallProgress
    <3>3. CallBound'
      BY <1>0, <1>a, <2>2, <2>4 DEF CallsType, CallStates, CallBound, Published
    <3> QED BY <3>1, <3>2, <3>3
  <2> QED BY <1>2, <2>3, <2>4 DEF runRPC
<1>3. CASE InvokeReturns(c) \/ InvokeFails(c) \/ InvokeTimesOut(c)
  <2>1. call[c].pc = "invoke"
    BY <1>3 DEF InvokeReturns, InvokeFails, InvokeTimesOut
  <2>2. PICK res \in {"ok", "failed"} :
            Finish(c, res) /\ (res = "ok" => call[c].work = "replied")
    BY <1>3 DEF InvokeReturns, InvokeFails, InvokeTimesOut
  <2>3. CallsType'
    BY <1>a, <2>2 DEF Finish, CallsType, CallStates, Results
  <2>4. CallProgress' /\ CallBound'
    BY <1>0, <1>a, <2>1, <2>2 DEF Finish, CallsType, CallStates, CallProgress, CallBound
  <2> QED BY <2>3, <2>4
<1>4. CASE BackendStep(c)
  <2>1. call[c].obj # NoInstance
    BY <1>4 DEF BackendStep, BackendAccepts, BackendApplies, BackendAborts, CallProgress
  <2>2. PICK w \in {"handling", "replied", "aborted"}, e \in {"none", "applied"} :
            /\ call' = [call EXCEPT ![c].work = w, ![c].effect = e]
            /\ w = "replied" => e = "applied"
            /\ call[c].effect = "applied" => e = "applied"
    <3>1. CASE BackendAccepts(c) \/ BackendAborts(c)
      <4>1. PICK w \in {"handling", "aborted"} : call' = [call EXCEPT ![c].work = w]
        BY <3>1 DEF BackendAccepts, BackendAborts
      <4>2. call' = [call EXCEPT ![c].work = w, ![c].effect = call[c].effect]
        BY <1>a, <4>1 DEF CallsType, CallStates
      <4>3. call[c].effect \in {"none", "applied"}
        BY <1>a DEF CallStates
      <4> QED BY <4>2, <4>3
    <3>2. CASE BackendApplies(c)
      BY <3>2 DEF BackendApplies
    <3> QED BY <1>4, <3>1, <3>2 DEF BackendStep
  <2>3. CallsType'
    BY <1>a, <2>2 DEF CallsType, CallStates
  <2>4. CallProgress' /\ CallBound'
    BY <1>0, <1>a, <2>1, <2>2 DEF CallsType, CallStates, CallProgress, CallBound
  <2> QED BY <2>3, <2>4
<1> QED BY <1>1, <1>2, <1>3, <1>4 DEF RpcStep

LEMMA NextCall ==
    ASSUME TableInv, CallInv, [Next]_vars
    PROVE  CallInv'
<1>1. CASE RequestStep
  BY <1>1, RequestKeepsCalls DEF RequestStep
<1>2. CASE UNCHANGED call
  <2>1. [InstancesNext]_instVars
    BY NextOfInstances
  <2>2. \A c \in Call : call[c].obj # NoInstance => call[c].obj \in Instance
    BY DEF CallInv, CallsType, CallStates, OrNil
  <2>3. CallBound'
    BY <1>2, <2>1, <2>2, PublishedStays DEF CallInv, CallBound
  <2> QED BY <1>2, <2>3 DEF CallInv, CallsType, CallProgress
<1> QED BY <1>1, <1>2 DEF Next, LifecycleStep, StreamStep, vars

LEMMA CallInvariant == Spec => []CallInv
<1>1. Init => CallInv
  BY InitCall
<1>2. TableInv /\ CallInv /\ [Next]_vars => CallInv'
  BY NextCall
<1> QED BY <1>1, <1>2, TableInLibrary, PTL DEF Spec

\* For any number of threads, instances and requests: a request ends up at the
\* instance its handle named and at no other, whatever is started and disposed
\* of after it has let go of the read lock (rpc.go 30-50).
THEOREM CallsReach == Spec => []CallsReachTheirInstance
<1>1. CallInv => CallsReachTheirInstance
  BY DEF CallInv, CallBound, CallsReachTheirInstance
<1> QED BY <1>1, CallInvariant, PTL

\* The answer of a request can be relied on: ok means that the datastore has
\* taken it, a refusal that it never will (rpc.go 33-54, 124-129).
THEOREM AnswersAreSound == Spec => []OutcomeSound
<1>1. CallInv => OutcomeSound
  BY DEF CallInv, CallProgress, OutcomeSound
<1> QED BY <1>1, CallInvariant, PTL

-----------------------------------------------------------------------------
\* Streams.

StreamsType == stream \in [Stream -> StreamStates]

\* The counters of a stream at each point of the handler's loop.
StreamProgress ==
    \A s \in Stream :
        /\ stream[s].pc \in {"idle", "open", "recv"} => stream[s].received = stream[s].forwarded
        /\ stream[s].pc = "send" => stream[s].received = stream[s].forwarded + 1
        /\ stream[s].received <= stream[s].forwarded + 1
        /\ stream[s].received <= stream[s].produced
        /\ stream[s].read <= stream[s].forwarded
        /\ stream[s].forwarded <= stream[s].read + Window
        /\ stream[s].pc \in {"idle", "open"} => stream[s].backend = "none"
        /\ stream[s].result = "ok" =>
               /\ stream[s].pc = "done"
               /\ stream[s].backend = "eof"
               /\ stream[s].forwarded = stream[s].produced

StreamInv == StreamsType /\ StreamProgress

LEMMA InitStream == Init => StreamInv
<1> SUFFICES ASSUME Init PROVE StreamInv
  OBVIOUS
<1>1. NewStream \in StreamStates
  BY StreamingProxyAssumption DEF NewStream, StreamStates, OrNil
<1>2. StreamsType
  BY <1>1 DEF Init, StreamingProxyInit, StreamsType
<1>3. StreamProgress
  BY StreamingProxyAssumption DEF Init, StreamingProxyInit, NewStream, StreamProgress
<1> QED BY <1>2, <1>3 DEF StreamInv

LEMMA StreamKeepsStreams ==
    ASSUME StreamInv, NEW s \in Stream, ClientStep(s) \/ ProxyStep(s) \/ BackendStreamStep(s)
    PROVE  StreamInv'
<1> USE StreamingProxyAssumption DEF StreamInv
<1>a. stream[s] \in StreamStates
  BY DEF StreamsType
<1>1. CASE \E o \in Instance : ClientOpens(s, o)
  <2>1. PICK o \in Instance : stream' = [stream EXCEPT ![s].pc = "open", ![s].obj = o]
    BY <1>1 DEF ClientOpens
  <2>2. stream[s].pc = "idle"
    BY <1>1 DEF ClientOpens
  <2>3. StreamsType'
    BY <1>a, <2>1 DEF StreamsType, StreamStates, OrNil
  <2>4. StreamProgress'
    BY <1>a, <2>1, <2>2 DEF StreamsType, StreamStates, StreamProgress
  <2> QED BY <2>3, <2>4
<1>2. CASE ClientReads(s)
  <2>1. StreamsType'
    BY <1>a, <1>2 DEF ClientReads, StreamsType, StreamStates
  <2>2. StreamProgress'
    BY <1>a, <1>2 DEF ClientReads, StreamsType, StreamStates, StreamProgress
  <2> QED BY <2>1, <2>2
<1>3. CASE ClientLeaves(s)
  <2>1. StreamsType'
    BY <1>a, <1>3 DEF ClientLeaves, StreamsType, StreamStates
  <2>2. StreamProgress'
    BY <1>a, <1>3 DEF ClientLeaves, StreamsType, StreamStates, StreamProgress
  <2> QED BY <2>1, <2>2
<1>4. CASE OpenBackend(s)
  <2>1. stream[s].pc = "open"
    BY <1>4 DEF OpenBackend
  <2>2. CASE stream' = [stream EXCEPT ![s].pc = "recv", ![s].backend = "active"]
    <3>1. StreamsType'
      BY <1>a, <2>2 DEF StreamsType, StreamStates
    <3>2. StreamProgress'
      BY <1>a, <2>1, <2>2 DEF StreamsType, StreamStates, StreamProgress
    <3> QED BY <3>1, <3>2
  <2>3. CASE End(s, "error")
    <3>1. StreamsType'
      BY <1>a, <2>3 DEF End, StreamsType, StreamStates
    <3>2. StreamProgress'
      BY <1>a, <2>3 DEF End, StreamsType, StreamStates, StreamProgress
    <3> QED BY <3>1, <3>2
  <2> QED BY <1>4, <2>2, <2>3 DEF OpenBackend
<1>5. CASE RecvMessage(s)
  <2>1. StreamsType'
    BY <1>a, <1>5 DEF RecvMessage, StreamsType, StreamStates
  <2>2. StreamProgress'
    BY <1>a, <1>5 DEF RecvMessage, StreamsType, StreamStates, StreamProgress
  <2> QED BY <2>1, <2>2
<1>6. CASE RecvEOF(s)
  <2>1. StreamsType'
    BY <1>a, <1>6 DEF RecvEOF, End, StreamsType, StreamStates
  <2>2. StreamProgress'
    BY <1>a, <1>6 DEF RecvEOF, End, StreamsType, StreamStates, StreamProgress
  <2> QED BY <2>1, <2>2
<1>7. CASE RecvError(s) \/ SendError(s)
  <2>1. End(s, "error")
    BY <1>7 DEF RecvError, SendError
  <2>2. StreamsType'
    BY <1>a, <2>1 DEF End, StreamsType, StreamStates
  <2>3. StreamProgress'
    BY <1>a, <2>1 DEF End, StreamsType, StreamStates, StreamProgress
  <2> QED BY <2>2, <2>3
<1>8. CASE SendMessage(s)
  <2>1. stream[s].forwarded + 1 \in 0..MaxMsgs
    BY <1>a, <1>8 DEF SendMessage, StreamStates, StreamProgress
  <2>2. StreamsType'
    BY <1>a, <1>8, <2>1 DEF SendMessage, StreamsType, StreamStates
  <2>3. StreamProgress'
    BY <1>a, <1>8 DEF SendMessage, StreamsType, StreamStates, StreamProgress
  <2> QED BY <2>2, <2>3
<1>9. CASE BackendProduces(s)
  <2>1. StreamsType'
    BY <1>a, <1>9 DEF BackendProduces, StreamsType, StreamStates
  <2>2. StreamProgress'
    BY <1>a, <1>9 DEF BackendProduces, StreamsType, StreamStates, StreamProgress
  <2> QED BY <2>1, <2>2
<1>10. CASE BackendEnds(s) \/ BackendCancelled(s)
  <2>1. stream[s].backend = "active"
    BY <1>10 DEF BackendEnds, BackendCancelled
  <2>2. PICK b \in {"eof", "broken"} : stream' = [stream EXCEPT ![s].backend = b]
    BY <1>10 DEF BackendEnds, BackendCancelled
  <2>3. StreamsType'
    BY <1>a, <2>2 DEF StreamsType, StreamStates
  <2>4. StreamProgress'
    BY <1>a, <2>1, <2>2 DEF StreamsType, StreamStates, StreamProgress
  <2> QED BY <2>3, <2>4
<1> QED BY <1>1, <1>2, <1>3, <1>4, <1>5, <1>6, <1>7, <1>8, <1>9, <1>10
        DEF ClientStep, ProxyStep, BackendStreamStep

LEMMA StreamInvariant == Spec => []StreamInv
<1>1. Init => StreamInv
  BY InitStream
<1>2. ASSUME StreamInv, [Next]_vars
      PROVE  StreamInv'
  <2>1. CASE StreamStep
    BY <1>2, <2>1, StreamKeepsStreams DEF StreamStep
  <2>2. CASE UNCHANGED stream
    BY <1>2, <2>2 DEF StreamInv, StreamsType, StreamProgress
  <2> QED BY <1>2, <2>1, <2>2 DEF Next, LifecycleStep, RequestStep, vars
<1> QED BY <1>1, <1>2, PTL DEF Spec

\* For any number and length of streams: a client that sees a clean end has
\* been sent every message, however dispose, the backend and the client
\* interleave with the handler (streaming_proxy.go 56-67).
THEOREM CleanEnds == Spec => []CleanEndIsComplete
<1>1. StreamInv => CleanEndIsComplete
  BY DEF StreamInv, StreamProgress, CleanEndIsComplete
<1> QED BY <1>1, StreamInvariant, PTL

\* The proxy never holds more than one message of a stream, for any window of
\* the client's flow control (streaming_proxy.go 57, 64).
THEOREM ProxyHoldsOneMessage == Spec => []Backpressure
<1>1. ASSUME StreamInv PROVE Backpressure
  <2>1. \A s \in Stream : stream[s] \in StreamStates
    BY <1>1 DEF StreamInv, StreamsType
  <2> QED BY <1>1, <2>1, StreamingProxyAssumption
          DEF StreamInv, StreamProgress, Backpressure, StreamStates
<1> QED BY <1>1, StreamInvariant, PTL

\* Every reachable state of the library is well typed.
THEOREM LibraryTypeCorrect == Spec => []TypeOK
<1>1. TableInv /\ CallInv /\ StreamInv => TypeOK
  BY DEF TableInv, CallInv, CallsType, StreamInv, StreamsType, TypeOK
<1> QED BY <1>1, TableInLibrary, CallInvariant, StreamInvariant, PTL

-----------------------------------------------------------------------------
\* Work that SpiceDB and the proxy do for an instance.

LEMMA LifeInLibrary == Spec => []LifeInv
BY LibraryRunsInstances, LifeInvariant, PTL

\* Whatever is at work for an instance has a server to work in: Run does not
\* return before its handlers, nor GracefulStop before the proxy's.
WorkInv ==
    /\ \A c \in Call : call[c].work = "handling" => inst[call[c].obj].server = "running"
    /\ \A s \in Stream : stream[s].backend = "active" =>
           stream[s].obj # NoInstance /\ inst[stream[s].obj].server = "running"
    /\ \A s \in Stream : InHandler(s) =>
           /\ stream[s].obj # NoInstance
           /\ inst[stream[s].obj].streamingServer \in {"built", "stopping"}

\* What is running goes on running, except in the two steps that wait.
ServersStay(x) ==
    /\ inst[x].server = "running" => inst'[x].server = "running"
    /\ inst[x].streamingServer \in {"built", "stopping"} =>
           inst'[x].streamingServer \in {"built", "stopping"}

LEMMA StartServersStay ==
    ASSUME TableInv, LifeInv, NEW t \in Thread, StartStep(t)
    PROVE  \A x \in Instance : ServersStay(x)
<1>0. thread[t].op = "start" /\ thread[t].obj \in Instance
  BY StartStepFrame DEF TableInv
<1>1. Building(inst[thread[t].obj], thread[t].pc)
  BY <1>0 DEF LifeInv
<1>2. CASE AllocateID(t)
  BY <1>0, <1>2 DEF AllocateID, TableInv, InstancesTypeOK, InstanceFields, ServersStay
<1>3. CASE newDatastoreFromOpts(t)
  <2>1. CASE FailAtOnce(t, "datastore")
    BY <1>0, <2>1 DEF FailAtOnce, TableInv, InstancesTypeOK, InstanceFields, ServersStay
  <2>2. CASE ~FailAtOnce(t, "datastore")
    BY <1>0, <1>3, <2>2 DEF newDatastoreFromOpts, TableInv, InstancesTypeOK, InstanceFields, ServersStay
  <2> QED BY <2>1, <2>2
<1>4. CASE newSpiceDBServerFromDatastore(t)
  <2>1. CASE FailAtOnce(t, "server")
    BY <1>0, <2>1 DEF FailAtOnce, TableInv, InstancesTypeOK, InstanceFields, ServersStay
  <2>2. CASE ~FailAtOnce(t, "server")
    <3>1. inst[thread[t].obj].server = "none"
      BY <1>1, <1>4 DEF newSpiceDBServerFromDatastore, At, Building
    <3> QED BY <1>0, <1>4, <2>2, <3>1
            DEF newSpiceDBServerFromDatastore, TableInv, InstancesTypeOK, InstanceFields, ServersStay
  <2> QED BY <2>1, <2>2
<1>5. CASE otelGet(t)
  <2>1. CASE FailAtOnce(t, "otel")
    BY <1>0, <2>1 DEF FailAtOnce, TableInv, InstancesTypeOK, InstanceFields, ServersStay
  <2>2. CASE ~FailAtOnce(t, "otel")
    BY <1>0, <1>5, <2>2 DEF otelGet, TableInv, InstancesTypeOK, InstanceFields, ServersStay
  <2> QED BY <2>1, <2>2
<1>6. CASE otelSet(t)
  BY <1>0, <1>6 DEF otelSet, TableInv, InstancesTypeOK, InstanceFields, ServersStay
<1>7. CASE startMetricsServer(t)
  BY <1>0, <1>7 DEF startMetricsServer, TableInv, InstancesTypeOK, InstanceFields, ServersStay
<1>8. CASE RunServer(t)
  BY <1>0, <1>8 DEF RunServer, TableInv, InstancesTypeOK, InstanceFields, ServersStay
<1>9. CASE NewClient(t)
  BY <1>0, <1>9 DEF NewClient, FailAndWait, TableInv, InstancesTypeOK, InstanceFields, ServersStay
<1>10. CASE startStreamingProxy(t)
  <2>1. CASE \E kind \in {"remove", "listen"} : FailAndWait(t, kind)
    BY <1>0, <2>1 DEF FailAndWait, TableInv, InstancesTypeOK, InstanceFields, ServersStay
  <2>2. CASE ~\E kind \in {"remove", "listen"} : FailAndWait(t, kind)
    <3> DEFINE s == inst[thread[t].obj]
               r == [s EXCEPT !.streamingListener = "open", !.streamingServer = "built",
                              !.serve = "spawned"]
    <3>1. inst' = [inst EXCEPT ![thread[t].obj] = r]
      BY <1>0, <1>10, <2>2 DEF startStreamingProxy, TableInv, InstancesTypeOK
    <3>2. s.server = r.server /\ r.streamingServer = "built"
      BY <1>0 DEF TableInv, InstancesTypeOK, InstanceFields
    <3> HIDE DEF r
    <3> QED BY <1>0, <3>1, <3>2 DEF TableInv, InstancesTypeOK, ServersStay
  <2> QED BY <2>1, <2>2
<1>11. CASE Publish(t)
  BY <1>0, <1>11 DEF Publish, TableInv, InstancesTypeOK, InstanceFields, ServersStay
<1>12. CASE FailWait(t)
  BY <1>12 DEF FailWait, ServersStay
<1> QED BY <1>2, <1>3, <1>4, <1>5, <1>6, <1>7, <1>8, <1>9, <1>10, <1>11, <1>12 DEF StartStep

LEMMA CleanupServersStay ==
    ASSUME TableInv, NEW t \in Thread, CleanupStep(t)
    PROVE  \A x \in Instance : ServersStay(x)
<1> DEFINE s == inst[thread[t].obj]
<1>0. thread[t].obj \in Instance /\ s \in InstanceFields
  BY CleanupStepFrame DEF TableInv, InstancesTypeOK
<1>1. CASE TracerShutdown(t)
  BY <1>0, <1>1 DEF TracerShutdown, TableInv, InstancesTypeOK, InstanceFields, ServersStay
<1>2. CASE CleanupMetrics(t) \/ TracerRestore(t)
  <2>1. PICK r \in InstanceFields :
            /\ r.server = s.server /\ r.streamingServer = s.streamingServer
            /\ LeaveCleanup(t, r) \/ inst' = [inst EXCEPT ![thread[t].obj] = r]
    <3> DEFINE r == ShutdownMetrics(s)
    <3>1. r \in InstanceFields
      BY <1>0, ShutdownMetricsType
    <3>2. r.server = s.server /\ r.streamingServer = s.streamingServer
      BY <1>0 DEF ShutdownMetrics, InstanceFields
    <3> QED BY <1>0, <1>2, <3>1, <3>2 DEF CleanupMetrics, TracerRestore
  <2> DEFINE f == [r EXCEPT !.stage = "failed"]
  <2>2. f.server = s.server /\ f.streamingServer = s.streamingServer
    BY <2>1 DEF InstanceFields
  <2>3. inst' = [inst EXCEPT ![thread[t].obj] = r] \/ inst' = [inst EXCEPT ![thread[t].obj] = f]
    BY <2>1 DEF LeaveCleanup
  <2> HIDE DEF f
  <2> QED BY <1>0, <2>1, <2>2, <2>3 DEF TableInv, InstancesTypeOK, ServersStay
<1> QED BY <1>1, <1>2 DEF CleanupStep

LEMMA DisposeServersStay ==
    ASSUME TableInv, NEW t \in Thread, NEW drained, DisposeStep(t, drained)
    PROVE  \A x \in Instance :
               ServersStay(x) \/ (drained /\ x = thread[t].obj /\ inst'[x].server = inst[x].server)
<1>0. thread[t].obj \in Instance
  <2>1. thread[t].pc \in DisposePC
    BY DEF DisposeStep, Cancel, CloseConn, GracefulStop, GracefulStopReturns,
           CloseListener, DisposeWait, RemoveSocket, At, DisposePC
  <2> QED BY <2>1, PcDeterminesOp DEF TableInv
<1>1. CASE Cancel(t)
  BY <1>0, <1>1 DEF Cancel, TableInv, InstancesTypeOK, InstanceFields, ServersStay
<1>2. CASE CloseConn(t)
  BY <1>0, <1>2 DEF CloseConn, TableInv, InstancesTypeOK, InstanceFields, ServersStay
<1>3. CASE GracefulStop(t)
  BY <1>0, <1>3 DEF GracefulStop, TableInv, InstancesTypeOK, InstanceFields, ServersStay
<1>4. CASE GracefulStopReturns(t, drained)
  BY <1>0, <1>4 DEF GracefulStopReturns, TableInv, InstancesTypeOK, InstanceFields, ServersStay
<1>5. CASE CloseListener(t)
  BY <1>0, <1>5 DEF CloseListener, TableInv, InstancesTypeOK, InstanceFields, ServersStay
<1>6. CASE DisposeWait(t)
  BY <1>6 DEF DisposeWait, ServersStay
<1>7. CASE RemoveSocket(t)
  BY <1>0, <1>7 DEF RemoveSocket, TableInv, InstancesTypeOK, InstanceFields, ServersStay
<1> QED BY <1>1, <1>2, <1>3, <1>4, <1>5, <1>6, <1>7 DEF DisposeStep

LEMMA GoroutineServersStay ==
    ASSUME TableInv, NEW o \in Instance, NEW quiet,
           GoroutineStep(o, quiet) \/ ServerRunFails(o, quiet)
    PROVE  \A x \in Instance :
               \/ ServersStay(x)
               \/ quiet /\ x = o /\ inst'[x].streamingServer = inst[x].streamingServer
<1>1. CASE ServerRunExits(o, quiet) \/ ServerRunFails(o, quiet)
  <2>1. quiet /\ inst' = [inst EXCEPT ![o].server = "exited", ![o].datastore = "closed"]
    BY <1>1 DEF ServerRunExits, ServerRunFails
  <2> QED BY <2>1 DEF TableInv, InstancesTypeOK, InstanceFields, ServersStay
<1>2. CASE ServeBegins(o)
  BY <1>2 DEF ServeBegins, TableInv, InstancesTypeOK, InstanceFields, ServersStay
<1>3. CASE ServeExits(o)
  BY <1>3 DEF ServeExits, TableInv, InstancesTypeOK, InstanceFields, ServersStay
<1>4. CASE MetricsServeBegins(o)
  BY <1>4 DEF MetricsServeBegins, TableInv, InstancesTypeOK, InstanceFields, ServersStay
<1>5. CASE MetricsServeTooLate(o)
  BY <1>5 DEF MetricsServeTooLate, TableInv, InstancesTypeOK, InstanceFields, ServersStay
<1> QED BY <1>1, <1>2, <1>3, <1>4, <1>5 DEF GoroutineStep

LEMMA HostCallServersStay ==
    ASSUME TableInv, NEW t \in Thread, HostCall(t)
    PROVE  \A x \in Instance : ServersStay(x)
<1>1. ASSUME NEW o \in Instance, NEW opt \in Options, spicedb_start(t, o, opt)
      PROVE  \A x \in Instance : ServersStay(x)
  <2>1. CASE MissingURI(opt)
    BY <1>1, <2>1 DEF spicedb_start, TableInv, InstancesTypeOK, InstanceFields, ServersStay
  <2>2. CASE ~MissingURI(opt)
    BY <1>1, <2>2 DEF spicedb_start, TableInv, InstancesTypeOK, InstanceFields, ServersStay
  <2> QED BY <2>1, <2>2
<1>2. ASSUME NEW h \in Handle, spicedb_dispose(t, h)
      PROVE  \A x \in Instance : ServersStay(x)
  <2>1. CASE inst' = inst
    BY <2>1 DEF ServersStay
  <2>2. CASE inst' = [inst EXCEPT ![instances[h]].stage = "disposing"]
    BY <2>2 DEF TableInv, InstancesTypeOK, InstanceFields, ServersStay
  <2> QED BY <1>2, <2>1, <2>2 DEF spicedb_dispose
<1> QED BY <1>1, <1>2 DEF HostCall

\* The waits of the library, put together.
LEMMA LifecycleKeepsWork ==
    ASSUME TableInv, CallInv, StreamInv, LifeInv, WorkInv, LifecycleStep
    PROVE  WorkInv'
<1>0. UNCHANGED <<call, stream>>
  BY DEF LifecycleStep
<1>1. \A x \in Instance :
          /\ inst[x].server = "running" => inst'[x].server = "running" \/ Quiet(x)
          /\ inst[x].streamingServer \in {"built", "stopping"} =>
                 inst'[x].streamingServer \in {"built", "stopping"} \/ Streaming(x) = {}
  <2> SUFFICES ASSUME NEW x \in Instance
               PROVE  /\ inst[x].server = "running" => inst'[x].server = "running" \/ Quiet(x)
                      /\ inst[x].streamingServer \in {"built", "stopping"} =>
                           inst'[x].streamingServer \in {"built", "stopping"} \/ Streaming(x) = {}
    OBVIOUS
  <2>1. CASE ServersStay(x)
    BY <2>1 DEF ServersStay
  <2>2. ASSUME NEW t \in Thread, DisposeStep(t, Drained(t)), ~ServersStay(x)
        PROVE  inst'[x].server = inst[x].server /\ Streaming(x) = {}
    BY <2>2, DisposeServersStay DEF Drained
  <2>3. ASSUME NEW o \in Instance, GoroutineStep(o, Quiet(o)) \/ ServerRunFails(o, Quiet(o)),
               ~ServersStay(x)
        PROVE  inst'[x].streamingServer = inst[x].streamingServer /\ Quiet(x)
    BY <2>3, GoroutineServersStay
  <2> QED BY <2>1, <2>2, <2>3, HostCallServersStay, StartServersStay, CleanupServersStay
          DEF LifecycleStep, ThreadStep
<1>2. \A c \in Call : call[c].work = "handling" => call[c].obj \in Instance
  BY DEF CallInv, CallsType, CallStates, CallProgress, OrNil
<1>3. \A s \in Stream : stream[s].obj # NoInstance => stream[s].obj \in Instance
  BY DEF StreamInv, StreamsType, StreamStates, OrNil
<1>4. \A c \in Call : call[c].work = "handling" => ~Quiet(call[c].obj)
  BY DEF Quiet, Handling
<1>5. \A s \in Stream : stream[s].backend = "active" => ~Quiet(stream[s].obj)
  BY DEF Quiet, BackendStreaming
<1>6. \A s \in Stream : InHandler(s) => Streaming(stream[s].obj) # {}
  BY DEF Streaming
<1>7. \A s \in Stream : InHandler(s)' <=> InHandler(s)
  BY <1>0 DEF InHandler
<1> QED BY <1>0, <1>1, <1>2, <1>3, <1>4, <1>5, <1>6, <1>7 DEF WorkInv

LEMMA RequestKeepsWork ==
    ASSUME CallInv, WorkInv, NEW c \in Call, HostRpc(c) \/ RpcStep(c) \/ BackendStep(c),
           UNCHANGED stream
    PROVE  WorkInv'
<1>0. inst' = inst
  BY RequestLeavesInstances DEF instVars
<1>a. call[c] \in CallStates /\ call \in [Call -> CallStates]
  BY DEF CallInv, CallsType
<1>1. call'[c].work = "handling" => inst[call'[c].obj].server = "running"
  <2>1. CASE HostRpc(c)
    <3>0. PICK h \in Handle, req \in Request : spicedb_rpc(c, h, req) \/ MethodExport(c, h, req)
      BY <2>1 DEF HostRpc
    <3>1. call'[c].work = call[c].work /\ call'[c].obj = call[c].obj
      BY <1>a, <3>0 DEF spicedb_rpc, MethodExport, CallStates
    <3> QED BY <3>1 DEF WorkInv
  <2>2. CASE runRPC(c)
    <3>1. call[c].work = "none"
      BY <2>2 DEF runRPC, CallInv, CallProgress
    <3>2. call'[c].work = call[c].work
      BY <1>a, <2>2 DEF runRPC, Finish, CallStates
    <3> QED BY <3>1, <3>2
  <2>3. CASE InvokeReturns(c) \/ InvokeFails(c) \/ InvokeTimesOut(c)
    <3>1. call'[c].work = call[c].work /\ call'[c].obj = call[c].obj
      BY <1>a, <2>3 DEF InvokeReturns, InvokeFails, InvokeTimesOut, Finish, CallStates
    <3> QED BY <3>1 DEF WorkInv
  <2>4. CASE BackendStep(c)
    <3>1. call'[c].obj = call[c].obj
      BY <1>a, <2>4 DEF BackendStep, BackendAccepts, BackendApplies, BackendAborts, CallStates
    <3>2. call'[c].work = "handling" => inst[call[c].obj].server = "running"
      BY <1>a, <2>4 DEF BackendStep, BackendAccepts, BackendApplies, BackendAborts, CallStates
    <3> QED BY <3>1, <3>2
  <2> QED BY <2>1, <2>2, <2>3, <2>4 DEF RpcStep
<1>2. \A d \in Call \ {c} : call'[d] = call[d]
  BY <1>a DEF HostRpc, spicedb_rpc, MethodExport, RpcStep, runRPC, InvokeReturns, InvokeFails,
              InvokeTimesOut, Finish, BackendStep, BackendAccepts, BackendApplies, BackendAborts
<1> QED BY <1>0, <1>1, <1>2 DEF WorkInv, InHandler

LEMMA StreamKeepsWork ==
    ASSUME TableInv, StreamInv, WorkInv, NEW s \in Stream,
           ClientStep(s) \/ ProxyStep(s) \/ BackendStreamStep(s), UNCHANGED call
    PROVE  WorkInv'
<1>0. inst' = inst
  BY StreamLeavesInstances DEF instVars
<1>a. stream[s] \in StreamStates /\ stream \in [Stream -> StreamStates]
  BY DEF StreamInv, StreamsType
<1> DEFINE Busy(r) ==
             /\ r.backend = "active" => r.obj # NoInstance /\ inst[r.obj].server = "running"
             /\ r.pc \in {"open", "recv", "send"} =>
                    r.obj # NoInstance /\ inst[r.obj].streamingServer \in {"built", "stopping"}
<1>1. Busy(stream[s])
  BY DEF WorkInv, InHandler
<1>b. ASSUME \A f \in Stream \ {s} : stream'[f] = stream[f], Busy(stream'[s])
      PROVE  WorkInv'
  <2>1. \A f \in Stream : Busy(stream'[f])
    BY <1>b DEF WorkInv, InHandler
  <2> QED BY <1>0, <2>1 DEF WorkInv, InHandler
<1>2. \A f \in Stream \ {s} : stream'[f] = stream[f]
  BY <1>a DEF ClientStep, ClientOpens, ClientReads, ClientLeaves, ProxyStep, OpenBackend,
              RecvMessage, RecvEOF, RecvError, SendMessage, SendError, End,
              BackendStreamStep, BackendProduces, BackendEnds, BackendCancelled
<1>3. CASE \E o \in Instance : ClientOpens(s, o)
  <2>1. PICK o \in Instance : ClientOpens(s, o)
    BY <1>3
  <2>2. o # NoInstance
    BY InstancesAssumption
  <2>3. stream[s].backend = "none"
    BY <2>1 DEF ClientOpens, StreamInv, StreamProgress
  <2> QED BY <1>a, <1>b, <1>2, <2>1, <2>2, <2>3 DEF ClientOpens, StreamStates
<1>4. CASE ClientReads(s) \/ ClientLeaves(s)
  BY <1>a, <1>b, <1>1, <1>2, <1>4 DEF ClientReads, ClientLeaves, StreamStates
<1>5. CASE OpenBackend(s)
  BY <1>a, <1>b, <1>1, <1>2, <1>5 DEF OpenBackend, End, StreamStates
<1>6. CASE RecvMessage(s) \/ SendMessage(s)
  BY <1>a, <1>b, <1>1, <1>2, <1>6 DEF RecvMessage, SendMessage, StreamStates
<1>7. CASE RecvEOF(s) \/ RecvError(s) \/ SendError(s)
  BY <1>a, <1>b, <1>1, <1>2, <1>7 DEF RecvEOF, RecvError, SendError, End, StreamStates
<1>8. CASE BackendProduces(s)
  BY <1>a, <1>b, <1>1, <1>2, <1>8 DEF BackendProduces, StreamStates
<1>9. CASE BackendEnds(s) \/ BackendCancelled(s)
  <2>1. PICK b \in {"eof", "broken"} : stream' = [stream EXCEPT ![s].backend = b]
    BY <1>9 DEF BackendEnds, BackendCancelled
  <2> QED BY <1>a, <1>b, <1>1, <1>2, <2>1 DEF StreamStates
<1> QED BY <1>3, <1>4, <1>5, <1>6, <1>7, <1>8, <1>9 DEF ClientStep, ProxyStep, BackendStreamStep

LEMMA WorkInvariant == Spec => []WorkInv
<1>1. ASSUME Init PROVE WorkInv
  <2>1. \A c \in Call : call[c].work = "none"
    BY <1>1 DEF Init, FfiRpcInit, NewCall
  <2>2. \A s \in Stream : stream[s].pc = "idle" /\ stream[s].backend = "none"
    BY <1>1 DEF Init, StreamingProxyInit, NewStream
  <2> QED BY <2>1, <2>2 DEF WorkInv, InHandler
<1>2. ASSUME TableInv, CallInv, StreamInv, LifeInv, WorkInv, [Next]_vars
      PROVE  WorkInv'
  <2>1. CASE LifecycleStep
    BY <1>2, <2>1, LifecycleKeepsWork
  <2>2. CASE RequestStep
    BY <1>2, <2>2, RequestKeepsWork DEF RequestStep
  <2>3. CASE StreamStep
    BY <1>2, <2>3, StreamKeepsWork DEF StreamStep
  <2>4. CASE UNCHANGED vars
    BY <1>2, <2>4 DEF vars, WorkInv, InHandler
  <2> QED BY <1>2, <2>1, <2>2, <2>3, <2>4 DEF Next
<1> QED BY <1>1, <1>2, TableInLibrary, CallInvariant, StreamInvariant, LifeInLibrary, PTL DEF Spec

\* When dispose has returned, SpiceDB works on no request of the instance, not
\* even on one that had timed out, and no stream is forwarded: the two waits
\* of spicedb_dispose are enough (main.go 427-437).
THEOREM DisposeOutlastsWork == Spec => []NoWorkAfterDispose
<1>1. ASSUME TableInv, LifeInv, WorkInv PROVE NoWorkAfterDispose
  <2> SUFFICES ASSUME NEW o \in Instance, inst[o].stage = "disposed"
               PROVE  Handling(o) = {} /\ Streaming(o) = {} /\ BackendStreaming(o) = {}
    BY DEF NoWorkAfterDispose
  <2>1. inst[o].server = "exited" /\ inst[o].streamingServer = "stopped"
    BY <1>1 DEF LifeInv, AtRest
  <2> QED BY <1>1, <2>1 DEF WorkInv, Handling, Streaming, BackendStreaming
<1> QED BY <1>1, TableInLibrary, LifeInLibrary, WorkInvariant, PTL

-----------------------------------------------------------------------------
\* The library implements HandleService.

\* A request whose handler is still at work has had no effect and no answer
\* but "failed".
CallWork ==
    \A c \in Call :
        /\ call[c].work \in {"none", "handling"} => call[c].effect = "none"
        /\ call[c].work = "handling" =>
               call[c].pc = "invoke" \/ (call[c].pc = "done" /\ call[c].result = "failed")
        /\ call[c].result = "ok" => call[c].work = "replied"

LEMMA CallWorkInvariant == Spec => []CallWork
<1> DEFINE Fine(r) ==
             /\ r.work \in {"none", "handling"} => r.effect = "none"
             /\ r.work = "handling" => r.pc = "invoke" \/ (r.pc = "done" /\ r.result = "failed")
             /\ r.result = "ok" => r.work = "replied"
<1>1. Init => CallWork
  BY DEF Init, FfiRpcInit, NewCall, CallWork
<1>2. ASSUME CallInv, CallWork, NEW c \in Call, HostRpc(c) \/ RpcStep(c) \/ BackendStep(c)
      PROVE  CallWork'
  <2>a. call[c] \in CallStates /\ call \in [Call -> CallStates]
    BY <1>2 DEF CallInv, CallsType
  <2>b. Fine(call[c])
    BY <1>2 DEF CallWork
  <2>1. Fine(call'[c])
    <3>1. CASE HostRpc(c)
      <4>1. PICK h \in Handle, req \in Request : spicedb_rpc(c, h, req) \/ MethodExport(c, h, req)
        BY <3>1 DEF HostRpc
      <4>2. call[c].work = "none" /\ call[c].result = "none"
        BY <1>2, <4>1 DEF spicedb_rpc, MethodExport, CallInv, CallProgress
      <4> QED BY <2>a, <2>b, <4>1, <4>2 DEF spicedb_rpc, MethodExport, CallStates
    <3>2. CASE runRPC(c)
      <4>1. call[c].work = "none" /\ call[c].result = "none"
        BY <1>2, <3>2 DEF runRPC, CallInv, CallProgress
      <4> QED BY <2>a, <2>b, <3>2, <4>1 DEF runRPC, Finish, CallStates
    <3>3. CASE InvokeReturns(c) \/ InvokeFails(c) \/ InvokeTimesOut(c)
      BY <2>a, <2>b, <3>3 DEF InvokeReturns, InvokeFails, InvokeTimesOut, Finish, CallStates
    <3>4. CASE BackendStep(c)
      <4>1. call[c].pc = "invoke" => call[c].result = "none"
        BY <1>2 DEF CallInv, CallProgress
      <4> QED BY <2>a, <2>b, <3>4, <4>1
              DEF BackendStep, BackendAccepts, BackendApplies, BackendAborts, CallStates
    <3> QED BY <1>2, <3>1, <3>2, <3>3, <3>4 DEF RpcStep
  <2>2. \A d \in Call \ {c} : call'[d] = call[d]
    BY <1>2, <2>a DEF HostRpc, spicedb_rpc, MethodExport, RpcStep, runRPC, InvokeReturns, InvokeFails,
              InvokeTimesOut, Finish, BackendStep, BackendAccepts, BackendApplies, BackendAborts
  <2> QED BY <1>2, <2>1, <2>2 DEF CallWork
<1>3. ASSUME CallInv, CallWork, [Next]_vars
      PROVE  CallWork'
  <2>1. CASE RequestStep
    BY <1>2, <1>3, <2>1 DEF RequestStep
  <2>2. CASE UNCHANGED call
    BY <1>3, <2>2 DEF CallWork
  <2> QED BY <1>3, <2>1, <2>2 DEF Next, LifecycleStep, StreamStep, vars
<1> QED BY <1>1, <1>3, CallInvariant, PTL DEF Spec

\* The status of a handle, spelt out.
InStage(h, st) == \E o \in Instance : inst[o].id = h /\ inst[o].stage = st

\* No two arms of StatusOf apply at once: handles are unique.
LEMMA StatusCases ==
    ASSUME TableInv, NEW h \in Handle
    PROVE  StatusOf(h) = IF instances[h] # NoInstance THEN "open"
                         ELSE IF InStage(h, "disposing") THEN "closing"
                         ELSE IF InStage(h, "disposed") THEN "closed" ELSE "free"
<1>1. instances[h] # NoInstance => ~InStage(h, "disposing") /\ ~InStage(h, "disposed")
  BY DEF TableInv, InstancesTypeOK, OrNil, RegistryConsistent, InStage, Handle
<1>2. ~(InStage(h, "disposing") /\ InStage(h, "disposed"))
  BY DEF TableInv, RegistryConsistent, InStage, Handle
<1>3. CASE instances[h] # NoInstance
  BY <1>1, <1>3 DEF StatusOf, InStage
<1>4. CASE instances[h] = NoInstance /\ InStage(h, "disposing")
  BY <1>2, <1>4 DEF StatusOf, InStage
<1>5. CASE instances[h] = NoInstance /\ ~InStage(h, "disposing")
  BY <1>5 DEF StatusOf, InStage
<1> QED BY <1>3, <1>4, <1>5

LEMMA StatusCasesNext ==
    ASSUME TableInv', NEW h \in Handle
    PROVE  StatusOf(h)' = IF instances'[h] # NoInstance THEN "open"
                          ELSE IF InStage(h, "disposing")' THEN "closing"
                          ELSE IF InStage(h, "disposed")' THEN "closed" ELSE "free"
<1>1. instances'[h] # NoInstance => ~InStage(h, "disposing")' /\ ~InStage(h, "disposed")'
  BY DEF TableInv, InstancesTypeOK, OrNil, RegistryConsistent, InStage, Handle
<1>2. ~(InStage(h, "disposing")' /\ InStage(h, "disposed")')
  BY DEF TableInv, RegistryConsistent, InStage, Handle
<1>3. CASE instances'[h] # NoInstance
  BY <1>1, <1>3 DEF StatusOf, InStage
<1>4. CASE instances'[h] = NoInstance /\ InStage(h, "disposing")'
  BY <1>2, <1>4 DEF StatusOf, InStage
<1>5. CASE instances'[h] = NoInstance /\ ~InStage(h, "disposing")'
  BY <1>5 DEF StatusOf, InStage
<1> QED BY <1>3, <1>4, <1>5

\* The status of a handle depends on the table and on the handles of the
\* instances that are being, or have been, disposed of.
LEMMA StatusKept ==
    ASSUME TableInv, TableInv', NEW h \in Handle, instances'[h] = instances[h],
           InStage(h, "disposing")' <=> InStage(h, "disposing"),
           InStage(h, "disposed")' <=> InStage(h, "disposed")
    PROVE  StatusOf(h)' = StatusOf(h)
BY StatusCases, StatusCasesNext

StatusFn == [h \in Handle |-> StatusOf(h)]

\* A step that changes the status of no handle.
LEMMA StatusFnKept ==
    ASSUME \A h \in Handle : StatusOf(h)' = StatusOf(h)
    PROVE  StatusFn' = StatusFn
BY DEF StatusFn

\* A step that changes the status of one handle.
LEMMA StatusFnMoves ==
    ASSUME NEW k \in Handle, \A h \in Handle \ {k} : StatusOf(h)' = StatusOf(h)
    PROVE  StatusFn' = [StatusFn EXCEPT ![k] = StatusOf(k)']
BY DEF StatusFn

\* A step after which the same handles are in the table and the same instances
\* in the stages that count.
LEMMA StatusSame ==
    ASSUME TableInv, TableInv', UNCHANGED instances,
           \A o \in Instance : \/ inst'[o].id = inst[o].id /\ inst'[o].stage = inst[o].stage
                               \/ /\ inst[o].stage \notin {"disposing", "disposed"}
                                  /\ inst'[o].stage \notin {"disposing", "disposed"}
    PROVE  StatusFn' = StatusFn
<1>1. ASSUME NEW h \in Handle PROVE StatusOf(h)' = StatusOf(h)
  <2>1. InStage(h, "disposing")' <=> InStage(h, "disposing")
    BY DEF InStage
  <2>2. InStage(h, "disposed")' <=> InStage(h, "disposed")
    BY DEF InStage
  <2> QED BY <2>1, <2>2, StatusKept
<1> QED BY <1>1, StatusFnKept

\* A thread whose call ends in Publish, in the critical section of dispose, or
\* in RemoveSocket changes the status of its own handle.
Moves(k, from, to) == StatusOf(k) = from /\ StatusFn' = [StatusFn EXCEPT ![k] = to]

LEMMA PublishOpens ==
    ASSUME TableInv, TableInv', NEW t \in Thread, Publish(t)
    PROVE  \E k \in Handle : Moves(k, "free", "open")
<1> DEFINE me == thread[t].obj
<1>0. thread[t].op = "start" /\ me \in Instance /\ thread[t].pc # "alloc"
  BY PcDeterminesOp DEF TableInv, Publish, At, StartPC
<1>1. inst[me].stage = "starting"
  BY <1>0, InstancesAssumption DEF TableInv, SoleOwner
<1>2. PICK k \in Handle : k = inst[me].id /\ k # 0
  <2>1. inst[me].id \in 0..MaxHandle
    BY <1>0 DEF TableInv, InstancesTypeOK, InstanceFields
  <2> QED BY <1>0, <2>1, InstancesAssumption DEF TableInv, HandleGiven, Handle
<1>3. \A o \in Instance : inst'[o].id = inst[o].id
                          /\ inst'[o].stage = IF o = me THEN "live" ELSE inst[o].stage
  BY <1>0 DEF Publish, TableInv, InstancesTypeOK, InstanceFields
<1>4. \A h \in Handle : instances'[h] = IF h = k THEN me ELSE instances[h]
  BY <1>0, <1>2 DEF Publish, TableInv, InstancesTypeOK
<1> HIDE DEF me
<1>5. \A o \in Instance : inst[o].id = k => o = me
  BY <1>0, <1>2 DEF TableInv, RegistryConsistent
<1>6. StatusOf(k) = "free"
  <2>1. ~InStage(k, "disposing") /\ ~InStage(k, "disposed")
    BY <1>1, <1>5 DEF InStage
  <2>2. instances[k] = NoInstance
    BY <1>1, <1>2, <1>5 DEF TableInv, InstancesTypeOK, OrNil, RegistryConsistent
  <2> QED BY <1>2, <2>1, <2>2, StatusCases
<1>7. StatusOf(k)' = "open"
  <2>1. instances'[k] # NoInstance
    BY <1>0, <1>2, <1>4, InstancesAssumption
  <2> QED BY <1>2, <2>1, StatusCasesNext
<1>8. ASSUME NEW h \in Handle \ {k} PROVE StatusOf(h)' = StatusOf(h)
  <2>1. InStage(h, "disposing")' <=> InStage(h, "disposing")
    BY <1>1, <1>3 DEF InStage
  <2>2. InStage(h, "disposed")' <=> InStage(h, "disposed")
    BY <1>1, <1>3 DEF InStage
  <2> QED BY <1>4, <2>1, <2>2, StatusKept
<1>9. StatusFn' = [StatusFn EXCEPT ![k] = StatusOf(k)']
  BY <1>2, <1>8, StatusFnMoves
<1> QED BY <1>2, <1>6, <1>7, <1>9 DEF Moves

LEMMA DisposeCloses ==
    ASSUME TableInv, TableInv', NEW t \in Thread, NEW k \in Handle,
           spicedb_dispose(t, k), instances[k] # NoInstance
    PROVE  Moves(k, "open", "closing")
<1> DEFINE me == instances[k]
<1>0. me \in Instance /\ inst[me].stage = "live" /\ inst[me].id = k
  BY DEF TableInv, InstancesTypeOK, OrNil, RegistryConsistent
<1>1. inst' = [inst EXCEPT ![me].stage = "disposing"]
      /\ \A h \in Handle : instances'[h] = IF h = k THEN NoInstance ELSE instances[h]
  BY DEF spicedb_dispose, TableInv, InstancesTypeOK
<1> HIDE DEF me
<1>2. \A o \in Instance : inst'[o].id = inst[o].id
                          /\ inst'[o].stage = IF o = me THEN "disposing" ELSE inst[o].stage
  BY <1>0, <1>1 DEF TableInv, InstancesTypeOK, InstanceFields
<1>3. StatusOf(k) = "open"
  BY StatusCases
<1>4. StatusOf(k)' = "closing"
  <2>1. InStage(k, "disposing")'
    BY <1>0, <1>2 DEF InStage
  <2> QED BY <1>1, <2>1, StatusCasesNext
<1>5. ASSUME NEW h \in Handle \ {k} PROVE StatusOf(h)' = StatusOf(h)
  <2>1. InStage(h, "disposing")' <=> InStage(h, "disposing")
    BY <1>0, <1>2 DEF InStage
  <2>2. InStage(h, "disposed")' <=> InStage(h, "disposed")
    BY <1>0, <1>2 DEF InStage
  <2> QED BY <1>1, <2>1, <2>2, StatusKept
<1>6. StatusFn' = [StatusFn EXCEPT ![k] = StatusOf(k)']
  BY <1>5, StatusFnMoves
<1> QED BY <1>3, <1>4, <1>6 DEF Moves

LEMMA RemoveSocketClosed ==
    ASSUME TableInv, TableInv', NEW t \in Thread, thread[t].op = "dispose",
           LetsGo(t, "disposed"), UNCHANGED instances
    PROVE  StatusFn' = StatusFn \/ \E k \in Handle : Moves(k, "closing", "closed")
<1> DEFINE me == thread[t].obj
<1>0. me \in Instance /\ inst[me].stage = "disposing"
  BY InstancesAssumption DEF TableInv, SoleOwner, LetsGo
<1>2. \A o \in Instance : inst'[o].id = inst[o].id
                          /\ inst'[o].stage = IF o = me THEN "disposed" ELSE inst[o].stage
  BY DEF LetsGo
<1> HIDE DEF me
<1>3. CASE inst[me].id \in Handle
  <2>0. PICK k \in Handle : k = inst[me].id
    BY <1>3
  <2>1. k # 0 /\ \A o \in Instance : inst[o].id = k => o = me
    BY <1>0, <2>0 DEF TableInv, RegistryConsistent, Handle
  <2>2. instances[k] = NoInstance
    BY <1>0, <2>1 DEF TableInv, InstancesTypeOK, OrNil, RegistryConsistent
  <2>3. StatusOf(k) = "closing"
    <3>1. InStage(k, "disposing")
      BY <1>0, <2>0 DEF InStage
    <3> QED BY <2>2, <3>1, StatusCases
  <2>4. StatusOf(k)' = "closed"
    <3>1. InStage(k, "disposed")' /\ ~InStage(k, "disposing")'
      BY <1>0, <1>2, <2>0, <2>1 DEF InStage
    <3> QED BY <2>2, <3>1, StatusCasesNext
  <2>5. ASSUME NEW h \in Handle \ {k} PROVE StatusOf(h)' = StatusOf(h)
    <3>1. InStage(h, "disposing")' <=> InStage(h, "disposing")
      BY <1>0, <1>2, <2>0 DEF InStage
    <3>2. InStage(h, "disposed")' <=> InStage(h, "disposed")
      BY <1>0, <1>2, <2>0 DEF InStage
    <3> QED BY <3>1, <3>2, StatusKept
  <2>6. StatusFn' = [StatusFn EXCEPT ![k] = StatusOf(k)']
    BY <2>5, StatusFnMoves
  <2> QED BY <2>3, <2>4, <2>6 DEF Moves
<1>4. CASE inst[me].id \notin Handle
  <2>1. ASSUME NEW h \in Handle PROVE StatusOf(h)' = StatusOf(h)
    <3>1. InStage(h, "disposing")' <=> InStage(h, "disposing")
      BY <1>0, <1>2, <1>4 DEF InStage
    <3>2. InStage(h, "disposed")' <=> InStage(h, "disposed")
      BY <1>0, <1>2, <1>4 DEF InStage
    <3> QED BY <3>1, <3>2, StatusKept
  <2> QED BY <2>1, StatusFnKept
<1> QED BY <1>3, <1>4

\* What a step of start, of dispose or of a goroutine does to the handles.
LEMMA StepMovesStatus ==
    ASSUME TableInv, TableInv', [InstancesNext]_instVars
    PROVE  \/ StatusFn' = StatusFn
           \/ \E k \in Handle : \/ Moves(k, "free", "open")
                                \/ Moves(k, "open", "closing")
                                \/ Moves(k, "closing", "closed")
<1>0. InstancesTypeOK /\ SoleOwner
  BY DEF TableInv
<1>a. Frame => StatusFn' = StatusFn
  BY StatusSame DEF Frame
<1>b. ASSUME NEW t \in Thread, thread[t].op = "start", LetsGo(t, "failed"), UNCHANGED instances
      PROVE  StatusFn' = StatusFn
  <2>1. inst[thread[t].obj].stage = "starting"
    BY <1>0, <1>b, InstancesAssumption DEF SoleOwner, LetsGo
  <2> QED BY <1>b, <2>1, StatusSame DEF LetsGo
<1>1. CASE UNCHANGED instVars
  BY <1>1, StatusSame DEF instVars
<1>2. ASSUME NEW t \in Thread, NEW o \in Instance, NEW opt \in Options, spicedb_start(t, o, opt)
      PROVE  StatusFn' = StatusFn
  <2>1. inst[o].stage = "unused" /\ UNCHANGED instances
    BY <1>2 DEF spicedb_start
  <2>2. inst'[o].stage \in {"failed", "starting"} /\ \A x \in Instance \ {o} : inst'[x] = inst[x]
    BY <1>0, <1>2 DEF spicedb_start, InstancesTypeOK, InstanceFields
  <2> QED BY <2>1, <2>2, StatusSame
<1>3. ASSUME NEW t \in Thread, NEW h \in Handle, spicedb_dispose(t, h)
      PROVE  StatusFn' = StatusFn \/ Moves(h, "open", "closing")
  <2>1. CASE instances[h] = NoInstance
    <3>1. UNCHANGED <<instances, inst>>
      BY <1>3, <2>1 DEF spicedb_dispose
    <3> QED BY <3>1, StatusSame
  <2> QED BY <1>3, <2>1, DisposeCloses
<1>4. ASSUME NEW t \in Thread, StartStep(t)
      PROVE  StatusFn' = StatusFn \/ \E k \in Handle : Moves(k, "free", "open")
  <2>1. CASE AllocateID(t)
    <3>1. thread[t].op = "start" /\ thread[t].obj \in Instance
      BY <1>0, <1>4, StartStepFrame
    <3>2. inst[thread[t].obj].stage = "starting"
      BY <1>0, <3>1, InstancesAssumption DEF SoleOwner
    <3>3. /\ UNCHANGED instances
          /\ \A x \in Instance : /\ inst'[x].stage = inst[x].stage
                                 /\ x # thread[t].obj => inst'[x].id = inst[x].id
      BY <1>0, <2>1, <3>1 DEF AllocateID, InstancesTypeOK, InstanceFields
    <3>4. \A x \in Instance : \/ inst'[x].id = inst[x].id /\ inst'[x].stage = inst[x].stage
                              \/ inst[x].stage = "starting" /\ inst'[x].stage = "starting"
      <4> TAKE x \in Instance
      <4>1. CASE x = thread[t].obj
        BY <3>2, <3>3, <4>1
      <4>2. CASE x # thread[t].obj
        BY <3>3, <4>2
      <4> QED BY <4>1, <4>2
    <3> QED BY <3>3, <3>4, StatusSame
  <2> QED BY <1>0, <1>4, <1>a, <1>b, <2>1, PublishOpens, StartStepFrame
<1>5. ASSUME NEW t \in Thread, CleanupStep(t)
      PROVE  StatusFn' = StatusFn
  BY <1>0, <1>5, <1>a, <1>b, CleanupStepFrame
<1>6. ASSUME NEW t \in Thread, DisposeStep(t, TRUE)
      PROVE  StatusFn' = StatusFn \/ \E k \in Handle : Moves(k, "closing", "closed")
  <2>1. CASE RemoveSocket(t) /\ LetsGo(t, "disposed") /\ UNCHANGED instances
    <3>1. thread[t].op = "dispose"
      BY <1>0, <2>1, PcDeterminesOp DEF RemoveSocket, At, DisposePC
    <3> QED BY <2>1, <3>1, RemoveSocketClosed
  <2> QED BY <1>0, <1>6, <1>a, <2>1, DisposeStepFrame
<1>7. ASSUME NEW o \in Instance, GoroutineStep(o, TRUE) \/ ServerRunFails(o, TRUE)
      PROVE  StatusFn' = StatusFn
  BY <1>0, <1>7, <1>a, GoroutineFrame
<1> QED BY <1>1, <1>2, <1>3, <1>4, <1>5, <1>6, <1>7 DEF InstancesNext, HostCall

\* What the mapping makes of the requests.
AskFn ==
    [c \in Call |-> [pc |-> AskPC(c), h |-> call[c].h,
                     effect |-> call[c].effect, answer |-> call[c].result]]

Asked(p, h, e, a) == [pc |-> p, h |-> h, effect |-> e, answer |-> a]

\* The request c is the only one whose state changes, to the given one.
AskBecomes(c, p, h, e, a) == AskFn' = [AskFn EXCEPT ![c] = Asked(p, h, e, a)]

\* The updates HandleService makes, and as updates of the whole record.
WithPC(c, x) == [AskFn EXCEPT ![c].pc = x]
WithEffect(c, x) == [AskFn EXCEPT ![c].effect = x]
WithHandle(c, x, y) == [AskFn EXCEPT ![c].pc = x, ![c].h = y]
WithAnswer(c, x, z) == [AskFn EXCEPT ![c].pc = x, ![c].answer = z]
WithRefusal(c, x, y, z) == [AskFn EXCEPT ![c].pc = x, ![c].h = y, ![c].answer = z]

LEMMA AskExcept ==
    ASSUME NEW c \in Call, NEW x, NEW y, NEW z
    PROVE  LET h == call[c].h
               e == call[c].effect
               a == call[c].result IN
           /\ AskBecomes(c, x, h, e, a) => AskFn' = WithPC(c, x)
           /\ AskBecomes(c, AskPC(c), h, x, a) => AskFn' = WithEffect(c, x)
           /\ AskBecomes(c, x, y, e, a) => AskFn' = WithHandle(c, x, y)
           /\ AskBecomes(c, x, h, e, z) => AskFn' = WithAnswer(c, x, z)
           /\ AskBecomes(c, x, y, e, z) => AskFn' = WithRefusal(c, x, y, z)
<1> DEFINE h == call[c].h
           e == call[c].effect
           a == call[c].result
           r == AskFn[c]
           s == [r EXCEPT !.pc = x]
           q == [s EXCEPT !.h = y]
<1>1. r = Asked(AskPC(c), h, e, a)
  BY DEF AskFn, Asked
<1> HIDE DEF r
<1>2. s = Asked(x, h, e, a) /\ [r EXCEPT !.effect = x] = Asked(AskPC(c), h, x, a)
  BY <1>1 DEF Asked
<1> HIDE DEF s
<1>3. q = Asked(x, y, e, a) /\ [s EXCEPT !.answer = z] = Asked(x, h, e, z)
  BY <1>2 DEF Asked
<1> HIDE DEF q
<1>4. [q EXCEPT !.answer = z] = Asked(x, y, e, z)
  BY <1>3 DEF Asked
<1>5. /\ [r EXCEPT !.pc = x] = Asked(x, h, e, a)
      /\ [r EXCEPT !.effect = x] = Asked(AskPC(c), h, x, a)
      /\ [r EXCEPT !.pc = x, !.h = y] = Asked(x, y, e, a)
      /\ [r EXCEPT !.pc = x, !.answer = z] = Asked(x, h, e, z)
      /\ [r EXCEPT !.pc = x, !.h = y, !.answer = z] = Asked(x, y, e, z)
  BY <1>2, <1>3, <1>4, Zenon DEF q, s
<1>6. AskFn = [d \in Call |-> AskFn[d]]
  BY DEF AskFn
<1>7. /\ [AskFn EXCEPT ![c].pc = x] = [AskFn EXCEPT ![c] = [r EXCEPT !.pc = x]]
      /\ [AskFn EXCEPT ![c].effect = x] = [AskFn EXCEPT ![c] = [r EXCEPT !.effect = x]]
      /\ [AskFn EXCEPT ![c].pc = x, ![c].h = y] = [AskFn EXCEPT ![c] = [r EXCEPT !.pc = x, !.h = y]]
      /\ [AskFn EXCEPT ![c].pc = x, ![c].answer = z] =
             [AskFn EXCEPT ![c] = [r EXCEPT !.pc = x, !.answer = z]]
      /\ [AskFn EXCEPT ![c].pc = x, ![c].h = y, ![c].answer = z] =
             [AskFn EXCEPT ![c] = [r EXCEPT !.pc = x, !.h = y, !.answer = z]]
  BY <1>6 DEF r
<1> QED BY <1>5, <1>7, Zenon DEF AskBecomes, WithPC, WithEffect, WithHandle, WithAnswer, WithRefusal

LEMMA AskMoves ==
    ASSUME NEW c \in Call, \A d \in Call \ {c} : call'[d] = call[d]
    PROVE  AskBecomes(c, AskPC(c)', call'[c].h, call'[c].effect, call'[c].result)
<1>1. \A d \in Call \ {c} : AskFn'[d] = AskFn[d]
  BY DEF AskFn, AskPC
<1>2. AskFn'[c] = Asked(AskPC(c)', call'[c].h, call'[c].effect, call'[c].result)
  BY DEF AskFn, Asked
<1>3. AskFn = [d \in Call |-> AskFn[d]] /\ AskFn' = [d \in Call |-> AskFn'[d]]
  BY DEF AskFn
<1> QED BY <1>1, <1>2, <1>3 DEF AskBecomes

LEMMA AskKept ==
    ASSUME UNCHANGED call
    PROVE  AskFn' = AskFn
BY DEF AskFn, AskPC

\* The steps of HandleService, in terms of the mapping.
LEMMA StatusMoveIsServiceStep ==
    ASSUME NEW k \in Handle, AskFn' = AskFn,
           \/ Moves(k, "free", "open")
           \/ Moves(k, "open", "closing")
           \/ Moves(k, "closing", "closed")
    PROVE  Service!Next
<1>1. StatusFn[k] = StatusOf(k)
  BY DEF StatusFn
<1>2. CASE Moves(k, "free", "open")
  <2>1. Service!Open(k)
    BY <1>1, <1>2 DEF Moves, StatusFn, AskFn, Service!Open
  <2> QED BY <2>1 DEF Service!Next
<1>3. CASE Moves(k, "open", "closing")
  <2>1. Service!CloseBegins(k)
    BY <1>1, <1>3 DEF Moves, StatusFn, AskFn, Service!CloseBegins
  <2> QED BY <2>1 DEF Service!Next
<1>4. CASE Moves(k, "closing", "closed")
  <2>1. Service!CloseEnds(k)
    BY <1>1, <1>4 DEF Moves, StatusFn, AskFn, Service!CloseEnds
  <2> QED BY <2>1 DEF Service!Next
<1> QED BY <1>2, <1>3, <1>4

LEMMA ServiceStutters ==
    ASSUME StatusFn' = StatusFn, AskFn' = AskFn
    PROVE  UNCHANGED Service!vars
BY DEF StatusFn, AskFn, Service!vars

\* The place of a request in HandleService, without the order of the arms.
LEMMA AskPlace ==
    ASSUME NEW c \in Call
    PROVE  /\ call[c].pc = "idle" => AskPC(c) = "idle"
           /\ call[c].pc = "lookup" => AskPC(c) = "asked"
           /\ call[c].pc = "invoke" => AskPC(c) = "bound"
           /\ call[c].pc = "done" /\ call[c].obj # NoInstance /\ call[c].result = "failed" =>
                  AskPC(c) = "abandoned"
           /\ call[c].pc = "done" /\ (call[c].obj = NoInstance \/ call[c].result # "failed") =>
                  AskPC(c) = "answered"
BY DEF AskPC

LEMMA AskPlaceNext ==
    ASSUME NEW c \in Call
    PROVE  /\ call'[c].pc = "lookup" => AskPC(c)' = "asked"
           /\ call'[c].pc = "invoke" => AskPC(c)' = "bound"
           /\ call'[c].pc = "done" /\ call'[c].obj # NoInstance /\ call'[c].result = "failed" =>
                  AskPC(c)' = "abandoned"
           /\ call'[c].pc = "done" /\ (call'[c].obj = NoInstance \/ call'[c].result # "failed") =>
                  AskPC(c)' = "answered"
BY DEF AskPC

\* A handle's instance in the table, seen through the mapping.
LEMMA OpenIsInTable ==
    ASSUME TableInv, NEW h \in Handle
    PROVE  StatusOf(h) = "open" <=> instances[h] # NoInstance
BY StatusCases

\* Every step of a request is a step of HandleService or changes nothing there.
LEMMA RequestImplements ==
    ASSUME TableInv, TableInv', CallInv, LifeInv, WorkInv, CallWork,
           NEW c \in Call, HostRpc(c) \/ RpcStep(c) \/ BackendStep(c)
    PROVE  Service!Next \/ UNCHANGED Service!vars
<1>0. UNCHANGED instVars
  BY RequestLeavesInstances
<1>1. StatusFn' = StatusFn
  BY <1>0, StatusSame DEF instVars
<1>2. call[c] \in CallStates /\ call \in [Call -> CallStates]
  BY DEF CallInv, CallsType
<1>3. \A d \in Call \ {c} : call'[d] = call[d]
  BY <1>2 DEF HostRpc, spicedb_rpc, MethodExport, RpcStep, runRPC, InvokeReturns, InvokeFails,
              InvokeTimesOut, Finish, BackendStep, BackendAccepts, BackendApplies, BackendAborts
<1>4. AskBecomes(c, AskPC(c)', call'[c].h, call'[c].effect, call'[c].result)
  BY <1>3, AskMoves
<1>5. AskFn[c] = Asked(AskPC(c), call[c].h, call[c].effect, call[c].result)
  BY DEF AskFn, Asked
<1>6. \A k \in Handle : StatusFn[k] = StatusOf(k)
  BY DEF StatusFn
<1>10. CASE HostRpc(c)
  <2>1. PICK h \in Handle, req \in Request : spicedb_rpc(c, h, req) \/ MethodExport(c, h, req)
    BY <1>10 DEF HostRpc
  <2>2. call[c].pc = "idle" /\ call[c].obj = NoInstance /\ call[c].result = "none"
    BY <2>1 DEF spicedb_rpc, MethodExport, CallInv, CallProgress
  <2>3. AskFn[c].pc = "idle"
    BY <1>5, <2>2, AskPlace DEF Asked
  <2>4. CASE call' = [call EXCEPT ![c].pc = "done", ![c].h = h, ![c].req = req,
                                  ![c].result = "unsupported"]
    <3>1. /\ call'[c].pc = "done" /\ call'[c].h = h /\ call'[c].effect = call[c].effect
          /\ call'[c].obj = NoInstance /\ call'[c].result = "unsupported"
      BY <1>2, <2>2, <2>4 DEF CallStates
    <3>2. AskBecomes(c, "answered", h, call[c].effect, "unsupported")
      BY <1>4, <3>1, AskPlaceNext
    <3>3. AskFn' = WithRefusal(c, "answered", h, "unsupported")
      BY <3>2, AskExcept
    <3>4. Service!AskUnsupported(c, h)
      BY <1>1, <2>3, <3>3 DEF WithRefusal, AskFn, StatusFn, Service!AskUnsupported
    <3> QED BY <3>4 DEF Service!Next
  <2>5. CASE call' = [call EXCEPT ![c].pc = "lookup", ![c].h = h, ![c].req = req]
    <3>1. /\ call'[c].pc = "lookup" /\ call'[c].h = h /\ call'[c].effect = call[c].effect
          /\ call'[c].result = call[c].result
      BY <1>2, <2>2, <2>5 DEF CallStates
    <3>2. AskBecomes(c, "asked", h, call[c].effect, call[c].result)
      BY <1>4, <3>1, AskPlaceNext
    <3>3. AskFn' = WithHandle(c, "asked", h)
      BY <3>2, AskExcept
    <3>4. Service!Ask(c, h)
      BY <1>1, <2>3, <3>3 DEF WithHandle, AskFn, StatusFn, Service!Ask
    <3> QED BY <3>4 DEF Service!Next
  <2> QED BY <2>1, <2>4, <2>5 DEF spicedb_rpc, MethodExport
<1>11. CASE runRPC(c)
  <2>1. /\ call[c].pc = "lookup" /\ call[c].h \in Handle /\ call[c].obj = NoInstance
        /\ call[c].result = "none"
    BY <1>11 DEF runRPC, CallInv, CallProgress
  <2>2. AskFn[c].pc = "asked" /\ AskFn[c].h = call[c].h
    BY <1>5, <2>1, AskPlace DEF Asked
  <2>3. StatusFn[AskFn[c].h] = "open" <=> instances[call[c].h] # NoInstance
    BY <1>6, <2>1, <2>2, OpenIsInTable
  <2>4. ASSUME NEW res \in {"invalid", "failed"}, Finish(c, res)
        PROVE  AskFn' = WithAnswer(c, "answered", res)
    <3>1. /\ call'[c].pc = "done" /\ call'[c].h = call[c].h /\ call'[c].effect = call[c].effect
          /\ call'[c].obj = NoInstance /\ call'[c].result = res
      BY <1>2, <2>1, <2>4 DEF CallStates, Finish
    <3>2. AskBecomes(c, "answered", call[c].h, call[c].effect, res)
      BY <1>4, <3>1, AskPlaceNext
    <3> QED BY <3>2, AskExcept
  <2>5. CASE instances[call[c].h] = NoInstance /\ Finish(c, "invalid")
    <3>1. Service!AnswerInvalid(c)
      BY <1>1, <2>2, <2>3, <2>4, <2>5 DEF WithAnswer, AskFn, StatusFn, Service!AnswerInvalid
    <3> QED BY <3>1 DEF Service!Next, Service!Answer
  <2>6. CASE instances[call[c].h] # NoInstance /\ Finish(c, "failed")
    <3>1. Service!AnswerUndecodable(c)
      BY <1>1, <2>2, <2>3, <2>4, <2>6 DEF WithAnswer, AskFn, StatusFn, Service!AnswerUndecodable
    <3> QED BY <3>1 DEF Service!Next, Service!Answer
  <2>7. CASE /\ instances[call[c].h] # NoInstance
             /\ call' = [call EXCEPT ![c].pc = "invoke", ![c].obj = instances[call[c].h]]
    <3>1. /\ call'[c].pc = "invoke" /\ call'[c].h = call[c].h /\ call'[c].effect = call[c].effect
          /\ call'[c].result = call[c].result
      BY <1>2, <2>7 DEF CallStates
    <3>2. AskBecomes(c, "bound", call[c].h, call[c].effect, call[c].result)
      BY <1>4, <3>1, AskPlaceNext
    <3>3. AskFn' = WithPC(c, "bound")
      BY <3>2, AskExcept
    <3>4. Service!Bind(c)
      BY <1>1, <2>2, <2>3, <2>7, <3>3 DEF WithPC, AskFn, StatusFn, Service!Bind
    <3> QED BY <3>4 DEF Service!Next, Service!Answer
  <2> QED BY <1>11, <2>5, <2>6, <2>7 DEF runRPC
<1>12. CASE InvokeReturns(c) \/ InvokeFails(c) \/ InvokeTimesOut(c)
  <2>1. call[c].pc = "invoke" /\ call[c].obj # NoInstance
    BY <1>12 DEF InvokeReturns, InvokeFails, InvokeTimesOut, CallInv, CallProgress
  <2>2. AskFn[c].pc = "bound" /\ AskFn[c].effect = call[c].effect
    BY <1>5, <2>1, AskPlace DEF Asked
  <2>3. CASE Finish(c, "ok") /\ call[c].work = "replied"
    <3>1. /\ call'[c].pc = "done" /\ call'[c].h = call[c].h /\ call'[c].effect = call[c].effect
          /\ call'[c].result = "ok"
      BY <1>2, <2>3 DEF CallStates, Finish
    <3>2. AskBecomes(c, "answered", call[c].h, call[c].effect, "ok")
      BY <1>4, <3>1, AskPlaceNext
    <3>3. AskFn' = WithAnswer(c, "answered", "ok")
      BY <3>2, AskExcept
    <3>4. call[c].effect = "applied"
      BY <2>3 DEF CallInv, CallProgress
    <3>5. Service!AnswerOk(c)
      BY <1>1, <2>2, <3>3, <3>4 DEF WithAnswer, AskFn, StatusFn, Service!AnswerOk
    <3> QED BY <3>5 DEF Service!Next, Service!Answer
  <2>4. CASE Finish(c, "failed")
    <3>1. /\ call'[c].pc = "done" /\ call'[c].h = call[c].h /\ call'[c].effect = call[c].effect
          /\ call'[c].obj # NoInstance /\ call'[c].result = "failed"
      BY <1>2, <2>1, <2>4 DEF CallStates, Finish
    <3>2. AskBecomes(c, "abandoned", call[c].h, call[c].effect, "failed")
      BY <1>4, <3>1, AskPlaceNext
    <3>3. AskFn' = WithAnswer(c, "abandoned", "failed")
      BY <3>2, AskExcept
    <3>4. Service!AnswerFailed(c)
      BY <1>1, <2>2, <3>3 DEF WithAnswer, AskFn, StatusFn, Service!AnswerFailed
    <3> QED BY <3>4 DEF Service!Next, Service!Answer
  <2>5. (Finish(c, "ok") /\ call[c].work = "replied") \/ Finish(c, "failed")
    BY <1>12 DEF InvokeReturns, InvokeFails, InvokeTimesOut
  <2> QED BY <2>3, <2>4, <2>5
<1>13. CASE BackendAccepts(c) \/ BackendAborts(c)
  <2>1. /\ call'[c].pc = call[c].pc /\ call'[c].h = call[c].h /\ call'[c].obj = call[c].obj
        /\ call'[c].effect = call[c].effect /\ call'[c].result = call[c].result
    BY <1>2, <1>13 DEF BackendAccepts, BackendAborts, CallStates
  <2>2. AskPC(c)' = AskPC(c)
    BY <2>1 DEF AskPC
  <2>3. AskFn = [AskFn EXCEPT ![c] = AskFn[c]]
    BY DEF AskFn
  <2>4. AskFn' = AskFn
    BY <1>4, <1>5, <2>1, <2>2, <2>3, Zenon DEF AskBecomes
  <2> QED BY <1>1, <2>4, ServiceStutters
<1>14. CASE BackendApplies(c)
  <2> DEFINE o == call[c].obj
  <2>1. /\ call[c].work = "handling"
        /\ call' = [call EXCEPT ![c].work = "replied", ![c].effect = "applied"]
    BY <1>14 DEF BackendApplies
  <2>2. /\ call'[c].pc = call[c].pc /\ call'[c].h = call[c].h /\ call'[c].obj = call[c].obj
        /\ call'[c].effect = "applied" /\ call'[c].result = call[c].result
    BY <1>2, <2>1 DEF CallStates
  <2>3. AskPC(c)' = AskPC(c)
    BY <2>2 DEF AskPC
  <2>4. AskFn' = WithEffect(c, "applied")
    <3>1. AskBecomes(c, AskPC(c), call[c].h, "applied", call[c].result)
      BY <1>4, <2>2, <2>3
    <3> QED BY <3>1, AskExcept
  <2>5. o # NoInstance /\ o \in Instance
    BY <1>2, <2>1 DEF CallInv, CallProgress, CallStates, OrNil
  <2>6. AskFn[c].pc \in {"bound", "abandoned"} /\ AskFn[c].effect = "none"
    BY <1>5, <2>1, <2>5, AskPlace DEF CallWork, Asked
  <2>7. inst[o].stage \in Published /\ inst[o].id = call[c].h
    BY <2>5 DEF CallInv, CallBound
  <2>8. inst[o].stage # "disposed"
    BY <2>1, <2>5 DEF WorkInv, LifeInv, AtRest
  <2>9. call[c].h \in Handle /\ StatusOf(call[c].h) \in {"open", "closing"}
    <3>1. call[c].h \in Handle
      BY <2>5 DEF CallInv, CallProgress
    <3>2. CASE inst[o].stage = "live"
      BY <2>5, <2>7, <3>1, <3>2, OpenIsInTable, InstancesAssumption DEF TableInv, RegistryConsistent
    <3>3. CASE inst[o].stage = "disposing"
      BY <2>5, <2>7, <3>1, <3>3, StatusCases DEF InStage
    <3> QED BY <2>7, <2>8, <3>1, <3>2, <3>3 DEF Published
  <2>10. StatusFn[AskFn[c].h] \in {"open", "closing"}
    BY <1>5, <1>6, <2>9 DEF Asked
  <2>11. Service!Apply(c)
    BY <1>1, <2>4, <2>6, <2>10 DEF WithEffect, AskFn, StatusFn, Service!Apply
  <2> QED BY <2>11 DEF Service!Next
<1> QED BY <1>10, <1>11, <1>12, <1>13, <1>14 DEF RpcStep, BackendStep

\* The library keeps what HandleService promises its host, for any number of
\* threads, instances, requests and streams: a handle is opened once and closed
\* once, a request has one effect at most, on the instance its handle named and
\* before the dispose of that instance returns, and "ok", "invalid" and
\* "unsupported" mean what they say (main.go 246-248, 412-437; rpc.go 30-54).
THEOREM LibraryImplementsService == Spec => ImplementsService
<1>1. ASSUME Init PROVE Service!Init
  <2>1. \A c \in Call : /\ call[c].pc = "idle" /\ call[c].h = 0
                        /\ call[c].effect = "none" /\ call[c].result = "none"
    BY <1>1 DEF Init, FfiRpcInit, NewCall
  <2>2. \A c \in Call : AskPC(c) = "idle"
    BY <2>1, AskPlace
  <2>3. AskFn = [c \in Call |-> [pc |-> "idle", h |-> 0, effect |-> "none", answer |-> "none"]]
    BY <2>1, <2>2 DEF AskFn
  <2>4. \A h \in Handle : StatusOf(h) = "free"
    BY <1>1, InitTable, StatusCases DEF Init, InstancesInit, InStage, NewInstance
  <2>5. StatusFn = [h \in Handle |-> "free"]
    BY <2>4 DEF StatusFn
  <2> QED BY <2>3, <2>5 DEF AskFn, StatusFn, Service!Init
<1>2. ASSUME TableInv, TableInv', CallInv, LifeInv, WorkInv, CallWork, [Next]_vars
      PROVE  [Service!Next]_(Service!vars)
  <2>1. CASE RequestStep
    BY <1>2, <2>1, RequestImplements DEF RequestStep
  <2>2. CASE UNCHANGED call
    <3>1. [InstancesNext]_instVars
      BY <1>2, NextOfInstances
    <3>2. AskFn' = AskFn
      BY <2>2, AskKept
    <3>3. CASE StatusFn' = StatusFn
      BY <3>2, <3>3, ServiceStutters
    <3>4. CASE \E k \in Handle : \/ Moves(k, "free", "open")
                                 \/ Moves(k, "open", "closing")
                                 \/ Moves(k, "closing", "closed")
      BY <3>2, <3>4, StatusMoveIsServiceStep
    <3> QED BY <1>2, <3>1, <3>3, <3>4, StepMovesStatus
  <2> QED BY <1>2, <2>1, <2>2 DEF Next, LifecycleStep, StreamStep, vars
<1> QED BY <1>1, <1>2, TableInLibrary, CallInvariant, LifeInLibrary, WorkInvariant,
           CallWorkInvariant, PTL DEF Spec, ImplementsService, Service!Spec
=============================================================================
