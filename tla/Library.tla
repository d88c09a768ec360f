------------------------------- MODULE Library -------------------------------
(***************************************************************************)
(* The whole C-shared library: start and dispose (Instances), unary        *)
(* requests (FfiRpc) and forwarded streams (StreamingProxy) at once.       *)
(*                                                                         *)
(* The parts meet in two waits of a dispose.  GracefulStop waits for the   *)
(* proxy's handlers, and the Run goroutine, which wg.Wait waits for, waits *)
(* for the requests SpiceDB is working on; a dispose that has closed the   *)
(* in-memory connection makes both come to an end.                         *)
(***************************************************************************)
EXTENDS FfiRpc, StreamingProxy

vars == <<nextID, instances, inst, thread, sock, globalTP, call, stream>>

Init == InstancesInit /\ FfiRpcInit /\ StreamingProxyInit

\* No request of instance o is at work in SpiceDB.
Quiet(o) == Handling(o) = {} /\ BackendStreaming(o) = {}

\* No handler of the proxy is left for the instance thread t works on.
Drained(t) == Streaming(thread[t].obj) = {}

ThreadStep(t) == StartStep(t) \/ CleanupStep(t) \/ DisposeStep(t, Drained(t))

LifecycleStep ==
    /\ \/ \E t \in Thread : HostCall(t) \/ ThreadStep(t)
       \/ \E o \in Instance : GoroutineStep(o, Quiet(o)) \/ ServerRunFails(o, Quiet(o))
    /\ UNCHANGED <<call, stream>>

RequestStep ==
    /\ \E c \in Call : HostRpc(c) \/ RpcStep(c) \/ BackendStep(c)
    /\ UNCHANGED stream

StreamStep ==
    /\ \E s \in Stream : ClientStep(s) \/ ProxyStep(s) \/ BackendStreamStep(s)
    /\ UNCHANGED call

Next == LifecycleStep \/ RequestStep \/ StreamStep

Spec == Init /\ [][Next]_vars

\* Threads, goroutines and proxy handlers keep running, a request's timeout
\* fires, and SpiceDB drops work whose caller has gone.  Nothing else is
\* promised: SpiceDB may work on a request for ever, and a Watch never ends.
LibraryFairness ==
    /\ \A t \in Thread : WF_vars(ThreadStep(t) /\ UNCHANGED <<call, stream>>)
    /\ \A o \in Instance : WF_vars(GoroutineStep(o, Quiet(o)) /\ UNCHANGED <<call, stream>>)
    /\ \A c \in Call : /\ WF_vars(RpcStep(c) /\ UNCHANGED stream)
                       /\ WF_vars(call[c].pc = "done" /\ BackendAborts(c) /\ UNCHANGED stream)
    /\ \A s \in Stream : /\ WF_vars(ProxyStep(s) /\ UNCHANGED call)
                         /\ WF_vars(BackendCancelled(s) /\ UNCHANGED call)

\* The host goes on reading the streams it has open.
ReaderFairness == \A s \in Stream : WF_vars(ClientReads(s) /\ UNCHANGED call)

LibraryFairSpec == Spec /\ LibraryFairness
FairSpec == LibraryFairSpec /\ ReaderFairness

-----------------------------------------------------------------------------
\* Properties.

TypeOK ==
    /\ InstancesTypeOK
    /\ call \in [Call -> CallStates]
    /\ stream \in [Stream -> StreamStates]

\* A request goes to the instance whose handle the host passed, also when the
\* instance is disposed of, and another is started, while the request holds
\* the pointer it read under the lock (rpc.go 30-50).
CallsReachTheirInstance ==
    \A c \in Call : call[c].obj # NoInstance => inst[call[c].obj].id = call[c].h

\* What a request tells the host: ok means the datastore has the effect, and a
\* request refused for its method or its handle has not been near the
\* datastore (rpc.go 33-54, 124-129).
OutcomeSound ==
    \A c \in Call :
        /\ call[c].result = "ok" => call[c].effect = "applied"
        /\ call[c].result \in {"unsupported", "invalid"} =>
               call[c].work = "none" /\ call[c].effect = "none"

\* When dispose has returned, nothing is at work for the instance any more: no
\* request that was under way, none that had timed out, no forwarded stream
\* (main.go 427-437).
NoWorkAfterDispose ==
    \A o \in Instance : inst[o].stage = "disposed" =>
        Handling(o) = {} /\ Streaming(o) = {} /\ BackendStreaming(o) = {}

\* A stream ends cleanly only when the client was sent everything the backend
\* produced and the backend had ended cleanly, never because the instance was
\* disposed of in mid-stream (streaming_proxy.go 56-67).
CleanEndIsComplete ==
    \A s \in Stream : stream[s].result = "ok" =>
        stream[s].backend = "eof" /\ stream[s].forwarded = stream[s].produced

\* The proxy holds one message at most: a client that does not read stops the
\* handler, which stops taking messages from the backend
\* (streaming_proxy.go 57, 64).
Backpressure ==
    \A s \in Stream :
        /\ stream[s].read <= stream[s].forwarded
        /\ stream[s].received <= stream[s].forwarded + 1
        /\ stream[s].received <= stream[s].produced
        /\ stream[s].received <= stream[s].read + Window + 1

\* Dispose returns whatever was under way when it was called: requests SpiceDB
\* never answers, Watches that never end (main.go 423-424: the order of the
\* steps is there so that nothing "blocks forever").
DisposeReturns ==
    \A t \in Thread : thread[t].op = "dispose" ~> thread[t].op = "none"

\* When the client of a stream is gone, the backend stops working for it
\* (streaming_proxy.go 51, 71, 91, 118: the context is the client's).
BackendStreamReleased ==
    \A s \in Stream : stream[s].client = "gone" ~> stream[s].backend # "active"

-----------------------------------------------------------------------------
\* The library implements HandleService.

StatusOf(h) ==
    CASE instances[h] # NoInstance -> "open"
      [] \E o \in Instance : inst[o].id = h /\ inst[o].stage = "disposing" -> "closing"
      [] \E o \in Instance : inst[o].id = h /\ inst[o].stage = "disposed" -> "closed"
      [] OTHER -> "free"

AskPC(c) ==
    CASE call[c].pc = "idle" -> "idle"
      [] call[c].pc = "lookup" -> "asked"
      [] call[c].pc = "invoke" -> "bound"
      [] call[c].pc = "done" /\ call[c].obj # NoInstance /\ call[c].result = "failed" -> "abandoned"
      [] OTHER -> "answered"

Service == INSTANCE HandleService WITH
    status <- [h \in Handle |-> StatusOf(h)],
    ask <- [c \in Call |-> [pc |-> AskPC(c), h |-> call[c].h,
                            effect |-> call[c].effect, answer |-> call[c].result]]

\* The library keeps the safety promises of HandleService: handles are opened
\* and closed once; a request has one effect at most, on the instance its handle
\* named, before the dispose of that instance returns; its answer says what it
\* says there (main.go 246-248, 412-437; rpc.go 30-54).
ImplementsService == Service!Spec

\* It keeps the liveness promises too, for a host that reads its streams:
\* every request is answered although SpiceDB may never answer it (rpc.go 48),
\* and every dispose returns (main.go 423-437).
ImplementsFairService == Service!FairSpec

=============================================================================
