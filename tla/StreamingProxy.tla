--------------------------- MODULE StreamingProxy ---------------------------
(***************************************************************************)
(* Server-streaming requests (shared/c/streaming_proxy.go): Watch,         *)
(* ReadRelationships, LookupResources and LookupSubjects, which the host's *)
(* gRPC client sends over the socket and the proxy forwards, message by    *)
(* message, from the in-memory connection.                                 *)
(*                                                                         *)
(* The four handlers are one loop.  A message is a number: the backend     *)
(* produces 1, 2, ..., so a stream's progress is three counters.  gRPC's   *)
(* flow control appears as Window, the messages a client may leave unread. *)
(***************************************************************************)
EXTENDS Instances

CONSTANTS
    Stream,    \* streaming requests made by the host
    MaxMsgs,   \* bound on the messages a backend stream produces
    Window     \* messages in flight to a client that does not read

ASSUME StreamingProxyAssumption ==
    /\ MaxMsgs \in Nat
    /\ Window \in Nat \ {0}

VARIABLE stream

\* pc: the proxy's handler; client: the host's end of the stream; backend:
\* SpiceDB's end; produced, forwarded, read: messages out of the backend, into
\* the client's stream, and taken by the client.
StreamStates ==
    [pc : {"idle", "open", "recv", "send", "done"}, obj : OrNil,
     client : {"present", "gone"},
     backend : {"none", "active", "eof", "broken"},
     produced : 0..MaxMsgs, received : 0..MaxMsgs, forwarded : 0..MaxMsgs,
     read : 0..MaxMsgs, result : {"none", "ok", "error"}]

NewStream ==
    [pc |-> "idle", obj |-> NoInstance, client |-> "present", backend |-> "none",
     produced |-> 0, received |-> 0, forwarded |-> 0, read |-> 0, result |-> "none"]

StreamingProxyInit == stream = [s \in Stream |-> NewStream]

InHandler(s) == stream[s].pc \in {"open", "recv", "send"}
Streaming(o) == {s \in Stream : InHandler(s) /\ stream[s].obj = o}
BackendStreaming(o) == {s \in Stream : stream[s].backend = "active" /\ stream[s].obj = o}

End(s, res) == stream' = [stream EXCEPT ![s].pc = "done", ![s].result = res]

-----------------------------------------------------------------------------
\* The host's gRPC client (external).

\* A client that was given the address dials it and sends its request.
ClientOpens(s, o) ==
    /\ stream[s].pc = "idle"
    /\ inst[o].stage \in {"live", "disposing"}
    /\ inst[o].serve = "running"
    /\ inst[o].streamingServer = "built"
    /\ stream' = [stream EXCEPT ![s].pc = "open", ![s].obj = o]
    /\ UNCHANGED instVars

ClientReads(s) ==
    /\ stream[s].client = "present"
    /\ stream[s].read < stream[s].forwarded
    /\ stream' = [stream EXCEPT ![s].read = @ + 1]
    /\ UNCHANGED instVars

\* The client cancels its request or its channel is closed.
ClientLeaves(s) ==
    /\ InHandler(s)
    /\ stream[s].client = "present"
    /\ stream' = [stream EXCEPT ![s].client = "gone"]
    /\ UNCHANGED instVars

-----------------------------------------------------------------------------
\* The proxy's handler: open the backend's stream, then Recv and Send in turn.

OpenBackend(s) ==
    LET o == stream[s].obj IN
    /\ stream[s].pc = "open"
    /\ \/ /\ inst[o].clientConn = "open"
          /\ inst[o].server = "running"
          /\ inst[o].ctx = "open"
          /\ stream' = [stream EXCEPT ![s].pc = "recv", ![s].backend = "active"]
       \/ /\ \/ inst[o].clientConn = "closed"
             \/ inst[o].ctx = "cancelled"
             \/ inst[o].server = "exited"
             \/ stream[s].client = "gone"
          /\ End(s, "error")
    /\ UNCHANGED instVars

\* Mutant of RecvMessage: the handler goes on receiving before it has sent.
RecvMessageBuffers(s) ==
    /\ stream[s].pc = "recv"
    /\ stream[s].received < stream[s].produced
    /\ \E next \in {"recv", "send"} :
           stream' = [stream EXCEPT ![s].pc = next, ![s].received = @ + 1]
    /\ UNCHANGED instVars

\* stream.Recv() returns a message ...
RecvMessage(s) ==
    /\ stream[s].pc = "recv"
    /\ stream[s].received < stream[s].produced
    /\ stream' = [stream EXCEPT ![s].pc = "send", ![s].received = @ + 1]
    /\ UNCHANGED instVars

\* ... or io.EOF, after the last message: return nil ...
RecvEOF(s) ==
    /\ stream[s].pc = "recv"
    /\ stream[s].backend = "eof"
    /\ stream[s].received = stream[s].produced
    /\ End(s, "ok")
    /\ UNCHANGED instVars

\* Mutant of BackendUnreachable: the backend's call has a context of its own.
BackendUnreachableDetached(s) ==
    inst[stream[s].obj].clientConn = "closed" \/ stream[s].backend = "broken"

\* ... or an error: the connection is closed, or the call's context, which is
\* derived from srv.Context(), is done because the client is gone.
BackendUnreachable(s) ==
    \/ inst[stream[s].obj].clientConn = "closed"
    \/ stream[s].client = "gone"
    \/ stream[s].backend = "broken"

\* Mutant of RecvError: every error of Recv is taken for the end.
RecvErrorAsEOF(s) ==
    /\ stream[s].pc = "recv"
    /\ BackendUnreachable(s)
    /\ End(s, "ok")
    /\ UNCHANGED instVars

RecvError(s) ==
    /\ stream[s].pc = "recv"
    /\ BackendUnreachable(s)
    /\ End(s, "error")
    /\ UNCHANGED instVars

\* srv.Send(msg) waits for room in the client's window.
SendMessage(s) ==
    /\ stream[s].pc = "send"
    /\ stream[s].forwarded - stream[s].read < Window
    /\ stream' = [stream EXCEPT ![s].pc = "recv", ![s].forwarded = @ + 1]
    /\ UNCHANGED instVars

SendError(s) ==
    /\ stream[s].pc = "send"
    /\ stream[s].client = "gone"
    /\ End(s, "error")
    /\ UNCHANGED instVars

-----------------------------------------------------------------------------
\* SpiceDB's side (external).

BackendProduces(s) ==
    /\ stream[s].backend = "active"
    /\ stream[s].produced < MaxMsgs
    /\ stream' = [stream EXCEPT ![s].produced = @ + 1]
    /\ UNCHANGED instVars

\* The backend's handler ends by itself, with a clean end or with an error;
\* a Watch may never do either.
BackendEnds(s) ==
    /\ stream[s].backend = "active"
    /\ \E b \in {"eof", "broken"} : stream' = [stream EXCEPT ![s].backend = b]
    /\ UNCHANGED instVars

\* The backend's handler notices that its caller is gone: the connection was
\* closed, the proxy's handler has returned, or its context is done.
BackendCancelled(s) ==
    /\ stream[s].backend = "active"
    /\ BackendUnreachable(s) \/ stream[s].pc = "done"
    /\ stream' = [stream EXCEPT ![s].backend = "broken"]
    /\ UNCHANGED instVars

-----------------------------------------------------------------------------
ProxyStep(s) ==
    \/ OpenBackend(s)
    \/ RecvMessage(s)
    \/ RecvEOF(s)
    \/ RecvError(s)
    \/ SendMessage(s)
    \/ SendError(s)

BackendStreamStep(s) == BackendProduces(s) \/ BackendEnds(s) \/ BackendCancelled(s)

ClientStep(s) ==
    \/ \E o \in Instance : ClientOpens(s, o)
    \/ ClientReads(s)
    \/ ClientLeaves(s)

=============================================================================
