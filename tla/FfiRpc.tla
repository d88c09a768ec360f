------------------------------ MODULE FfiRpc ------------------------------
(***************************************************************************)
(* Unary requests through the C interface (shared/c/rpc.go): spicedb_rpc   *)
(* and the per-method exports, all of which end in runRPC.                 *)
(*                                                                         *)
(* A request looks its instance up under the read lock, releases the lock, *)
(* and goes on using the pointer: start, dispose and other requests        *)
(* interleave with every later step.  The SpiceDB server behind the        *)
(* in-memory connection is external; "work" is the handler it runs for the *)
(* request, which may outlive the request that caused it.                  *)
(***************************************************************************)
EXTENDS Instances

CONSTANTS
    Call,      \* requests made by the host, each on a thread of its own
    Request    \* the kinds of request the host makes

ASSUME FfiRpcAssumption ==
    Request # {} /\ Request \subseteq [known : BOOLEAN, parses : BOOLEAN]

VARIABLE call

Results == {"none", "ok", "unsupported", "invalid", "failed"}

\* pc, h, req: the request's own progress and arguments; obj: the instance it
\* found; work: its handler in SpiceDB; effect: has the datastore taken it; result: what the host was told.
CallStates ==
    [pc : {"idle", "lookup", "invoke", "done"}, h : 0..MaxHandle,
     req : Request, obj : OrNil,
     work : {"none", "handling", "replied", "aborted"},
     effect : {"none", "applied"},
     result : Results]

NewCall ==
    [pc |-> "idle", h |-> 0, req |-> CHOOSE r \in Request : TRUE,
     obj |-> NoInstance, work |-> "none", effect |-> "none", result |-> "none"]

FfiRpcInit == call = [c \in Call |-> NewCall]

\* Requests SpiceDB is working on for instance o.
Handling(o) == {c \in Call : call[c].work = "handling" /\ call[c].obj = o}

Finish(c, res) == call' = [call EXCEPT ![c].pc = "done", ![c].result = res]

-----------------------------------------------------------------------------
\* The exported functions.

\* spicedb_rpc checks the method name before it looks at the handle.
spicedb_rpc(c, h, req) ==
    /\ call[c].pc = "idle"
    /\ \/ /\ ~req.known
          /\ call' = [call EXCEPT ![c].pc = "done", ![c].h = h, ![c].req = req,
                                  ![c].result = "unsupported"]
       \/ /\ req.known
          /\ call' = [call EXCEPT ![c].pc = "lookup", ![c].h = h, ![c].req = req]
    /\ UNCHANGED instVars

\* The per-method exports, spicedb_permissions_* and spicedb_schema_*, have a
\* fixed method and go straight to runRPC.
MethodExport(c, h, req) ==
    /\ call[c].pc = "idle"
    /\ req.known
    /\ call' = [call EXCEPT ![c].pc = "lookup", ![c].h = h, ![c].req = req]
    /\ UNCHANGED instVars

\* runRPC up to the invocation: the lookup under instanceMu.RLock, the check of
\* the connection, and the decoding of the request.
runRPC(c) ==
    LET o == instances[call[c].h] IN
    /\ call[c].pc = "lookup"
    /\ \/ /\ o = NoInstance
          /\ Finish(c, "invalid")
       \/ /\ o # NoInstance
          /\ inst[o].clientConn = "none" \/ ~call[c].req.parses
          /\ Finish(c, "failed")
       \/ /\ o # NoInstance
          /\ inst[o].clientConn # "none"
          /\ call[c].req.parses
          /\ call' = [call EXCEPT ![c].pc = "invoke", ![c].obj = o]
    /\ UNCHANGED instVars

\* Mutant of InvokeReturns: the error of Invoke is ignored.
InvokeReturnsOk(c) ==
    /\ call[c].pc = "invoke"
    /\ call[c].work \in {"replied", "aborted"}
    /\ Finish(c, "ok")
    /\ UNCHANGED instVars

\* conn.Invoke returns the handler's answer; a connection that closes at the
\* same time may still deliver it.
InvokeReturns(c) ==
    /\ call[c].pc = "invoke"
    /\ call[c].work \in {"replied", "aborted"}
    /\ Finish(c, IF call[c].work = "replied" THEN "ok" ELSE "failed")
    /\ UNCHANGED instVars

\* conn.Invoke fails: the connection was closed, or the server behind it no
\* longer takes requests.  A handler that is at work is not waited for.
InvokeFails(c) ==
    LET o == call[c].obj IN
    /\ call[c].pc = "invoke"
    /\ \/ inst[o].clientConn = "closed"
       \/ call[c].work = "none" /\ (inst[o].ctx = "cancelled" \/ inst[o].server = "exited")
    /\ Finish(c, "failed")
    /\ UNCHANGED instVars

\* Mutant of InvokeTimesOut: a context without a deadline.
InvokeTimesOutNever(c) == FALSE /\ UNCHANGED <<call, instVars>>

\* context.WithTimeout(parent, 30*time.Second) expires.
InvokeTimesOut(c) ==
    /\ call[c].pc = "invoke"
    /\ Finish(c, "failed")
    /\ UNCHANGED instVars

-----------------------------------------------------------------------------
\* SpiceDB's side of the in-memory connection (external).

BackendAccepts(c) ==
    LET o == call[c].obj IN
    /\ call[c].pc = "invoke"
    /\ call[c].work = "none"
    /\ inst[o].clientConn = "open"
    /\ inst[o].server = "running"
    /\ inst[o].ctx = "open"
    /\ call' = [call EXCEPT ![c].work = "handling"]
    /\ UNCHANGED instVars

\* The handler commits and answers, whether or not anyone still waits.
BackendApplies(c) ==
    /\ call[c].work = "handling"
    /\ call' = [call EXCEPT ![c].work = "replied", ![c].effect = "applied"]
    /\ UNCHANGED instVars

\* The handler gives up without an effect: it refuses the request, or it
\* notices that the caller is gone.
BackendAborts(c) ==
    /\ call[c].work = "handling"
    /\ call' = [call EXCEPT ![c].work = "aborted"]
    /\ UNCHANGED instVars

-----------------------------------------------------------------------------
RpcStep(c) == runRPC(c) \/ InvokeReturns(c) \/ InvokeFails(c) \/ InvokeTimesOut(c)

BackendStep(c) == BackendAccepts(c) \/ BackendApplies(c) \/ BackendAborts(c)

HostRpc(c) ==
    \E h \in Handle, req \in Request : spicedb_rpc(c, h, req) \/ MethodExport(c, h, req)

=============================================================================
