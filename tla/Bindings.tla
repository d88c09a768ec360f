------------------------------ MODULE Bindings ------------------------------
(***************************************************************************)
(* The embedded objects of the five language bindings: how each starts and *)
(* bootstraps an instance of the C library, sends unary requests to it,    *)
(* recovers from a failed start, closes, and gives the library's buffers   *)
(* back.                                                                   *)
(*                                                                         *)
(* The bindings do the same few things in different orders, so a method is *)
(* a program, a sequence of the steps below, and the threads of the host   *)
(* run programs step by step.  An FFI step leaves the thread with an       *)
(* answer and a buffer of the library's allocator; "free" gives the buffer *)
(* back; "raise" leaves the method with an exception if the answer was an  *)
(* error.                                                                  *)
(***************************************************************************)
EXTENDS Sequences

CONSTANTS
    Thread,    \* host threads
    Db,        \* variables of the host that hold an embedded object
    Language   \* the bindings looked at

ASSUME BindingsAssumption == Language \subseteq {"rust", "node", "python", "java", "csharp"}

VARIABLES
    lang,    \* the language of each object
    db,      \* the objects, and the instances behind them
    frame,   \* what each thread is executing
    leaked   \* buffers of the library nobody can free any more

vars == <<lang, db, frame, leaked>>

Wanted == [schema : BOOLEAN, rels : BOOLEAN]

\* stage: new, starting, failed, ready or dropped; handle: of the instance it
\* owns in the library, none, open, closing or closed; channel: none, open or
\* closed; flag: _closed / _disposed; written: the bootstrap writes SpiceDB has
\* taken; closes: the closes that have ended, by how they ended; unhandled: the
\* step of a failed start whose exception met no handler of the binding, none,
\* answer, channel or request.
NewObject(stage, w) ==
    [stage |-> stage, want |-> w, handle |-> "none", channel |-> "none",
     flag |-> "clear", written |-> {}, closes |-> {}, unhandled |-> "none"]

\* answer: of the last step that can fail; "wait" is a dispose under way,
\* "rejected" a success that the binding cannot read.
\* buf: none, json, error or response.
Idle == [op |-> "none", obj |-> "none", todo |-> <<>>, answer |-> "ok", buf |-> "none"]

Init ==
    /\ lang \in [Db -> Language]
    /\ db = [d \in Db |-> NewObject("new", [schema |-> FALSE, rels |-> FALSE])]
    /\ frame = [t \in Thread |-> Idle]
    /\ leaked = [d \in Db |-> {}]

-----------------------------------------------------------------------------
\* Unary requests: each binding's single wrapper of spicedb_rpc.

RustCall(m) == <<m, "free", "raise">>
NodeCall(m) == <<m, "raise", "free">>
\* Mutants: the error is freed and not raised (Python); the exception leaves
\* before the free (Java).
PythonCallSwallows(m) == <<m, "free">>
JavaCallForgets(m) == <<m, "raise", "free">>

PythonCall(m) == <<m, "free", "raise">>
JavaCall(m) == <<m, "free", "raise">>
CSharpCall(m) == <<m, "free", "raise">>

CallOf(l, m) ==
    CASE l = "rust" -> RustCall(m)
      [] l = "node" -> NodeCall(m)
      [] l = "python" -> PythonCall(m)
      [] l = "java" -> JavaCall(m)
      [] l = "csharp" -> CSharpCall(m)

\* The methods spicedb_rpc knows ...
rpcMessages ==
    {"CheckPermission", "CheckBulkPermissions", "WriteRelationships",
     "DeleteRelationships", "ExpandPermissionTree", "ReadSchema", "WriteSchema"}

\* ... and those the clients of each binding send.
PermissionMethods ==
    {"CheckPermission", "CheckBulkPermissions", "WriteRelationships",
     "DeleteRelationships", "ExpandPermissionTree"}
SchemaMethods == {"ReadSchema", "WriteSchema"}

RustClients == PermissionMethods \cup SchemaMethods
NodePermissions == PermissionMethods
NodeSchema == SchemaMethods
PythonStubs == PermissionMethods \cup SchemaMethods
JavaPermissionsStub == PermissionMethods
JavaSchemaStub == SchemaMethods
CSharpClients == PermissionMethods \cup SchemaMethods

MethodsOf(l) ==
    CASE l = "rust" -> RustClients
      [] l = "node" -> NodePermissions \cup NodeSchema
      [] l = "python" -> PythonStubs
      [] l = "java" -> JavaPermissionsStub \cup JavaSchemaStub
      [] l = "csharp" -> CSharpClients

-----------------------------------------------------------------------------
\* Start, with the bootstrap w asks for.  The wrappers of the C function
\* itself are apart from the methods that use them.

RustFfiStart == <<"spicedb_start", "free">>
NodeFfiStart == <<"spicedb_start", "free", "raise">>
PythonFfiStart == <<"spicedb_start", "free", "raise">>
CSharpFfiStart == <<"spicedb_start", "free", "raise">>

\* Rust looks at the two arguments separately; there is no channel.
RustStart == RustFfiStart \o <<"raise">>
RustBootstrap(w) ==
    (IF w.schema THEN RustCall("WriteSchema") ELSE <<>>)
    \o (IF w.rels THEN RustCall("WriteRelationships") ELSE <<>>)

\* The others ignore relationships without a schema.  Only Java and C# have a
\* handler for a channel that cannot be built.
SchemaThenRelationships(w, schema, rels) ==
    IF w.schema THEN schema \o (IF w.rels THEN rels ELSE <<>>) ELSE <<>>

NodeStart == NodeFfiStart \o <<"openChannel">>
NodeBootstrap(w) ==
    SchemaThenRelationships(w, NodeCall("WriteSchema"), NodeCall("WriteRelationships"))

PythonStart == PythonFfiStart \o <<"openChannel">>
PythonBootstrap(w) ==
    SchemaThenRelationships(w, PythonCall("WriteSchema"), PythonCall("WriteRelationships"))

JavaStart == <<"spicedb_start", "free", "raise", "tryChannel", "raise">>
JavaBootstrap(w) ==
    SchemaThenRelationships(w, JavaCall("WriteSchema"), JavaCall("WriteRelationships"))

CSharpStart == CSharpFfiStart \o <<"tryChannel", "raise">>
CSharpBootstrap(w) ==
    SchemaThenRelationships(w, CSharpCall("WriteSchema"), CSharpCall("WriteRelationships"))

StartOf(l, w) ==
    CASE l = "rust" -> RustStart \o RustBootstrap(w)
      [] l = "node" -> NodeStart \o NodeBootstrap(w)
      [] l = "python" -> PythonStart \o PythonBootstrap(w)
      [] l = "java" -> JavaStart \o JavaBootstrap(w)
      [] l = "csharp" -> CSharpStart \o CSharpBootstrap(w)

-----------------------------------------------------------------------------
\* Close.

RustFfiDispose == <<"spicedb_dispose", "free">>
NodeFfiDispose == <<"spicedb_dispose", "free", "raise">>
PythonFfiDispose == <<"spicedb_dispose", "free", "raise">>
CSharpFfiDispose == <<"spicedb_dispose", "free", "raise">>

\* Mutants: the channel is left open (Python); the flag is set on entry (C#).
PythonCloseKeepsChannel == PythonFfiDispose
CSharpDisposeFlagsFirst ==
    <<"checkFlag", "setFlag">> \o CSharpFfiDispose \o <<"closeChannel">>

RustDrop == RustFfiDispose
NodeClose == <<"checkFlag", "setFlag", "closeChannel">> \o NodeFfiDispose
PythonClose == PythonFfiDispose \o <<"closeChannel">>
JavaClose == <<"spicedb_dispose", "free", "closeChannel">>
CSharpDispose == <<"checkFlag">> \o CSharpFfiDispose \o <<"closeChannel", "setFlag">>

CloseOf(l) ==
    CASE l = "rust" -> RustDrop
      [] l = "node" -> NodeClose
      [] l = "python" -> PythonClose
      [] l = "java" -> JavaClose
      [] l = "csharp" -> CSharpDispose

\* What a start runs in its handler before the host sees the exception.  The
\* bootstrap is guarded in every binding; a channel that cannot be built is,
\* in Java and C#, by a dispose of its own.
RustRescue(o) == IF o.handle = "open" THEN RustDrop ELSE <<>>
NodeRescue(o) == IF o.channel = "open" THEN NodeClose ELSE <<>>
PythonRescue(o) == IF o.channel = "open" THEN PythonClose ELSE <<>>
\* Mutant of JavaRescue: a channel that cannot be built is not guarded.
JavaRescueUnguarded(o) == IF o.channel = "open" THEN JavaClose ELSE <<>>

JavaRescue(o) ==
    IF o.channel = "open" THEN JavaClose
    ELSE IF o.handle = "open" THEN <<"spicedb_dispose", "free">> ELSE <<>>
CSharpRescue(o) ==
    IF o.channel = "open" THEN CSharpDispose
    ELSE IF o.handle = "open" THEN <<"spicedb_dispose", "free">> ELSE <<>>

RescueOf(l, o) ==
    CASE l = "rust" -> RustRescue(o)
      [] l = "node" -> NodeRescue(o)
      [] l = "python" -> PythonRescue(o)
      [] l = "java" -> JavaRescue(o)
      [] l = "csharp" -> CSharpRescue(o)

-----------------------------------------------------------------------------
\* The host calls a method.

Idles(t) == frame[t].op = "none"

\* JavaScript runs one method at a time, and none of these yields.
MayEnter(d) == lang[d] = "node" => \A t \in Thread : frame[t].obj # d

Enter(t, d, op, program) ==
    frame' = [frame EXCEPT ![t] = [op |-> op, obj |-> d, todo |-> program,
                                   answer |-> "ok", buf |-> "none"]]

\* After a failed start the host tries again.
CallStart(t, d, w) ==
    /\ Idles(t)
    /\ db[d].stage \in {"new", "failed"}
    /\ db' = [db EXCEPT ![d] = NewObject("starting", w)]
    /\ Enter(t, d, "start", StartOf(lang[d], w))
    /\ UNCHANGED <<lang, leaked>>

\* The clients copy the handle: they can be used after the object is closed.
CallMethod(t, d, m) ==
    /\ Idles(t)
    /\ db[d].stage \in {"ready", "dropped"}
    /\ MayEnter(d)
    /\ m \in MethodsOf(lang[d])
    /\ Enter(t, d, "call", CallOf(lang[d], m))
    /\ UNCHANGED <<lang, db, leaked>>

\* Rust drops an object once; the others can be closed by anyone, repeatedly.
CallClose(t, d) ==
    /\ Idles(t)
    /\ db[d].stage = "ready"
    /\ MayEnter(d)
    /\ db' = [db EXCEPT ![d].stage = IF lang[d] = "rust" THEN "dropped" ELSE @]
    /\ Enter(t, d, "close", CloseOf(lang[d]))
    /\ UNCHANGED <<lang, leaked>>

-----------------------------------------------------------------------------
\* The steps of a program.

Next1(t) == frame[t].todo # <<>> /\ frame[t].answer # "wait"
Step(t, s) == Next1(t) /\ Head(frame[t].todo) = s

Advance(t, answer, buf) ==
    frame' = [frame EXCEPT ![t].todo = Tail(@), ![t].answer = answer, ![t].buf = buf]
Continue(t) == Advance(t, frame[t].answer, frame[t].buf)

\* A buffer the thread still holds when it forgets its pointer is lost.
Lose(t) ==
    leaked' = [leaked EXCEPT ![frame[t].obj] = @ \cup ({frame[t].buf} \ {"none"})]

Leave(t, result) ==
    LET d == frame[t].obj IN
    /\ frame' = [frame EXCEPT ![t] = Idle]
    /\ Lose(t)
    /\ db' = CASE frame[t].op = "start" -> [db EXCEPT ![d].stage = "ready"]
               [] frame[t].op = "rescue" -> [db EXCEPT ![d].stage = "failed"]
               [] frame[t].op = "close" -> [db EXCEPT ![d].closes = @ \cup {result}]
               [] OTHER -> db
    /\ UNCHANGED lang

\* The exception of a start passes no handler: nothing is cleaned up.
Unhandled(t, at) ==
    LET d == frame[t].obj IN
    /\ frame[t].op = "start"
    /\ db' = [db EXCEPT ![d].unhandled = at]
    /\ Enter(t, d, "rescue", <<>>)
    /\ Lose(t)
    /\ UNCHANGED lang

\* A library of another version may answer in a form that the binding rejects.
SpicedbStart(t) ==
    /\ Step(t, "spicedb_start")
    /\ \/ /\ db' = [db EXCEPT ![frame[t].obj].handle = "open"]
          /\ \E a \in {"ok", "rejected"} : Advance(t, a, "json")
       \/ /\ Advance(t, "error", "json")
          /\ UNCHANGED db
    /\ UNCHANGED <<lang, leaked>>

\* A request on an open handle is answered, or fails with or without having
\* had its effect; on any other handle, or by an unknown name, it is refused.
\* A library that lacks the function makes JNA throw an Error, which is no
\* Exception and no handler in Java catches.
SpicedbRpc(t) ==
    LET d == frame[t].obj
        m == Head(frame[t].todo)
        takes(x) == IF x \in {"WriteSchema", "WriteRelationships"} THEN {x} ELSE {} IN
    /\ Next1(t)
    /\ m \in PermissionMethods \cup SchemaMethods
    /\ \/ /\ db[d].handle = "open" /\ m \in rpcMessages
          /\ db' = [db EXCEPT ![d].written = @ \cup takes(m)]
          /\ \E a \in {"ok", "error"} :
                 Advance(t, a, IF a = "ok" THEN "response" ELSE "error")
          /\ UNCHANGED <<lang, leaked>>
       \/ /\ Advance(t, "error", "error")
          /\ UNCHANGED <<lang, db, leaked>>
       \/ /\ lang[d] = "java"
          /\ Unhandled(t, "request") \/ (frame[t].op # "start" /\ Leave(t, "error"))

\* The handle is taken out of the table at once; the call returns when the
\* instance is gone.  A second dispose of the handle is refused at once.
SpicedbDispose(t) ==
    LET d == frame[t].obj IN
    /\ Step(t, "spicedb_dispose")
    /\ \/ /\ db[d].handle = "open"
          /\ db' = [db EXCEPT ![d].handle = "closing"]
          /\ Advance(t, "wait", "none")
       \/ /\ db[d].handle # "open"
          /\ Advance(t, "error", "json")
          /\ UNCHANGED db
    /\ UNCHANGED <<lang, leaked>>

SpicedbDisposeReturns(t) ==
    /\ frame[t].answer = "wait"
    /\ db' = [db EXCEPT ![frame[t].obj].handle = "closed"]
    /\ frame' = [frame EXCEPT ![t].answer = "ok", ![t].buf = "json"]
    /\ UNCHANGED <<lang, leaked>>

Free(t) ==
    /\ Step(t, "free")
    /\ Advance(t, frame[t].answer, "none")
    /\ UNCHANGED <<lang, db, leaked>>

\* Of an exception: a start cleans up first, if the code that raised it has a
\* handler, any other method ends with it.
Raise(t) ==
    LET d == frame[t].obj IN
    /\ Step(t, "raise")
    /\ \/ /\ frame[t].answer = "ok"
          /\ Continue(t)
          /\ UNCHANGED <<lang, db, leaked>>
       \/ frame[t].answer = "rejected" /\ Unhandled(t, "answer")
       \/ /\ frame[t].answer = "error" /\ frame[t].op = "start"
          /\ Lose(t)
          /\ Enter(t, d, "rescue", RescueOf(lang[d], db[d]))
          /\ UNCHANGED <<lang, db>>
       \/ /\ frame[t].answer = "error" /\ frame[t].op # "start"
          /\ Leave(t, "error")

\* A channel that cannot be built: Node and Python have no handler, Java none for
\* an Error (its transport is native), C# none for the HTTP handler and client.
OpenChannel(t) ==
    /\ Step(t, "openChannel") \/ Step(t, "tryChannel")
    /\ \/ /\ db' = [db EXCEPT ![frame[t].obj].channel = "open"]
          /\ Advance(t, "ok", "none")
          /\ UNCHANGED <<lang, leaked>>
       \/ /\ Step(t, "tryChannel")
          /\ Advance(t, "error", "none")
          /\ UNCHANGED <<lang, db, leaked>>
       \/ Unhandled(t, "channel")

CloseChannel(t) ==
    /\ Step(t, "closeChannel")
    /\ db' = [db EXCEPT ![frame[t].obj].channel = "closed"]
    /\ Continue(t)
    /\ UNCHANGED <<lang, leaked>>

CheckFlag(t) ==
    /\ Step(t, "checkFlag")
    /\ \/ db[frame[t].obj].flag = "set" /\ Leave(t, "ok")
       \/ /\ db[frame[t].obj].flag = "clear"
          /\ Continue(t)
          /\ UNCHANGED <<lang, db, leaked>>

SetFlag(t) ==
    /\ Step(t, "setFlag")
    /\ db' = [db EXCEPT ![frame[t].obj].flag = "set"]
    /\ Continue(t)
    /\ UNCHANGED <<lang, leaked>>

Return(t) ==
    /\ ~Idles(t)
    /\ frame[t].todo = <<>> /\ frame[t].answer # "wait"
    /\ Leave(t, "ok")

-----------------------------------------------------------------------------
HostCall(t) ==
    \/ \E d \in Db, w \in Wanted : CallStart(t, d, w)
    \/ \E d \in Db, m \in rpcMessages : CallMethod(t, d, m)
    \/ \E d \in Db : CallClose(t, d)

ProgramStep(t) ==
    \/ SpicedbStart(t)
    \/ SpicedbRpc(t)
    \/ SpicedbDispose(t)
    \/ SpicedbDisposeReturns(t)
    \/ Free(t)
    \/ Raise(t)
    \/ OpenChannel(t)
    \/ CloseChannel(t)
    \/ CheckFlag(t)
    \/ SetFlag(t)
    \/ Return(t)

Next == \E t \in Thread : HostCall(t) \/ ProgramStep(t)

Spec == Init /\ [][Next]_vars

-----------------------------------------------------------------------------
\* Properties.

Unused(d) == \A t \in Thread : frame[t].obj # d

\* A start that raised leaves no instance running and no channel open where it
\* has a handler: the host has no object to close (spicedb.rs 172-201 and
\* 256-260, embedded.ts 132-137, embedded.py 113-117, EmbeddedSpiceDB.java 99-101
\* and 138-143, EmbeddedSpiceDb.cs 84-88 and 110-113).  What it leaves where it
\* has none is the instance, without a channel if the answer of spicedb_start
\* cannot be read (spicedb.rs 134-151, ffi.ts 248, ffi.py 206, EmbeddedSpiceDB.java
\* 129-132, SpiceDbFfi.cs 124-129) or the channel not be built (embedded.ts
\* 122-128, embedded.py 126-130, EmbeddedSpiceDB.java 138, EmbeddedSpiceDb.cs
\* 97-103), and with its channel after an Error in Java's bootstrap (99).
FailedStartCleansUp ==
    \A d \in Db : db[d].stage = "failed" =>
        CASE db[d].unhandled = "none" ->
                 db[d].handle \in {"none", "closed"} /\ db[d].channel # "open"
          [] db[d].unhandled = "answer" ->
                 db[d].handle = "open" /\ db[d].channel = "none"
          [] db[d].unhandled = "channel" ->
                 db[d].handle = "open" /\ db[d].channel = "none" /\ lang[d] # "rust"
          [] db[d].unhandled = "request" ->
                 db[d].handle = "open" /\ db[d].channel = "open" /\ lang[d] = "java"

\* An object the host was given has the schema and the relationships it asked
\* for, and no start writes relationships after its schema was refused
\* (spicedb.rs 174-203, embedded.ts 155-178, embedded.py 132-147,
\* EmbeddedSpiceDB.java 80-98, EmbeddedSpiceDb.cs 134-149).
StartedIsBootstrapped ==
    \A d \in Db : db[d].want.schema =>
        /\ db[d].stage \in {"ready", "dropped"} =>
               /\ "WriteSchema" \in db[d].written
               /\ db[d].want.rels => "WriteRelationships" \in db[d].written
        /\ "WriteRelationships" \in db[d].written => "WriteSchema" \in db[d].written

\* A close that returned without an exception has done its work, also when
\* several threads close the object at once: the instance is gone, not just on
\* its way out, and the channel is closed.  Java is the exception: it ignores
\* the answer of dispose (embedded.ts 477-482, embedded.py 173-176,
\* EmbeddedSpiceDb.cs 46-52, spicedb.rs 256-260).
ReportedCloseIsDone ==
    \A d \in Db : lang[d] # "java" /\ "ok" \in db[d].closes =>
        db[d].handle = "closed" /\ db[d].channel # "open"

\* Once everybody has left an object that somebody closed, nothing of it is
\* left in any language, however many closes raced and whichever of them failed
\* (EmbeddedSpiceDB.java 197-204, and the closes above).
CloseReleasesAll ==
    \A d \in Db : Unused(d) /\ db[d].closes # {} =>
        db[d].handle = "closed" /\ db[d].channel # "open"

\* Every buffer the library hands out is given back to it (main.go 8-10: "all
\* C-visible allocations are caller-owned and must be freed").
BuffersFreed == \A d \in Db : leaked[d] = {}

\* All bindings but Node free every buffer, on success and on every error path,
\* and Node loses no more than the error string of a request that failed
\* (memory.rs 112-130, ffi.ts 296-302, ffi.py 166-178, SpiceDBFfi.java 35-50,
\* SpiceDbFfi.cs 51-71).
OnlyNodeErrorsLost ==
    \A d \in Db : leaked[d] \subseteq IF lang[d] = "node" THEN {"error"} ELSE {}

=============================================================================
