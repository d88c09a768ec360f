------------------------------ MODULE Loading -------------------------------
(***************************************************************************)
(* How the bindings for Python, Node and Java load the C library on the    *)
(* first call, keep it, and call its functions: several threads that load  *)
(* at once, loads that fail, a library that predates spicedb_rpc, and the  *)
(* garbage collector, which unloads a library that nobody refers to.       *)
(*                                                                         *)
(* A loaded library is an object with the set of its functions that have   *)
(* their types declared; the objects of one process share one mapping of   *)
(* the library, and with it the instances that live in it.                 *)
(***************************************************************************)
EXTENDS Naturals, Sequences

CONSTANTS
    Threads,
    Lang,            \* the binding: "python", "node" or "java"
    ManyThreads,     \* the bindings that are called from all threads, not just one
    MaxObjects,      \* bounds the loads
    MaxCalls         \* bounds the calls

ASSUME LoadingAssumption ==
    /\ Lang \subseteq {"python", "node", "java"}
    /\ ManyThreads \subseteq {"python", "java"}   \* JavaScript has one thread
    /\ MaxObjects \in Nat \ {0} /\ MaxCalls \in Nat

VARIABLES
    lang,
    hasRpc,      \* whether the library has spicedb_rpc
    cached,      \* _lib, lib or Holder.INSTANCE
    typed,       \* the objects made, each with the functions declared
    heapStr,     \* Node: the object whose spicedb_free HeapStr uses
    holder,      \* Java: the state of the class Holder
    epoch,       \* how often the library was mapped
    mapped,      \* whether it is
    gone,        \* the objects that were collected
    instances,   \* the running instances: the call and the epoch they were started in
    thread,      \* what each thread does
    calls        \* counter

objVars == <<cached, typed, heapStr, holder, epoch, mapped, gone>>
loadingVars == <<lang, hasRpc, objVars, instances, thread, calls>>

NoObject == 0
Functions == {"start", "dispose", "free", "free_bytes", "rpc"}

\* The functions a call uses, in order; a request frees a response or an error.
Uses == [start |-> {<<"start", "free">>},
         rpc |-> {<<"rpc", "free_bytes">>, <<"rpc", "free">>},
         dispose |-> {<<"dispose", "free">>}]

\* ctypes passes and returns int for a function without types: that is wrong
\* for the string start and dispose return, and for the bare addresses a
\* request frees, and does no harm to the others.
NeedsTypes(api, f) == f \in {"start", "dispose"} \/ (api = "rpc" /\ f # "rpc")

Idle == [pc |-> "idle"]

LoadingInit ==
    /\ lang \in Lang /\ hasRpc \in BOOLEAN
    /\ cached = NoObject /\ typed = <<>> /\ heapStr = NoObject /\ holder = "new"
    /\ epoch = 0 /\ mapped = FALSE /\ gone = {} /\ instances = {}
    /\ thread = [t \in Threads |-> Idle] /\ calls = 0

-----------------------------------------------------------------------------
Goto(t, pc) == thread' = [thread EXCEPT ![t] = [@ EXCEPT !.pc = pc]]
Raise(t) == thread' = [thread EXCEPT ![t] = Idle]
Holds(t, obj) == thread' = [thread EXCEPT ![t] = [@ EXCEPT !.pc = "use", !.obj = obj]]
Rest == UNCHANGED <<lang, hasRpc, instances, calls>>

\* A new object; the library is mapped unless it is already.
NewObject(declared) ==
    /\ Len(typed) < MaxObjects
    /\ typed' = Append(typed, declared)
    /\ mapped' = TRUE
    /\ epoch' = IF mapped THEN epoch ELSE epoch + 1
    /\ UNCHANGED gone

\* A binding is called, and asks for the library.
Call(t, api) ==
    /\ thread[t] = Idle /\ calls < MaxCalls
    /\ lang \in ManyThreads \/ \A u \in Threads : thread[u] = Idle
    /\ api # "start" => instances # {}
    /\ calls' = calls + 1
    /\ \E fs \in Uses[api] :
          thread' = [thread EXCEPT ![t] = [pc |-> "get", call |-> calls, api |-> api, todo |-> fs,
                                           obj |-> NoObject, left |-> <<>>]]
    /\ UNCHANGED <<lang, hasRpc, objVars, instances>>

\* The library is not found or cannot be loaded.
LoadFails(t) ==
    /\ \/ thread[t].pc = "load"
       \/ lang = "node" /\ thread[t].pc = "get" /\ cached = NoObject
    /\ Raise(t) /\ Rest
    /\ holder' = IF lang = "java" THEN "erroneous" ELSE holder
    /\ UNCHANGED <<cached, typed, heapStr, epoch, mapped, gone>>

-----------------------------------------------------------------------------
\* Python: _get_lib

PythonGet(t) ==
    /\ lang = "python" /\ thread[t].pc = "get"
    /\ IF cached = NoObject THEN Goto(t, "load") ELSE Holds(t, cached)
    /\ Rest /\ UNCHANGED objVars

\* Mutant of DeclareOrder: the newest function comes first.
RpcDeclaredFirst == <<"rpc", "start", "dispose", "free", "free_bytes">>

DeclareOrder == <<"start", "dispose", "free", "free_bytes", "rpc">>

\* _lib is assigned before any type is declared.
PythonLoad(t) ==
    /\ lang = "python" /\ thread[t].pc = "load"
    /\ NewObject({}) /\ cached' = Len(typed')
    /\ thread' = [thread EXCEPT ![t] = [@ EXCEPT !.pc = "declare", !.left = DeclareOrder]]
    /\ Rest /\ UNCHANGED <<heapStr, holder>>

\* One declaration after the other, for the object that _lib is by then; the
\* attribute of a function the library does not have raises an error.
PythonDeclare(t) ==
    /\ thread[t].pc = "declare" /\ thread[t].left # <<>>
    /\ LET f == Head(thread[t].left) IN
       IF f = "rpc" /\ ~hasRpc THEN Raise(t) /\ UNCHANGED typed
       ELSE /\ typed' = [typed EXCEPT ![cached] = @ \cup {f}]
            /\ thread' = [thread EXCEPT ![t].left = Tail(@)]
    /\ Rest /\ UNCHANGED <<cached, heapStr, holder, epoch, mapped, gone>>

PythonReturn(t) ==
    /\ thread[t].pc = "declare" /\ thread[t].left = <<>>
    /\ Holds(t, cached)
    /\ Rest /\ UNCHANGED objVars

-----------------------------------------------------------------------------
\* Node: getLib, which no other JavaScript can interrupt.  HeapStr is
\* registered once and keeps the object it was registered with.

NodeGet(t) ==
    /\ lang = "node" /\ thread[t].pc = "get" /\ cached # NoObject
    /\ Holds(t, cached)
    /\ Rest /\ UNCHANGED objVars

NodeLoad(t) ==
    /\ lang = "node" /\ thread[t].pc = "get" /\ cached = NoObject
    /\ NewObject(IF hasRpc THEN Functions ELSE Functions \ {"rpc"})
    /\ heapStr' = IF heapStr = NoObject THEN Len(typed') ELSE heapStr
    /\ IF hasRpc THEN cached' = Len(typed') /\ Holds(t, Len(typed'))
       ELSE UNCHANGED cached /\ Raise(t)
    /\ Rest /\ UNCHANGED holder

-----------------------------------------------------------------------------
\* Java: SpiceDB.load.  One thread initialises Holder, the others wait for
\* it; when that fails every later use of the class does.

JavaGet(t) ==
    /\ lang = "java" /\ thread[t].pc = "get" /\ holder # "busy"
    /\ CASE holder = "new" -> Goto(t, "load") /\ holder' = "busy"
         [] holder = "ready" -> Holds(t, cached) /\ UNCHANGED holder
         [] holder = "erroneous" -> Raise(t) /\ UNCHANGED holder
    /\ Rest /\ UNCHANGED <<cached, typed, heapStr, epoch, mapped, gone>>

\* Mutant of JavaLoad: the library is loaded anew for every call, and only
\* the call refers to it.
JavaLoadEach(t) ==
    /\ lang = "java" /\ thread[t].pc = "load"
    /\ NewObject(Functions)
    /\ holder' = "new" /\ Holds(t, Len(typed'))
    /\ Rest /\ UNCHANGED <<cached, heapStr>>

\* The interface declares every type; a function is looked up when called.
JavaLoad(t) ==
    /\ lang = "java" /\ thread[t].pc = "load"
    /\ NewObject(Functions)
    /\ cached' = Len(typed') /\ holder' = "ready" /\ Holds(t, Len(typed'))
    /\ Rest /\ UNCHANGED heapStr

-----------------------------------------------------------------------------
\* The next function of a call.
Use(t) ==
    /\ thread[t].pc = "use" /\ thread[t].todo # <<>>
    /\ LET f == Head(thread[t].todo) IN
       /\ IF f = "rpc" /\ ~hasRpc THEN Raise(t)
          ELSE thread' = [thread EXCEPT ![t].todo = Tail(@)]
       /\ CASE f = "start" -> instances' = instances \cup {<<thread[t].call, epoch>>}
            [] f = "dispose" /\ instances # {} -> \E i \in instances : instances' = instances \ {i}
            [] OTHER -> UNCHANGED instances
    /\ UNCHANGED <<lang, hasRpc, objVars, calls>>

Return(t) ==
    /\ thread[t].pc = "use" /\ thread[t].todo = <<>>
    /\ Raise(t) /\ Rest /\ UNCHANGED objVars

\* The garbage collector: with the last of its objects, JNA and koffi unload
\* the library; ctypes never does.
Referred(o) == o \in {cached, heapStr} \/ \E t \in Threads : thread[t] # Idle /\ thread[t].obj = o
Collect(o) ==
    /\ lang # "python" /\ o \notin gone /\ ~Referred(o)
    /\ gone' = gone \cup {o}
    /\ mapped' = (gone' # 1 .. Len(typed))
    /\ Rest /\ UNCHANGED <<cached, typed, heapStr, holder, epoch, thread>>

ThreadStep(t) ==
    \/ LoadFails(t) \/ PythonGet(t) \/ PythonLoad(t) \/ PythonDeclare(t) \/ PythonReturn(t)
    \/ NodeGet(t) \/ NodeLoad(t) \/ JavaGet(t) \/ JavaLoad(t) \/ Use(t) \/ Return(t)

LoadingNext ==
    \/ \E t \in Threads : ThreadStep(t) \/ \E api \in {"start", "rpc", "dispose"} : Call(t, api)
    \/ \E o \in 1 .. Len(typed) : Collect(o)

LoadingSpec == LoadingInit /\ [][LoadingNext]_loadingVars

-----------------------------------------------------------------------------
\* Properties

\* A function that relies on its declared types is never called before they
\* are declared: not by a thread that finds the library just loaded by
\* another, nor after a load that failed half way.
CallsAreTyped ==
    \A t \in Threads : thread[t].pc = "use" /\ thread[t].todo # <<>> =>
        LET f == Head(thread[t].todo)
        IN  NeedsTypes(thread[t].api, f) => f \in typed[thread[t].obj]

\* The library stays mapped while an instance runs in it, whatever the
\* collector does: it is not unloaded and mapped anew with other instances.
InstancesSurvive == \A i \in instances : mapped /\ i[2] = epoch
=============================================================================
