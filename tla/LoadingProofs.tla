---------------------------- MODULE LoadingProofs ----------------------------
(***************************************************************************)
(* What a process keeps of the library it has loaded: proofs that the      *)
(* library is never unloaded under a running instance, and that a binding  *)
(* calls no function before its types are declared.  The second needs the  *)
(* host to call the Python binding from one thread only: from several      *)
(* threads it is false.                                                    *)
(***************************************************************************)
EXTENDS Loading, TLAPS

Apis == {"start", "rpc", "dispose"}
Busy == [pc : {"get", "load", "declare", "use"}, call : Nat, api : Apis,
         todo : Seq(Functions), obj : Nat, left : Seq(Functions)]

LoadTypeOK ==
    /\ hasRpc \in BOOLEAN /\ epoch \in Nat /\ mapped \in BOOLEAN /\ calls \in Nat
    /\ holder \in {"new", "busy", "ready", "erroneous"}
    /\ typed \in Seq(SUBSET Functions) /\ cached \in 0 .. Len(typed)
    /\ gone \subseteq 1 .. Len(typed)
    /\ DOMAIN thread = Threads
    /\ \A t \in Threads : thread[t] # Idle => thread[t] \in Busy

\* The library is mapped as long as one of its objects is left; the object a
\* binding keeps is, and an instance was started through such an object.
KeptInv ==
    /\ mapped = (gone # 1 .. Len(typed))
    /\ cached # NoObject => cached \notin gone
    /\ \A t \in Threads : thread[t].pc \in {"use", "declare"} => cached # NoObject
    /\ holder = "ready" => cached # NoObject
    /\ \A i \in instances : cached # NoObject /\ i[2] = epoch

MapInv == LoadTypeOK /\ KeptInv

\* All that relies on its types has them; spicedb_rpc itself does not.
Declared(o) == o \in 1 .. Len(typed) /\ Functions \ {"rpc"} \subseteq typed[o]

\* How far _get_lib is: the last of DeclareOrder are left.
Declaring(t) ==
    /\ Len(thread[t].left) \in 0 .. 5
    /\ \A i \in 1 .. Len(thread[t].left) : thread[t].left[i] = DeclareOrder[5 - Len(thread[t].left) + i]
    /\ cached # NoObject
    /\ \A i \in 1 .. 5 - Len(thread[t].left) : DeclareOrder[i] \in typed[cached]

AloneInPython == lang = "python" => \A t, u \in Threads : thread[t] # Idle /\ thread[u] # Idle => t = u

TypesInv ==
    /\ AloneInPython
    /\ \A t \in Threads : thread[t].pc = "use" => Declared(thread[t].obj)
    /\ \A t \in Threads : thread[t].pc = "declare" => lang = "python" /\ Declaring(t)
    /\ cached # NoObject => Declared(cached) \/ \E t \in Threads : thread[t].pc = "declare"

DeclareInv == MapInv /\ TypesInv

-----------------------------------------------------------------------------
\* The records of a thread

\* A thread that is at a step of its own has a call (idle threads have none).
LEMMA AtWork ==
    ASSUME LoadTypeOK, NEW t \in Threads, thread[t].pc # "idle"
    PROVE  thread[t] \in Busy /\ thread[t] # Idle
BY DEF LoadTypeOK, Idle

\* Goto, Holds, a declaration and a use change what they name and no more.
LEMMA MovesOn ==
    ASSUME NEW q \in Busy, NEW pc \in {"get", "load", "declare", "use"}
    PROVE  /\ [q EXCEPT !.pc = pc] \in Busy
           /\ [q EXCEPT !.pc = pc].pc = pc
           /\ [q EXCEPT !.pc = pc].obj = q.obj
           /\ [q EXCEPT !.pc = pc].left = q.left
BY DEF Busy

LEMMA TakesHold ==
    ASSUME NEW q \in Busy, NEW o \in Nat
    PROVE  /\ [q EXCEPT !.pc = "use", !.obj = o] \in Busy
           /\ [q EXCEPT !.pc = "use", !.obj = o].pc = "use"
           /\ [q EXCEPT !.pc = "use", !.obj = o].obj = o
<1> DEFINE s == [q EXCEPT !.pc = "use"]
<1>1. s \in Busy /\ s.pc = "use"
  BY DEF Busy
<1>2. [q EXCEPT !.pc = "use", !.obj = o] = [s EXCEPT !.obj = o]
  BY DEF Busy
<1> HIDE DEF s
<1>3. [s EXCEPT !.obj = o] \in Busy /\ [s EXCEPT !.obj = o].pc = "use" /\ [s EXCEPT !.obj = o].obj = o
  BY <1>1 DEF Busy
<1> QED
  BY <1>2, <1>3

LEMMA BeginsToDeclare ==
    ASSUME NEW q \in Busy, NEW left \in Seq(Functions)
    PROVE  /\ [q EXCEPT !.pc = "declare", !.left = left] \in Busy
           /\ [q EXCEPT !.pc = "declare", !.left = left].pc = "declare"
           /\ [q EXCEPT !.pc = "declare", !.left = left].left = left
<1> DEFINE s == [q EXCEPT !.pc = "declare"]
<1>1. s \in Busy /\ s.pc = "declare"
  BY DEF Busy
<1>2. [q EXCEPT !.pc = "declare", !.left = left] = [s EXCEPT !.left = left]
  BY DEF Busy
<1> HIDE DEF s
<1>3. /\ [s EXCEPT !.left = left] \in Busy /\ [s EXCEPT !.left = left].pc = "declare"
      /\ [s EXCEPT !.left = left].left = left
  BY <1>1 DEF Busy
<1> QED
  BY <1>2, <1>3

LEMMA DeclaresOne ==
    ASSUME NEW q \in Busy, q.left # <<>>
    PROVE  /\ [q EXCEPT !.left = Tail(@)] \in Busy
           /\ [q EXCEPT !.left = Tail(@)].pc = q.pc
           /\ [q EXCEPT !.left = Tail(@)].obj = q.obj
           /\ [q EXCEPT !.left = Tail(@)].left = Tail(q.left)
<1>1. q.left \in Seq(Functions)
  BY DEF Busy
<1>2. Tail(q.left) \in Seq(Functions)
  BY <1>1
<1> QED
  BY <1>2 DEF Busy

LEMMA UsesOne ==
    ASSUME NEW q \in Busy, q.todo # <<>>
    PROVE  /\ [q EXCEPT !.todo = Tail(@)] \in Busy
           /\ [q EXCEPT !.todo = Tail(@)].pc = q.pc
           /\ [q EXCEPT !.todo = Tail(@)].obj = q.obj
           /\ [q EXCEPT !.todo = Tail(@)].left = q.left
<1>1. q.todo \in Seq(Functions)
  BY DEF Busy
<1>2. Tail(q.todo) \in Seq(Functions)
  BY <1>1
<1> QED
  BY <1>2 DEF Busy

\* One thread moves, to x.
Moves(t, x) == thread' = [thread EXCEPT ![t] = x]

LEMMA OneMoves ==
    ASSUME LoadTypeOK, NEW t \in Threads, NEW x, x = Idle \/ x \in Busy, Moves(t, x)
    PROVE  /\ DOMAIN thread' = Threads
           /\ thread'[t] = x
           /\ \A u \in Threads \ {t} : thread'[u] = thread[u]
           /\ \A u \in Threads : thread'[u] # Idle => thread'[u] \in Busy
BY DEF LoadTypeOK, Moves

-----------------------------------------------------------------------------
\* The objects

\* An object made is not one of those collected, and they stay as they are.
LEMMA Fresh ==
    ASSUME LoadTypeOK, NEW declared \in SUBSET Functions, NewObject(declared)
    PROVE  /\ typed' \in Seq(SUBSET Functions) /\ Len(typed') = Len(typed) + 1
           /\ Len(typed') \notin gone /\ gone \subseteq 1 .. Len(typed') /\ gone' = gone
           /\ gone' # 1 .. Len(typed') /\ mapped' = TRUE /\ epoch' \in Nat
           /\ typed'[Len(typed')] = declared
           /\ \A o \in 1 .. Len(typed) : typed'[o] = typed[o]
           /\ mapped => epoch' = epoch
<1>1. typed \in Seq(SUBSET Functions) /\ Len(typed) \in Nat /\ gone \subseteq 1 .. Len(typed)
  BY DEF LoadTypeOK
<1>2. typed' = Append(typed, declared) /\ gone' = gone /\ mapped' = TRUE
  BY DEF NewObject
<1>3. typed' \in Seq(SUBSET Functions) /\ Len(typed') = Len(typed) + 1
  BY <1>1, <1>2
<1>4. Len(typed') \notin gone /\ gone \subseteq 1 .. Len(typed')
  BY <1>1, <1>3
<1>5. Len(typed') \in 1 .. Len(typed')
  BY <1>1, <1>3
<1>6. typed'[Len(typed')] = declared /\ \A o \in 1 .. Len(typed) : typed'[o] = typed[o]
  BY <1>1, <1>2
<1>7. epoch' \in Nat /\ (mapped => epoch' = epoch)
  BY DEF NewObject, LoadTypeOK
<1> QED
  BY <1>2, <1>3, <1>4, <1>5, <1>6, <1>7

LEMMA Counted ==
    ASSUME LoadTypeOK, NEW declared, declared \subseteq Functions, NewObject(declared)
    PROVE  Len(typed') \in Nat \ {0}
<1>1. Len(typed') = Len(typed) + 1
  BY Fresh
<1>2. Len(typed) \in Nat
  BY DEF LoadTypeOK
<1> QED
  BY <1>1, <1>2

\* The names declared, in their order.
LEMMA Order ==
    /\ DeclareOrder \in Seq(Functions) /\ Len(DeclareOrder) = 5
    /\ DeclareOrder[1] = "start" /\ DeclareOrder[2] = "dispose" /\ DeclareOrder[3] = "free"
    /\ DeclareOrder[4] = "free_bytes" /\ DeclareOrder[5] = "rpc"
<1>1. /\ "start" \in Functions /\ "dispose" \in Functions /\ "free" \in Functions
      /\ "free_bytes" \in Functions /\ "rpc" \in Functions
  BY DEF Functions
<1> HIDE DEF Functions
<1> QED
  BY <1>1 DEF DeclareOrder

-----------------------------------------------------------------------------
\* What steps of a kind preserve

\* A step that neither loads nor declares nor collects.
LEMMA QuietKeepsMap ==
    ASSUME MapInv, NEW t \in Threads, NEW x, x = Idle \/ x \in Busy, Moves(t, x),
           UNCHANGED <<hasRpc, cached, typed, epoch, mapped, gone>>, calls' \in Nat,
           holder' \in {"new", "busy", "ready", "erroneous"},
           holder' = "ready" => cached # NoObject,
           x.pc \in {"use", "declare"} => cached # NoObject,
           \A i \in instances' : cached # NoObject /\ i[2] = epoch
    PROVE  MapInv'
<1>1. /\ DOMAIN thread' = Threads
      /\ thread'[t] = x
      /\ \A u \in Threads \ {t} : thread'[u] = thread[u]
      /\ \A u \in Threads : thread'[u] # Idle => thread'[u] \in Busy
  BY OneMoves DEF MapInv
<1>2. LoadTypeOK'
  BY <1>1 DEF MapInv, LoadTypeOK
<1>3. \A u \in Threads : thread'[u].pc \in {"use", "declare"} => cached' # NoObject
  BY <1>1 DEF MapInv, KeptInv
<1>4. KeptInv'
  BY <1>3 DEF MapInv, KeptInv
<1> QED
  BY <1>2, <1>4 DEF MapInv

\* A step that loads, and keeps what it loads or leaves cached alone.
LEMMA LoadKeepsMap ==
    ASSUME MapInv, NEW t \in Threads, NEW x, x = Idle \/ x \in Busy, Moves(t, x),
           NEW declared \in SUBSET Functions, NewObject(declared), Rest,
           cached' = Len(typed') \/ cached' = cached,
           holder' \in {"new", "busy", "ready", "erroneous"},
           holder' = "ready" => cached' # NoObject,
           x.pc \in {"use", "declare"} => cached' # NoObject
    PROVE  MapInv'
<1>1. /\ DOMAIN thread' = Threads
      /\ thread'[t] = x
      /\ \A u \in Threads \ {t} : thread'[u] = thread[u]
      /\ \A u \in Threads : thread'[u] # Idle => thread'[u] \in Busy
  BY OneMoves DEF MapInv
<1>2. /\ typed' \in Seq(SUBSET Functions) /\ Len(typed') = Len(typed) + 1
      /\ Len(typed') \notin gone /\ gone \subseteq 1 .. Len(typed') /\ gone' = gone
      /\ gone' # 1 .. Len(typed') /\ mapped' = TRUE /\ epoch' \in Nat
      /\ mapped => epoch' = epoch
  BY Fresh DEF MapInv
<1>3. Len(typed) \in Nat /\ cached \in 0 .. Len(typed) /\ gone \subseteq 1 .. Len(typed)
  BY DEF MapInv, LoadTypeOK
<1>4. cached' \in 0 .. Len(typed') /\ (cached # NoObject => cached' # NoObject)
      /\ (cached' # NoObject => cached' \notin gone')
  BY <1>2, <1>3 DEF MapInv, KeptInv, NoObject
<1>5. LoadTypeOK'
  BY <1>1, <1>2, <1>4 DEF MapInv, LoadTypeOK, Rest
<1>6. \A u \in Threads : thread'[u].pc \in {"use", "declare"} => cached' # NoObject
  BY <1>1, <1>4 DEF MapInv, KeptInv
<1>7. ASSUME NEW i \in instances' PROVE cached' # NoObject /\ i[2] = epoch'
  <2>1. i \in instances
    BY <1>7 DEF Rest
  <2>2. cached # NoObject /\ i[2] = epoch
    BY <2>1 DEF MapInv, KeptInv
  <2>3. cached \in 1 .. Len(typed) /\ cached \notin gone
    BY <1>3, <2>2 DEF MapInv, KeptInv, NoObject
  <2>4. mapped
    BY <2>3 DEF MapInv, KeptInv
  <2> QED
    BY <1>2, <1>4, <2>2, <2>4
<1>8. mapped' = (gone' # 1 .. Len(typed'))
  BY <1>2
<1>9. KeptInv'
  BY <1>4, <1>6, <1>7, <1>8 DEF KeptInv
<1> QED
  BY <1>5, <1>9 DEF MapInv

\* The same for the types: a step that leaves the objects alone and declares
\* nothing, or brings the declarations to their end.
LEMMA QuietKeepsTypes ==
    ASSUME MapInv, TypesInv, NEW t \in Threads, NEW x, x = Idle \/ x \in Busy, Moves(t, x),
           UNCHANGED <<lang, cached, typed>>,
           x.pc # "declare",
           x.pc = "use" => Declared(x.obj),
           thread[t].pc = "declare" => Declared(cached),
           thread[t] = Idle /\ lang = "python" => \A u \in Threads : thread[u] = Idle
    PROVE  TypesInv'
<1>1. /\ thread'[t] = x
      /\ \A u \in Threads \ {t} : thread'[u] = thread[u]
  BY OneMoves DEF MapInv
<1>2. AloneInPython'
  BY <1>1 DEF TypesInv, AloneInPython
<1>3. (\A u \in Threads : thread[u].pc = "use" => Declared(thread[u].obj))'
  BY <1>1 DEF TypesInv, Declared
<1>4. (\A u \in Threads : thread[u].pc = "declare" => lang = "python" /\ Declaring(u))'
  <2>1. SUFFICES ASSUME NEW u \in Threads, thread'[u].pc = "declare"
                 PROVE  lang' = "python" /\ Declaring(u)'
    OBVIOUS
  <2>2. thread'[u] = thread[u]
    BY <1>1, <2>1
  <2>3. lang = "python" /\ Declaring(u)
    BY <2>1, <2>2 DEF TypesInv
  <2> QED
    BY <2>2, <2>3 DEF Declaring
<1>5. (cached # NoObject => Declared(cached) \/ \E u \in Threads : thread[u].pc = "declare")'
  BY <1>1 DEF TypesInv, Declared
<1> QED
  BY <1>2, <1>3, <1>4, <1>5 DEF TypesInv

\* The objects of Node and Java are made with all of their types.
LEMMA LoadKeepsTypes ==
    ASSUME MapInv, TypesInv, NEW t \in Threads, NEW x, x = Idle \/ x \in Busy, Moves(t, x),
           NEW declared \in SUBSET Functions, NewObject(declared), Rest,
           Functions \ {"rpc"} \subseteq declared, lang # "python",
           cached' = Len(typed') \/ cached' = cached,
           x.pc # "declare",
           x.pc = "use" => x.obj = Len(typed')
    PROVE  TypesInv'
<1>1. /\ thread'[t] = x
      /\ \A u \in Threads \ {t} : thread'[u] = thread[u]
  BY OneMoves DEF MapInv
<1>2. /\ Len(typed') = Len(typed) + 1
      /\ typed'[Len(typed')] = declared
      /\ \A o \in 1 .. Len(typed) : typed'[o] = typed[o]
  BY Fresh DEF MapInv
<1>3. Len(typed) \in Nat /\ cached \in 0 .. Len(typed)
  BY DEF MapInv, LoadTypeOK
<1>4. \A o : Declared(o) => Declared(o)'
  BY <1>2, <1>3 DEF Declared
<1>5. Declared(Len(typed))'
  BY <1>2, <1>3 DEF Declared
<1>6. lang' = lang /\ AloneInPython'
  BY DEF Rest, AloneInPython
<1>7. \A u \in Threads : thread'[u].pc # "declare"
  BY <1>1 DEF TypesInv
<1>8. (\A u \in Threads : thread[u].pc = "use" => Declared(thread[u].obj))'
  BY <1>1, <1>4, <1>5 DEF TypesInv, Declared
<1>9. (cached # NoObject => Declared(cached))'
  BY <1>4, <1>5 DEF TypesInv, Declared
<1> QED
  BY <1>6, <1>7, <1>8, <1>9 DEF TypesInv

-----------------------------------------------------------------------------
\* The steps

\* A step that is quiet moves one thread to x; what else it may change is named.
Quiet(t, x) ==
    /\ x = Idle \/ x \in Busy
    /\ Moves(t, x)
    /\ UNCHANGED <<lang, hasRpc, cached, typed, epoch, mapped, gone>> /\ calls' \in Nat
    /\ holder' \in {"new", "busy", "ready", "erroneous"} /\ (holder' = "ready" => cached # NoObject)
    /\ x.pc = "use" => cached # NoObject
    /\ x.pc # "declare"
    /\ \A i \in instances' : cached # NoObject /\ i[2] = epoch

LEMMA QuietMap ==
    ASSUME MapInv, NEW t \in Threads, NEW x, Quiet(t, x)
    PROVE  MapInv'
<1>1. \A i \in instances' : cached # NoObject /\ i[2] = epoch
  BY DEF Quiet
<1> QED
  BY <1>1, QuietKeepsMap DEF Quiet

LEMMA LoadFailsIsQuiet ==
    ASSUME MapInv, NEW t \in Threads, LoadFails(t)
    PROVE  Quiet(t, Idle) /\ thread[t].pc \notin {"declare", "idle"}
BY DEF LoadFails, MapInv, LoadTypeOK, KeptInv, Quiet, Moves, Raise, Rest, Idle

LEMMA ReturnIsQuiet ==
    ASSUME MapInv, NEW t \in Threads, Return(t)
    PROVE  Quiet(t, Idle) /\ thread[t].pc \notin {"declare", "idle"}
BY DEF Return, MapInv, LoadTypeOK, KeptInv, Quiet, Moves, Raise, Rest, Idle, objVars

\* A thread that finds the library cached uses it; who does not loads it.
LEMMA GoesToLoad ==
    ASSUME MapInv, NEW t \in Threads, thread[t].pc = "get", Goto(t, "load"), Rest,
           UNCHANGED <<cached, typed, epoch, mapped, gone>>,
           holder' \in {"new", "busy", "ready", "erroneous"}, holder' = "ready" => cached # NoObject
    PROVE  \E x : Quiet(t, x) /\ x.pc = "load"
<1>1. thread[t] \in Busy
  BY AtWork DEF MapInv
<1> DEFINE x == [thread[t] EXCEPT !.pc = "load"]
<1>2. x \in Busy /\ x.pc = "load"
  BY <1>1, MovesOn
<1>3. Moves(t, x)
  BY DEF Goto, Moves
<1> HIDE DEF x
<1>4. Quiet(t, x)
  BY <1>2, <1>3 DEF MapInv, LoadTypeOK, KeptInv, Quiet, Rest
<1> QED
  BY <1>2, <1>4

LEMMA HoldsCached ==
    ASSUME MapInv, NEW t \in Threads, thread[t].pc # "idle", Holds(t, cached), Rest,
           cached # NoObject,
           UNCHANGED <<cached, typed, epoch, mapped, gone>>, UNCHANGED holder
    PROVE  \E x : Quiet(t, x) /\ x.pc = "use" /\ x.obj = cached
<1>1. thread[t] \in Busy /\ cached \in Nat
  BY AtWork DEF MapInv, LoadTypeOK
<1> DEFINE x == [thread[t] EXCEPT !.pc = "use", !.obj = cached]
<1>2. x \in Busy /\ x.pc = "use" /\ x.obj = cached
  BY <1>1, TakesHold
<1>3. Moves(t, x)
  BY DEF Holds, Moves
<1> HIDE DEF x
<1>4. Quiet(t, x)
  BY <1>2, <1>3 DEF MapInv, LoadTypeOK, KeptInv, Quiet, Rest
<1> QED
  BY <1>2, <1>4

\* What a thread that has the library has after a quiet step.
Gets(t) == \E x : Quiet(t, x) /\ (x.pc = "use" => x.obj = cached /\ cached # NoObject)

LEMMA PythonGetIsQuiet ==
    ASSUME MapInv, NEW t \in Threads, PythonGet(t)
    PROVE  Gets(t) /\ thread[t].pc \notin {"declare", "idle"}
<1>1. thread[t].pc = "get" /\ Rest /\ UNCHANGED <<cached, typed, epoch, mapped, gone, holder>>
  BY DEF PythonGet, objVars
<1>2. CASE cached = NoObject
  BY <1>1, <1>2, GoesToLoad DEF PythonGet, Gets, MapInv, LoadTypeOK, KeptInv
<1>3. CASE cached # NoObject
  BY <1>1, <1>3, HoldsCached DEF PythonGet, Gets
<1> QED
  BY <1>1, <1>2, <1>3

LEMMA PythonReturnIsQuiet ==
    ASSUME MapInv, NEW t \in Threads, PythonReturn(t)
    PROVE  Gets(t) /\ thread[t].pc = "declare" /\ thread[t].left = <<>>
<1>1. /\ thread[t].pc = "declare" /\ Rest /\ UNCHANGED <<cached, typed, epoch, mapped, gone, holder>>
      /\ Holds(t, cached) /\ thread[t].left = <<>> /\ cached # NoObject
  BY DEF PythonReturn, objVars, MapInv, KeptInv
<1> QED
  BY <1>1, HoldsCached DEF Gets

LEMMA NodeGetIsQuiet ==
    ASSUME MapInv, NEW t \in Threads, NodeGet(t)
    PROVE  Gets(t) /\ thread[t].pc \notin {"declare", "idle"}
<1>1. /\ thread[t].pc = "get" /\ Rest /\ UNCHANGED <<cached, typed, epoch, mapped, gone, holder>>
      /\ Holds(t, cached) /\ cached # NoObject
  BY DEF NodeGet, objVars
<1> QED
  BY <1>1, HoldsCached DEF Gets

LEMMA JavaGetIsQuiet ==
    ASSUME MapInv, NEW t \in Threads, JavaGet(t)
    PROVE  Gets(t) /\ thread[t].pc \notin {"declare", "idle"}
<1>1. thread[t].pc = "get" /\ Rest /\ UNCHANGED <<cached, typed, epoch, mapped, gone>>
  BY DEF JavaGet
<1>2. holder \in {"new", "ready", "erroneous"}
  BY DEF JavaGet, MapInv, LoadTypeOK
<1>3. CASE holder = "new"
  <2>1. Goto(t, "load") /\ holder' = "busy"
    BY <1>3 DEF JavaGet
  <2> QED
    BY <1>1, <2>1, GoesToLoad DEF Gets
<1>4. CASE holder = "ready"
  <2>1. Holds(t, cached) /\ UNCHANGED holder /\ cached # NoObject
    BY <1>4 DEF JavaGet, MapInv, KeptInv
  <2> QED
    BY <1>1, <2>1, HoldsCached DEF Gets
<1>5. CASE holder = "erroneous"
  <2>1. Moves(t, Idle) /\ UNCHANGED holder
    BY <1>5 DEF JavaGet, Raise, Moves
  <2>2. Quiet(t, Idle)
    BY <1>1, <2>1 DEF MapInv, LoadTypeOK, KeptInv, Quiet, Rest, Idle
  <2> QED
    BY <1>1, <2>2 DEF Gets, Idle
<1> QED
  BY <1>1, <1>2, <1>3, <1>4, <1>5

\* A call uses its next function; start and dispose change the instances.
LEMMA UseIsQuiet ==
    ASSUME MapInv, NEW t \in Threads, Use(t)
    PROVE  /\ \E x : Quiet(t, x) /\ (x.pc = "use" => x.obj = thread[t].obj)
           /\ thread[t].pc = "use"
<1>1. /\ thread[t].pc = "use" /\ thread[t].todo # <<>>
      /\ UNCHANGED <<lang, hasRpc, cached, typed, heapStr, holder, epoch, mapped, gone, calls>>
  BY DEF Use, objVars
<1>2. thread[t] \in Busy /\ cached # NoObject
  BY <1>1, AtWork DEF MapInv, KeptInv
<1>3. PICK f : f = Head(thread[t].todo)
  OBVIOUS
<1>4. /\ IF f = "rpc" /\ ~hasRpc THEN Raise(t)
         ELSE thread' = [thread EXCEPT ![t].todo = Tail(@)]
      /\ CASE f = "start" -> instances' = instances \cup {<<thread[t].call, epoch>>}
           [] f = "dispose" /\ instances # {} -> \E i \in instances : instances' = instances \ {i}
           [] OTHER -> UNCHANGED instances
  BY <1>3 DEF Use
<1>5. \A i \in instances' : cached # NoObject /\ i[2] = epoch
  <2>1. \A i \in instances' : i \in instances \/ i = <<thread[t].call, epoch>>
    BY <1>4
  <2>2. \A i \in instances : i[2] = epoch
    BY DEF MapInv, KeptInv
  <2> QED
    BY <1>2, <2>1, <2>2
<1> DEFINE x == [thread[t] EXCEPT !.todo = Tail(@)]
<1>6. x \in Busy /\ x.pc = "use" /\ x.obj = thread[t].obj
  BY <1>1, <1>2, UsesOne
<1>7. Moves(t, Idle) \/ Moves(t, x)
  <2>1. CASE f = "rpc" /\ ~hasRpc
    BY <1>4, <2>1 DEF Moves, Raise
  <2>2. CASE ~(f = "rpc" /\ ~hasRpc)
    <3>1. thread' = [thread EXCEPT ![t].todo = Tail(@)]
      BY <1>4, <2>2
    <3> QED
      BY ONLY <3>1 DEF Moves
  <2> QED
    BY <2>1, <2>2
<1> HIDE DEF x
<1>8. \A y : (y = Idle \/ y = x) /\ Moves(t, y) => Quiet(t, y)
  BY <1>1, <1>2, <1>5, <1>6 DEF MapInv, LoadTypeOK, KeptInv, Quiet, Idle
<1>9. Idle.pc # "use"
  BY DEF Idle
<1> QED
  BY <1>1, <1>6, <1>7, <1>8, <1>9

\* A binding is called; in Python from one thread, so nobody else is at work.
LEMMA CallIsQuiet ==
    ASSUME MapInv, NEW t \in Threads, NEW api \in Apis, Call(t, api)
    PROVE  /\ \E x : Quiet(t, x) /\ x.pc = "get"
           /\ thread[t] = Idle
           /\ lang \in ManyThreads \/ \A u \in Threads : thread[u] = Idle
<1>1. PICK fs \in Uses[api] :
          thread' = [thread EXCEPT ![t] = [pc |-> "get", call |-> calls, api |-> api, todo |-> fs,
                                           obj |-> NoObject, left |-> <<>>]]
  BY DEF Call
<1>2. fs \in Seq(Functions)
  <2>1. /\ "start" \in Functions /\ "dispose" \in Functions /\ "free" \in Functions
        /\ "free_bytes" \in Functions /\ "rpc" \in Functions
    BY DEF Functions
  <2>2. \A a, b \in Functions : <<a, b>> \in Seq(Functions)
    OBVIOUS
  <2>3. \/ fs = <<"start", "free">> \/ fs = <<"rpc", "free_bytes">>
        \/ fs = <<"rpc", "free">> \/ fs = <<"dispose", "free">>
    BY DEF Uses, Apis
  <2> HIDE DEF Functions
  <2> QED
    BY <2>1, <2>2, <2>3
<1> DEFINE x == [pc |-> "get", call |-> calls, api |-> api, todo |-> fs,
                 obj |-> NoObject, left |-> <<>>]
<1>3. x \in Busy /\ x.pc = "get"
  BY <1>2 DEF Busy, NoObject, MapInv, LoadTypeOK
<1>4. Moves(t, x)
  BY <1>1 DEF Moves
<1> HIDE DEF x
<1>5. calls' \in Nat
  BY DEF Call, MapInv, LoadTypeOK
<1>6. Quiet(t, x)
  BY <1>3, <1>4, <1>5 DEF Call, objVars, MapInv, LoadTypeOK, KeptInv, Quiet
<1> QED
  BY <1>3, <1>6 DEF Call

\* An object nobody refers to goes; what is cached stays (JNA and koffi).
LEMMA CollectKeepsMap ==
    ASSUME MapInv, NEW o \in 1 .. Len(typed), Collect(o)
    PROVE  MapInv'
<1>1. /\ gone' = gone \cup {o} /\ mapped' = (gone' # 1 .. Len(typed)) /\ o # cached
      /\ UNCHANGED <<lang, hasRpc, instances, calls, cached, typed, heapStr, holder, epoch, thread>>
  BY DEF Collect, Rest, Referred
<1>2. LoadTypeOK'
  BY <1>1 DEF MapInv, LoadTypeOK
<1>3. KeptInv'
  BY <1>1 DEF MapInv, KeptInv
<1> QED
  BY <1>2, <1>3 DEF MapInv

\* The steps that load.
LEMMA NodeLoads ==
    ASSUME MapInv, NEW t \in Threads, NodeLoad(t)
    PROVE  /\ lang = "node"
           /\ \E declared \in SUBSET Functions : \E x :
                 /\ NewObject(declared) /\ Functions \ {"rpc"} \subseteq declared
                 /\ Moves(t, x) /\ (x = Idle \/ x \in Busy)
                 /\ x.pc # "declare"
                 /\ x.pc = "use" => x.obj = Len(typed') /\ cached' # NoObject
                 /\ cached' = Len(typed') \/ (cached' = cached /\ x = Idle)
           /\ Rest /\ holder' = holder
<1>1. lang = "node" /\ thread[t].pc = "get" /\ Rest /\ holder' = holder
  BY DEF NodeLoad
<1>2. thread[t] \in Busy
  BY <1>1, AtWork DEF MapInv
<1>3. CASE hasRpc
  <2>1. NewObject(Functions) /\ cached' = Len(typed') /\ Holds(t, Len(typed'))
    BY <1>3 DEF NodeLoad
  <2>2. Len(typed') \in Nat \ {0}
    BY <2>1, Counted DEF MapInv
  <2> DEFINE x == [thread[t] EXCEPT !.pc = "use", !.obj = Len(typed')]
  <2>3. x \in Busy /\ x.pc = "use" /\ x.obj = Len(typed')
    BY <1>2, <2>2, TakesHold
  <2>4. Moves(t, x)
    BY <2>1 DEF Holds, Moves
  <2> HIDE DEF x
  <2> QED
    BY <1>1, <2>1, <2>2, <2>3, <2>4 DEF NoObject
<1>4. CASE ~hasRpc
  <2>1. NewObject(Functions \ {"rpc"}) /\ cached' = cached /\ Moves(t, Idle)
    BY <1>4 DEF NodeLoad, Raise, Moves
  <2>2. Idle.pc # "declare" /\ Idle.pc # "use"
    BY DEF Idle
  <2> QED
    BY <1>1, <2>1, <2>2
<1> QED
  BY <1>3, <1>4

LEMMA JavaLoads ==
    ASSUME MapInv, NEW t \in Threads, JavaLoad(t)
    PROVE  /\ lang = "java"
           /\ NewObject(Functions)
           /\ \E x \in Busy : Moves(t, x) /\ x.pc = "use" /\ x.obj = Len(typed')
           /\ cached' = Len(typed') /\ cached' # NoObject
           /\ Rest /\ holder' = "ready"
<1>1. /\ lang = "java" /\ thread[t].pc = "load" /\ Rest /\ holder' = "ready"
      /\ NewObject(Functions) /\ cached' = Len(typed') /\ Holds(t, Len(typed'))
  BY DEF JavaLoad
<1>2. thread[t] \in Busy
  BY <1>1, AtWork DEF MapInv
<1>3. Len(typed') \in Nat \ {0}
  BY <1>1, Counted DEF MapInv
<1> DEFINE x == [thread[t] EXCEPT !.pc = "use", !.obj = Len(typed')]
<1>4. x \in Busy /\ x.pc = "use" /\ x.obj = Len(typed')
  BY <1>2, <1>3, TakesHold
<1>5. Moves(t, x)
  BY <1>1 DEF Holds, Moves
<1> HIDE DEF x
<1> QED
  BY <1>1, <1>3, <1>4, <1>5 DEF NoObject

LEMMA PythonLoads ==
    ASSUME MapInv, NEW t \in Threads, PythonLoad(t)
    PROVE  /\ lang = "python" /\ thread[t] # Idle
           /\ NewObject({})
           /\ \E x \in Busy : Moves(t, x) /\ x.pc = "declare" /\ x.left = DeclareOrder
           /\ cached' = Len(typed') /\ cached' # NoObject
           /\ Rest /\ holder' = holder
<1>1. /\ lang = "python" /\ thread[t].pc = "load" /\ Rest /\ holder' = holder
      /\ NewObject({}) /\ cached' = Len(typed')
      /\ thread' = [thread EXCEPT ![t] = [@ EXCEPT !.pc = "declare", !.left = DeclareOrder]]
  BY DEF PythonLoad
<1>2. thread[t] \in Busy /\ thread[t] # Idle
  BY <1>1, AtWork DEF MapInv
<1>3. Len(typed') \in Nat \ {0}
  BY <1>1, Counted DEF MapInv
<1> DEFINE x == [thread[t] EXCEPT !.pc = "declare", !.left = DeclareOrder]
<1>4. x \in Busy /\ x.pc = "declare" /\ x.left = DeclareOrder
  BY <1>2, Order, BeginsToDeclare
<1>5. Moves(t, x)
  BY <1>1 DEF Moves
<1> HIDE DEF x
<1> QED
  BY <1>1, <1>2, <1>3, <1>4, <1>5 DEF NoObject

\* One declaration, or the error at the attribute the library does not have.
LEMMA DeclareMoves ==
    ASSUME MapInv, NEW t \in Threads, PythonDeclare(t)
    PROVE  /\ thread[t].pc = "declare" /\ thread[t].left # <<>> /\ Rest
           /\ UNCHANGED <<cached, heapStr, holder, epoch, mapped, gone>>
           /\ \/ Head(thread[t].left) = "rpc" /\ Moves(t, Idle) /\ UNCHANGED typed
              \/ /\ typed' = [typed EXCEPT ![cached] = @ \cup {Head(thread[t].left)}]
                 /\ \E x \in Busy : /\ Moves(t, x)
                                    /\ x.pc = "declare" /\ x.left = Tail(thread[t].left)
<1>1. /\ thread[t].pc = "declare" /\ thread[t].left # <<>> /\ Rest
      /\ UNCHANGED <<cached, heapStr, holder, epoch, mapped, gone>>
  BY DEF PythonDeclare
<1>2. thread[t] \in Busy
  BY <1>1, AtWork DEF MapInv
<1> DEFINE x == [thread[t] EXCEPT !.left = Tail(@)]
<1>3. x \in Busy /\ x.pc = "declare" /\ x.left = Tail(thread[t].left)
  BY <1>1, <1>2, DeclaresOne
<1>4. CASE Head(thread[t].left) = "rpc" /\ ~hasRpc
  BY <1>1, <1>4 DEF PythonDeclare, Raise, Moves
<1>5. CASE ~(Head(thread[t].left) = "rpc" /\ ~hasRpc)
  <2>1. /\ typed' = [typed EXCEPT ![cached] = @ \cup {Head(thread[t].left)}]
        /\ thread' = [thread EXCEPT ![t].left = Tail(@)]
    BY <1>5 DEF PythonDeclare
  <2>2. Moves(t, x)
    BY ONLY <2>1 DEF Moves
  <2> HIDE DEF x
  <2> QED
    BY <1>1, <1>3, <2>1, <2>2
<1> QED
  BY <1>4, <1>5

LEMMA DeclareKeepsMap ==
    ASSUME MapInv, NEW t \in Threads, PythonDeclare(t)
    PROVE  MapInv'
<1>1. /\ thread[t].pc = "declare" /\ thread[t].left # <<>> /\ Rest
      /\ UNCHANGED <<cached, heapStr, holder, epoch, mapped, gone>>
  BY DeclareMoves
<1>2. thread[t] \in Busy /\ cached # NoObject
  BY <1>1, AtWork DEF MapInv, KeptInv
<1>3. Head(thread[t].left) \in Functions
  BY <1>1, <1>2 DEF Busy
<1>4. typed' \in Seq(SUBSET Functions) /\ Len(typed') = Len(typed)
  <2>1. typed \in Seq(SUBSET Functions) /\ cached \in 1 .. Len(typed)
    BY <1>2 DEF MapInv, LoadTypeOK, NoObject
  <2>2. CASE typed' = [typed EXCEPT ![cached] = @ \cup {Head(thread[t].left)}]
    <3>1. typed[cached] \cup {Head(thread[t].left)} \in SUBSET Functions
      BY <2>1, <1>3
    <3> QED
      BY <2>1, <2>2, <3>1
  <2> QED
    BY <2>1, <2>2, DeclareMoves
<1>5. PICK x : Moves(t, x) /\ (x = Idle \/ (x \in Busy /\ x.pc = "declare"))
  BY DeclareMoves
<1>6. /\ thread'[t] = x /\ DOMAIN thread' = Threads
      /\ \A u \in Threads \ {t} : thread'[u] = thread[u]
      /\ \A u \in Threads : thread'[u] # Idle => thread'[u] \in Busy
  BY <1>5, OneMoves DEF MapInv
<1>7. LoadTypeOK'
  BY <1>1, <1>4, <1>6 DEF MapInv, LoadTypeOK, Rest
<1>8. KeptInv'
  BY <1>1, <1>2, <1>4, <1>6 DEF MapInv, KeptInv, Rest
<1> QED
  BY <1>7, <1>8 DEF MapInv

-----------------------------------------------------------------------------
\* The library stays mapped

LEMMA MapStarts == LoadingInit => MapInv
<1> SUFFICES ASSUME LoadingInit PROVE MapInv
  OBVIOUS
<1>1. typed = <<>> /\ gone = {} /\ cached = 0 /\ mapped = FALSE
  BY DEF LoadingInit, NoObject
<1>2. typed \in Seq(SUBSET Functions) /\ Len(typed) = 0 /\ 1 .. Len(typed) = {}
  BY <1>1
<1>3. LoadTypeOK
  <2>1. hasRpc \in BOOLEAN /\ holder = "new" /\ epoch = 0 /\ calls = 0
    BY DEF LoadingInit
  <2>2. DOMAIN thread = Threads /\ \A t \in Threads : thread[t] = Idle
    BY DEF LoadingInit
  <2>3. gone \subseteq 1 .. Len(typed) /\ cached \in 0 .. Len(typed) /\ mapped \in BOOLEAN
    <3>1. gone = {} /\ cached = 0 /\ mapped \in BOOLEAN /\ Len(typed) = 0
      BY <1>1, <1>2
    <3> QED
      BY ONLY <3>1
  <2> QED
    BY <1>2, <2>1, <2>2, <2>3 DEF LoadTypeOK
<1>4. KeptInv
  BY <1>1, <1>2 DEF LoadingInit, KeptInv, NoObject, Idle
<1> QED
  BY <1>3, <1>4 DEF MapInv

\* Every step of every binding, and of the garbage collector.
LEMMA MapStep == MapInv /\ [LoadingNext]_loadingVars => MapInv'
<1> SUFFICES ASSUME MapInv, [LoadingNext]_loadingVars PROVE MapInv'
  OBVIOUS
<1> USE DEF Gets
<1>1. ASSUME NEW t \in Threads, ThreadStep(t) PROVE MapInv'
  <2>1. CASE LoadFails(t)
    BY <2>1, LoadFailsIsQuiet, QuietMap
  <2>2. CASE PythonGet(t)
    BY <2>2, PythonGetIsQuiet, QuietMap
  <2>3. CASE PythonLoad(t)
    <3>1. {} \in SUBSET Functions
      OBVIOUS
    <3>2. PICK x \in Busy : Moves(t, x) /\ x.pc = "declare"
      BY <2>3, PythonLoads
    <3>3. /\ NewObject({}) /\ cached' = Len(typed') /\ cached' # NoObject /\ Rest /\ holder' = holder
          /\ holder \in {"new", "busy", "ready", "erroneous"}
      BY <2>3, PythonLoads DEF MapInv, LoadTypeOK
    <3> QED
      BY <3>1, <3>2, <3>3, LoadKeepsMap
  <2>4. CASE PythonDeclare(t)
    BY <2>4, DeclareKeepsMap
  <2>5. CASE PythonReturn(t)
    BY <2>5, PythonReturnIsQuiet, QuietMap
  <2>6. CASE NodeGet(t)
    BY <2>6, NodeGetIsQuiet, QuietMap
  <2>7. CASE NodeLoad(t)
    <3>0. PICK declared \in SUBSET Functions : \E x :
              /\ NewObject(declared) /\ Moves(t, x) /\ (x = Idle \/ x \in Busy)
              /\ x.pc # "declare" /\ (x.pc = "use" => cached' # NoObject)
              /\ cached' = Len(typed') \/ cached' = cached
      BY <2>7, NodeLoads
    <3>1. PICK x :
              /\ NewObject(declared) /\ Moves(t, x) /\ (x = Idle \/ x \in Busy)
              /\ x.pc # "declare" /\ (x.pc = "use" => cached' # NoObject)
              /\ cached' = Len(typed') \/ cached' = cached
      BY <3>0
    <3>2. /\ Rest /\ holder' = holder /\ holder \in {"new", "busy", "ready", "erroneous"}
          /\ (holder = "ready" => cached # NoObject)
      BY <2>7, NodeLoads DEF MapInv, LoadTypeOK, KeptInv
    <3>3. cached # NoObject => cached' # NoObject
      BY <3>1, Counted DEF MapInv, NoObject
    <3> QED
      BY <3>1, <3>2, <3>3, LoadKeepsMap
  <2>8. CASE JavaGet(t)
    BY <2>8, JavaGetIsQuiet, QuietMap
  <2>9. CASE JavaLoad(t)
    <3>1. Functions \in SUBSET Functions
      OBVIOUS
    <3>2. PICK x \in Busy : Moves(t, x) /\ x.pc = "use"
      BY <2>9, JavaLoads
    <3>3. NewObject(Functions) /\ cached' = Len(typed') /\ cached' # NoObject /\ Rest /\ holder' = "ready"
      BY <2>9, JavaLoads
    <3> QED
      BY <3>1, <3>2, <3>3, LoadKeepsMap
  <2>10. CASE Use(t)
    BY <2>10, UseIsQuiet, QuietMap
  <2>11. CASE Return(t)
    BY <2>11, ReturnIsQuiet, QuietMap
  <2> QED
    BY <1>1, <2>1, <2>2, <2>3, <2>4, <2>5, <2>6, <2>7, <2>8, <2>9, <2>10, <2>11 DEF ThreadStep
<1>2. ASSUME NEW t \in Threads, NEW api \in Apis, Call(t, api) PROVE MapInv'
  BY <1>2, CallIsQuiet, QuietMap
<1>3. ASSUME NEW o \in 1 .. Len(typed), Collect(o) PROVE MapInv'
  BY <1>3, CollectKeepsMap
<1>4. CASE UNCHANGED loadingVars
  BY <1>4 DEF loadingVars, objVars, MapInv, LoadTypeOK, KeptInv
<1> QED
  BY <1>1, <1>2, <1>3, <1>4 DEF LoadingNext, Apis

\* The library is never unloaded, or mapped anew, while an instance runs in
\* it: the binding keeps an object of it from the first call that got one
\* (_lib, lib and Holder.INSTANCE), and no instance is started without.
THEOREM LibraryStaysMapped == LoadingSpec => []InstancesSurvive
<1>1. MapInv => InstancesSurvive
  <2>1. SUFFICES ASSUME MapInv, NEW i \in instances PROVE mapped /\ i[2] = epoch
    BY DEF InstancesSurvive
  <2>2. cached # NoObject /\ i[2] = epoch
    BY <2>1 DEF MapInv, KeptInv
  <2>3. Len(typed) \in Nat /\ cached \in 0 .. Len(typed)
    BY <2>1 DEF MapInv, LoadTypeOK
  <2>4. cached \in 1 .. Len(typed) /\ cached \notin gone
    BY <2>1, <2>2, <2>3 DEF MapInv, KeptInv, NoObject
  <2> QED
    BY <2>1, <2>2, <2>4 DEF MapInv, KeptInv
<1> QED
  BY <1>1, MapStarts, MapStep, PTL DEF LoadingSpec

-----------------------------------------------------------------------------
\* Calls are typed

\* Nobody declares but the thread itself, or else somebody that is not there.
LEMMA CachedIsDeclared ==
    ASSUME MapInv, TypesInv, NEW t \in Threads, thread[t].pc \notin {"declare", "idle"},
           cached # NoObject
    PROVE  Declared(cached)
<1>1. SUFFICES ASSUME NEW u \in Threads, thread[u].pc = "declare" PROVE FALSE
  BY DEF TypesInv
<1>2. thread[t] # Idle /\ thread[u] # Idle
  BY <1>1, AtWork DEF MapInv, Idle
<1>3. t = u
  BY <1>1, <1>2 DEF TypesInv, AloneInPython
<1> QED
  BY <1>1, <1>3

\* When nothing is left, everything is declared.
LEMMA DeclaredAtLast ==
    ASSUME MapInv, TypesInv, NEW t \in Threads, thread[t].pc = "declare", thread[t].left = <<>>
    PROVE  Declared(cached)
<1>1. Declaring(t) /\ Len(thread[t].left) = 0
  BY DEF TypesInv
<1>2. cached # NoObject /\ \A i \in 1 .. 5 : DeclareOrder[i] \in typed[cached]
  BY <1>1 DEF Declaring
<1>3. Functions \subseteq typed[cached]
  BY <1>2, Order DEF Functions
<1>4. Len(typed) \in Nat /\ cached \in 0 .. Len(typed)
  BY DEF MapInv, LoadTypeOK
<1> QED
  BY <1>2, <1>3, <1>4 DEF Declared, NoObject

\* A thread after a quiet step of one that was at work.
LEMMA QuietTypes ==
    ASSUME MapInv, TypesInv, NEW t \in Threads, thread[t].pc # "idle",
           thread[t].pc = "declare" => Declared(cached),
           NEW x, Quiet(t, x), x.pc = "use" => Declared(x.obj)
    PROVE  TypesInv'
<1>1. thread[t] # Idle
  BY DEF Idle
<1> QED
  BY <1>1, QuietKeepsTypes DEF Quiet

LEMMA GetsTypes ==
    ASSUME MapInv, TypesInv, NEW t \in Threads, Gets(t), thread[t].pc \notin {"declare", "idle"}
    PROVE  TypesInv'
<1>1. PICK x : Quiet(t, x) /\ (x.pc = "use" => x.obj = cached /\ cached # NoObject)
  BY DEF Gets
<1>2. x.pc = "use" => Declared(x.obj)
  BY <1>1, CachedIsDeclared
<1> QED
  BY <1>1, <1>2, QuietTypes

\* Python's object has no types yet; nobody else is there to see it.
LEMMA PythonLoadKeepsTypes ==
    ASSUME MapInv, TypesInv, NEW t \in Threads, PythonLoad(t)
    PROVE  TypesInv'
<1>1. /\ lang = "python" /\ thread[t] # Idle /\ NewObject({}) /\ Rest
      /\ cached' = Len(typed') /\ cached' # NoObject
  BY PythonLoads
<1>2. PICK x \in Busy : Moves(t, x) /\ x.pc = "declare" /\ x.left = DeclareOrder
  BY PythonLoads
<1>3. thread'[t] = x /\ \A u \in Threads \ {t} : thread'[u] = thread[u]
  BY <1>2, OneMoves DEF MapInv
<1>4. \A u \in Threads \ {t} : thread[u] = Idle
  BY <1>1 DEF TypesInv, AloneInPython
<1>5. \A u \in Threads \ {t} : thread'[u] = Idle /\ thread'[u].pc = "idle"
  BY <1>3, <1>4 DEF Idle
<1>6. lang' = "python"
  BY <1>1 DEF Rest
<1>7. Declaring(t)'
  <2>1. thread'[t].left = DeclareOrder /\ Len(DeclareOrder) = 5 /\ cached' # NoObject
    BY <1>1, <1>2, <1>3, Order
  <2>2. /\ 1 .. 5 - Len(DeclareOrder) = {}
        /\ \A i \in 1 .. Len(DeclareOrder) : i = 5 - Len(DeclareOrder) + i
    BY <2>1
  <2> QED
    BY <2>1, <2>2 DEF Declaring
<1>8. AloneInPython'
  BY <1>5 DEF AloneInPython
<1> QED
  BY <1>2, <1>3, <1>5, <1>6, <1>7, <1>8 DEF TypesInv

\* One declaration more; before spicedb_rpc, all the others are made.
LEMMA DeclareKeepsTypes ==
    ASSUME MapInv, TypesInv, NEW t \in Threads, PythonDeclare(t)
    PROVE  TypesInv'
<1> DEFINE left == thread[t].left
           n == Len(left)
<1>1. /\ thread[t].pc = "declare" /\ left # <<>> /\ lang' = lang /\ cached' = cached
  BY DeclareMoves DEF Rest
<1>2. thread[t] \in Busy /\ thread[t] # Idle /\ lang = "python" /\ Declaring(t)
  BY <1>1, AtWork DEF MapInv, TypesInv
<1>3. left \in Seq(Functions) /\ n \in 1 .. 5
  <2>1. left \in Seq(Functions) /\ n \in 0 .. 5
    BY <1>2 DEF Busy, Declaring
  <2> HIDE DEF left
  <2> QED
    BY <1>1, <2>1
<1>4. /\ \A i \in 1 .. n : left[i] = DeclareOrder[5 - n + i]
      /\ cached # NoObject
      /\ \A i \in 1 .. 5 - n : DeclareOrder[i] \in typed[cached]
  BY <1>2 DEF Declaring
<1>5. PICK f : f = Head(left)
  OBVIOUS
<1>6. f = DeclareOrder[6 - n]
  <2> HIDE DEF left
  <2>1. f = left[1] /\ 5 - n + 1 = 6 - n
    BY <1>1, <1>3, <1>5
  <2> QED
    BY <1>3, <1>4, <2>1
<1>7. cached \in 1 .. Len(typed) /\ typed \in Seq(SUBSET Functions)
  BY <1>4 DEF MapInv, LoadTypeOK, NoObject
<1>8. \A u \in Threads \ {t} : thread[u] = Idle
  BY <1>2 DEF TypesInv, AloneInPython
<1>9. CASE f = "rpc" /\ Moves(t, Idle) /\ UNCHANGED typed
  <2>1. n = 1
    <3>1. \A i \in 1 .. 5 : DeclareOrder[i] = "rpc" => i = 5
      BY Order
    <3>2. 6 - n \in 1 .. 5 /\ DeclareOrder[6 - n] = "rpc"
      <4>1. f = "rpc"
        BY <1>9
      <4> HIDE DEF n
      <4> QED
        BY ONLY <1>3, <1>6, <4>1
    <3>3. 6 - n = 5
      BY <3>1, <3>2
    <3>4. n \in 1 .. 5
      BY <1>3
    <3> HIDE DEF n
    <3> QED
      BY ONLY <3>3, <3>4
  <2>2. Declared(cached)
    <3>1. \A i \in 1 .. 4 : DeclareOrder[i] \in typed[cached]
      BY <1>4, <2>1
    <3> QED
      BY <1>7, <3>1, Order DEF Declared, Functions
  <2>3. Idle.pc # "declare" /\ Idle.pc # "use"
    BY DEF Idle
  <2> QED
    BY <1>1, <1>2, <1>9, <2>2, <2>3, QuietKeepsTypes
<1>10. ASSUME typed' = [typed EXCEPT ![cached] = @ \cup {f}],
              NEW x \in Busy, Moves(t, x), x.pc = "declare", x.left = Tail(left)
       PROVE  TypesInv'
  <2>1. thread'[t] = x /\ \A u \in Threads \ {t} : thread'[u] = thread[u]
    BY <1>10, OneMoves DEF MapInv
  <2>2. typed'[cached] = typed[cached] \cup {f}
    BY <1>7, <1>10
  <2> HIDE DEF left
  <2>3. Len(x.left) = n - 1 /\ \A i \in 1 .. n - 1 : x.left[i] = left[i + 1]
    BY <1>1, <1>3, <1>10
  <2>4. \A i \in 1 .. n - 1 : x.left[i] = DeclareOrder[5 - (n - 1) + i]
    <3>1. \A i \in 1 .. n - 1 : i + 1 \in 1 .. n /\ 5 - n + (i + 1) = 5 - (n - 1) + i
      BY <1>3
    <3> QED
      BY <1>4, <2>3, <3>1
  <2>5. \A i \in 1 .. 5 - (n - 1) : DeclareOrder[i] \in typed'[cached]
    <3>1. \A i \in 1 .. 5 - (n - 1) : i \in 1 .. 5 - n \/ i = 6 - n
      BY <1>3
    <3> QED
      BY <1>4, <1>6, <2>2, <3>1
  <2> HIDE DEF n
  <2>6. Declaring(t)'
    <3>1. n - 1 \in 0 .. 5
      BY <1>3
    <3> QED
      BY <1>1, <1>4, <2>1, <2>3, <2>4, <2>5, <3>1 DEF Declaring
  <2>7. \A u \in Threads \ {t} : thread'[u] = Idle /\ thread'[u].pc = "idle"
    BY <1>8, <2>1 DEF Idle
  <2>8. AloneInPython'
    BY <2>7 DEF AloneInPython
  <2> QED
    BY <1>1, <1>2, <1>10, <2>1, <2>6, <2>7, <2>8 DEF TypesInv
<1> HIDE DEF left
<1>11. \/ f = "rpc" /\ Moves(t, Idle) /\ UNCHANGED typed
       \/ /\ typed' = [typed EXCEPT ![cached] = @ \cup {f}]
          /\ \E x \in Busy : Moves(t, x) /\ x.pc = "declare" /\ x.left = Tail(left)
  BY <1>5, DeclareMoves DEF left
<1> QED
  BY <1>9, <1>10, <1>11

LEMMA CollectKeepsTypes ==
    ASSUME MapInv, TypesInv, NEW o \in 1 .. Len(typed), Collect(o)
    PROVE  TypesInv'
BY DEF Collect, Rest, TypesInv, AloneInPython, Declared, Declaring

LEMMA DeclareStarts == LoadingInit => DeclareInv
<1> SUFFICES ASSUME LoadingInit PROVE DeclareInv
  OBVIOUS
<1>1. \A t \in Threads : thread[t] = Idle
  BY DEF LoadingInit
<1>2. cached = NoObject
  BY DEF LoadingInit
<1>3. TypesInv
  BY <1>1, <1>2 DEF TypesInv, AloneInPython, Idle
<1> QED
  BY <1>3, MapStarts DEF DeclareInv

\* Every step, when the host calls the Python binding from one thread only.
LEMMA DeclareStep ==
    ASSUME "python" \notin ManyThreads
    PROVE  DeclareInv /\ [LoadingNext]_loadingVars => DeclareInv'
<1> SUFFICES ASSUME DeclareInv, [LoadingNext]_loadingVars PROVE DeclareInv'
  OBVIOUS
<1>0. MapInv /\ TypesInv /\ MapInv'
  BY MapStep DEF DeclareInv
<1>1. ASSUME NEW t \in Threads, ThreadStep(t) PROVE TypesInv'
  <2>1. CASE LoadFails(t)
    <3>1. Idle.pc # "use"
      BY DEF Idle
    <3> QED
      BY <1>0, <2>1, <3>1, LoadFailsIsQuiet, QuietTypes
  <2>2. CASE PythonGet(t)
    BY <1>0, <2>2, PythonGetIsQuiet, GetsTypes
  <2>3. CASE PythonLoad(t)
    BY <1>0, <2>3, PythonLoadKeepsTypes
  <2>4. CASE PythonDeclare(t)
    BY <1>0, <2>4, DeclareKeepsTypes
  <2>5. CASE PythonReturn(t)
    <3>1. Declared(cached)
      BY <1>0, <2>5, PythonReturnIsQuiet, DeclaredAtLast
    <3>2. PICK x : Quiet(t, x) /\ (x.pc = "use" => x.obj = cached)
      BY <1>0, <2>5, PythonReturnIsQuiet DEF Gets
    <3>3. thread[t].pc # "idle" /\ (x.pc = "use" => Declared(x.obj))
      BY <1>0, <2>5, <3>1, <3>2, PythonReturnIsQuiet
    <3> QED
      BY <1>0, <3>1, <3>2, <3>3, QuietTypes
  <2>6. CASE NodeGet(t)
    BY <1>0, <2>6, NodeGetIsQuiet, GetsTypes
  <2>7. CASE NodeLoad(t)
    <3>0. PICK declared \in SUBSET Functions : \E x :
              /\ NewObject(declared) /\ Functions \ {"rpc"} \subseteq declared
              /\ Moves(t, x) /\ (x = Idle \/ x \in Busy)
              /\ x.pc # "declare" /\ (x.pc = "use" => x.obj = Len(typed'))
              /\ cached' = Len(typed') \/ cached' = cached
      BY <1>0, <2>7, NodeLoads
    <3>1. PICK x :
              /\ NewObject(declared) /\ Functions \ {"rpc"} \subseteq declared
              /\ Moves(t, x) /\ (x = Idle \/ x \in Busy)
              /\ x.pc # "declare" /\ (x.pc = "use" => x.obj = Len(typed'))
              /\ cached' = Len(typed') \/ cached' = cached
      BY <3>0
    <3>2. lang # "python" /\ Rest
      BY <1>0, <2>7, NodeLoads
    <3> QED
      BY <1>0, <3>1, <3>2, LoadKeepsTypes
  <2>8. CASE JavaGet(t)
    BY <1>0, <2>8, JavaGetIsQuiet, GetsTypes
  <2>9. CASE JavaLoad(t)
    <3>1. Functions \in SUBSET Functions /\ Functions \ {"rpc"} \subseteq Functions
      OBVIOUS
    <3>2. PICK x \in Busy : Moves(t, x) /\ x.pc = "use" /\ x.obj = Len(typed')
      BY <1>0, <2>9, JavaLoads
    <3>3. NewObject(Functions) /\ cached' = Len(typed') /\ Rest /\ lang # "python"
      BY <1>0, <2>9, JavaLoads
    <3> QED
      BY <1>0, <3>1, <3>2, <3>3, LoadKeepsTypes
  <2>10. CASE Use(t)
    <3>1. PICK x : Quiet(t, x) /\ (x.pc = "use" => x.obj = thread[t].obj)
      BY <1>0, <2>10, UseIsQuiet
    <3>2. thread[t].pc = "use" /\ Declared(thread[t].obj)
      BY <1>0, <2>10, UseIsQuiet DEF TypesInv
    <3> QED
      BY <1>0, <3>1, <3>2, QuietTypes
  <2>11. CASE Return(t)
    <3>1. Idle.pc # "use"
      BY DEF Idle
    <3> QED
      BY <1>0, <2>11, <3>1, ReturnIsQuiet, QuietTypes
  <2> QED
    BY <1>1, <2>1, <2>2, <2>3, <2>4, <2>5, <2>6, <2>7, <2>8, <2>9, <2>10, <2>11 DEF ThreadStep
<1>2. ASSUME NEW t \in Threads, NEW api \in Apis, Call(t, api) PROVE TypesInv'
  <2>1. PICK x : Quiet(t, x) /\ x.pc = "get"
    BY <1>0, <1>2, CallIsQuiet
  <2>2. thread[t] = Idle /\ (lang = "python" => \A u \in Threads : thread[u] = Idle)
    BY <1>0, <1>2, CallIsQuiet
  <2>3. thread[t].pc # "declare"
    BY <2>2 DEF Idle
  <2> QED
    BY <1>0, <2>1, <2>2, <2>3, QuietKeepsTypes DEF Quiet
<1>3. ASSUME NEW o \in 1 .. Len(typed), Collect(o) PROVE TypesInv'
  BY <1>0, <1>3, CollectKeepsTypes
<1>4. ASSUME UNCHANGED loadingVars PROVE TypesInv'
  <2>1. UNCHANGED <<lang, cached, typed, thread>>
    BY <1>4 DEF loadingVars, objVars
  <2> QED
    BY <1>0, <2>1 DEF TypesInv, AloneInPython, Declared, Declaring
<1>5. TypesInv'
  BY <1>1, <1>2, <1>3, <1>4 DEF LoadingNext, Apis
<1> QED
  BY <1>0, <1>5 DEF DeclareInv

\* A function that relies on its declared types is never called before they
\* are: in Node and Java because an object is kept only when it is complete,
\* in Python because nobody else looks at _lib while _get_lib declares, and
\* because spicedb_rpc, which an old library does not have, comes last.
THEOREM TypesFirst ==
    ASSUME "python" \notin ManyThreads
    PROVE  LoadingSpec => []CallsAreTyped
<1>1. DeclareInv => CallsAreTyped
  <2>1. SUFFICES ASSUME DeclareInv, NEW t \in Threads, thread[t].pc = "use", thread[t].todo # <<>>,
                        NeedsTypes(thread[t].api, Head(thread[t].todo))
                 PROVE  Head(thread[t].todo) \in typed[thread[t].obj]
    BY DEF CallsAreTyped
  <2>2. thread[t] \in Busy /\ Declared(thread[t].obj)
    BY <2>1, AtWork DEF DeclareInv, MapInv, TypesInv
  <2>3. thread[t].todo \in Seq(Functions)
    BY <2>2 DEF Busy
  <2>4. Head(thread[t].todo) \in Functions
    BY <2>1, <2>3
  <2>5. Head(thread[t].todo) # "rpc"
    BY <2>1 DEF NeedsTypes
  <2> QED
    BY <2>2, <2>4, <2>5 DEF Declared
<1> QED
  BY <1>1, DeclareStarts, DeclareStep, PTL DEF LoadingSpec
=============================================================================
