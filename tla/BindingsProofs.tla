--------------------------- MODULE BindingsProofs ---------------------------
(***************************************************************************)
(* Proofs about the language bindings, for any number of threads and of    *)
(* objects.                                                                *)
(*                                                                         *)
(* What a thread will still do is the rest of a program, so the invariant  *)
(* says of the rest what the state promises about it: a dispose that is    *)
(* still to come finds the handle open, a close that is past it has closed *)
(* the handle or has been refused.  Form collects what holds of every rest *)
(* of every program; the remaining parts are about threads and objects.    *)
(***************************************************************************)
EXTENDS Bindings, Naturals, SequenceTheorems, TLAPS

Methods == PermissionMethods \cup SchemaMethods
FfiSteps == Methods \cup {"spicedb_start", "spicedb_dispose"}
Steps == FfiSteps \cup {"free", "raise", "openChannel", "tryChannel", "closeChannel",
                        "checkFlag", "setFlag"}

Languages == {"rust", "node", "python", "java", "csharp"}

\* x is still to come in s.
Has(s, x) == \E i \in 1 .. Len(s) : s[i] = x

\* The channel is still to be opened in s.
Opens == {"openChannel", "tryChannel"}
Opening(s) == \E x \in Opens : Has(s, x)

\* The steps an operation of a language consists of.
StepsOf(l, op) ==
    CASE op = "start" -> Methods \cup {"spicedb_start", "free", "raise"} \cup
                         (CASE l = "rust" -> {}
                            [] l \in {"node", "python"} -> {"openChannel"}
                            [] OTHER -> {"tryChannel"})
      [] op = "call" -> Methods \cup {"free", "raise"}
      [] OTHER -> {"spicedb_dispose", "free", "raise"} \cup
                  (IF l = "rust" THEN {} ELSE {"closeChannel"}) \cup
                  (IF l \in {"node", "csharp"} THEN {"checkFlag", "setFlag"} ELSE {})

\* The rest of a program: what follows which step ...
Followed(l, op, s, i) ==
    /\ s[i] \in {"spicedb_start", "spicedb_dispose"} => i < Len(s) /\ s[i + 1] = "free"
    /\ s[i] \in Methods =>
           IF l = "node" THEN i + 2 <= Len(s) /\ s[i + 1] = "raise" /\ s[i + 2] = "free"
           ELSE i + 2 <= Len(s) /\ s[i + 1] = "free" /\ s[i + 2] = "raise"
    /\ s[i] = "spicedb_start" \/ (op = "close" /\ l \in {"node", "python", "csharp"}
                                  /\ s[i] = "spicedb_dispose") =>
           i + 2 <= Len(s) /\ s[i + 2] = "raise"
    /\ s[i] = "tryChannel" => i < Len(s) /\ s[i + 1] = "raise"
    /\ s[i] \in {"spicedb_start", "checkFlag"} => i = 1
    /\ s[i] = "checkFlag" => Has(s, "spicedb_dispose") /\ Has(s, "setFlag")
    /\ s[i] = "setFlag" /\ l = "csharp" => i = Len(s)

\* ... and which step comes before which.
Ordered(l, op, s, i, j) ==
    /\ s[i] = "spicedb_dispose" /\ s[j] = "spicedb_dispose" => i = j
    /\ s[i] = "setFlag" /\ s[j] = "setFlag" => i = j
    /\ s[i] = "spicedb_dispose" /\ s[j] = "raise" => i < j
    /\ s[i] = "setFlag" /\ s[j] = "spicedb_dispose" => l = "csharp" \/ i < j
    /\ op = "start" /\ s[i] = "WriteSchema" /\ s[j] = "WriteRelationships" => i < j
    /\ s[i] \in Opens /\ s[j] \in Methods => i < j
    /\ s[i] \in Opens /\ s[j] \in Opens => i = j

Form(l, op, s) ==
    /\ s \in Seq(Steps)
    /\ \A i \in 1 .. Len(s) : s[i] \in StepsOf(l, op) /\ Followed(l, op, s, i)
    /\ \A i, j \in 1 .. Len(s) : Ordered(l, op, s, i, j)

-----------------------------------------------------------------------------
Objects ==
    [stage : {"new", "starting", "failed", "ready", "dropped"}, want : Wanted,
     handle : {"none", "open", "closing", "closed"}, channel : {"none", "open", "closed"},
     flag : {"clear", "set"}, written : SUBSET {"WriteSchema", "WriteRelationships"},
     closes : SUBSET {"ok", "error"},
     unhandled : {"none", "answer", "channel", "request"}]

Frames ==
    [op : {"none", "start", "rescue", "call", "close"}, obj : Db \cup {"none"},
     todo : Seq(Steps), answer : {"ok", "error", "wait", "rejected"},
     buf : {"none", "json", "error", "response"}]

Types ==
    /\ lang \in [Db -> Languages]
    /\ db \in [Db -> Objects]
    /\ frame \in [Thread -> Frames]
    /\ leaked \in [Db -> SUBSET {"json", "error", "response"}]
    /\ \A t \in Thread : IF frame[t].op = "none" THEN frame[t] = Idle ELSE frame[t].obj \in Db

On(t, d) == frame[t].op # "none" /\ frame[t].obj = d

\* An error is raised before anything else is done.
RaiseAhead(s) ==
    \/ Len(s) >= 1 /\ s[1] = "raise"
    \/ Len(s) >= 2 /\ s[1] = "free" /\ s[2] = "raise"

FreeNext(s) == Len(s) >= 1 /\ s[1] = "free"
RaiseThenFree(s) == Len(s) >= 2 /\ s[1] = "raise" /\ s[2] = "free"

\* A buffer in a thread's hands is freed next; only in Node may an error be
\* raised before that.
BufferHeld(l, f) ==
    /\ f.answer = "wait" => f.buf = "none" /\ FreeNext(f.todo)
    /\ f.buf = "json" => FreeNext(f.todo)
    /\ f.buf \in {"response", "error"} =>
           \/ FreeNext(f.todo)
           \/ /\ l = "node" /\ RaiseThenFree(f.todo)
              /\ f.buf = "response" => f.answer = "ok"

\* What a start whose exception met no handler leaves, by the step that raised it.
Remains(l, o) ==
    /\ o.handle = "open"
    /\ o.unhandled \in {"answer", "channel"} => o.channel = "none"
    /\ o.unhandled = "channel" => l # "rust"
    /\ o.unhandled = "request" => l = "java" /\ o.channel = "open"

\* What an object is like while a thread starts it ...
StartFine(l, o, f) ==
    LET s == f.todo IN
    /\ o.flag = "clear" /\ o.closes = {} /\ f.answer # "wait" /\ o.handle \in {"none", "open"}
    /\ o.channel # "closed" /\ o.unhandled = "none"
    /\ Has(s, "spicedb_start") => o.handle = "none" /\ f.answer = "ok"
    /\ ~Has(s, "spicedb_start") /\ f.answer = "ok" => o.handle = "open"
    /\ f.answer \in {"error", "rejected"} => RaiseAhead(s)
    /\ f.answer = "rejected" => o.handle = "open" /\ o.channel = "none"
    /\ o.channel = "open" => o.handle = "open"
    /\ Opening(s) => o.channel = "none"
    /\ l \in {"java", "csharp"} /\ ~Opening(s) /\ f.answer = "ok" => o.channel = "open"
    /\ l \in {"node", "python"} =>
           IF Has(s, "openChannel") THEN f.answer = "error" => o.handle = "none"
           ELSE o.channel = "open"
    /\ o.want.schema =>
           /\ "WriteSchema" \in o.written \/ Has(s, "WriteSchema") \/ f.answer = "error"
           /\ o.want.rels =>
                  "WriteRelationships" \in o.written \/ Has(s, "WriteRelationships") \/ f.answer = "error"

\* ... cleans up after a start that raised ...
RescueFine(l, o, f) ==
    LET s == f.todo IN
    /\ o.closes = {} /\ f.answer # "error"
    /\ Has(s, "spicedb_dispose") => o.handle = "open" /\ f.answer = "ok"
    /\ f.answer = "wait" => o.handle = "closing"
    /\ o.unhandled = "none" =>
           /\ ~Has(s, "spicedb_dispose") /\ f.answer = "ok" => o.handle \in {"none", "closed"}
           /\ ~Has(s, "closeChannel") => o.channel # "open"
    /\ o.unhandled # "none" => s = <<>> /\ f.answer = "ok" /\ Remains(l, o)
    /\ Has(s, "checkFlag") => o.flag = "clear"

\* A Node object that no close is at work on.
NodeObject(o) ==
    /\ o.flag = "clear" => o.handle = "open"
    /\ o.flag = "set" => o.handle = "closed" /\ o.channel # "open"

\* ... and closes it.
CloseFine(l, o, f) ==
    LET s == f.todo IN
    /\ f.answer = "wait" => o.handle = "closing" /\ ~Has(s, "spicedb_dispose")
    /\ ~Has(s, "spicedb_dispose") => o.handle # "open"
    /\ ~Has(s, "spicedb_dispose") /\ f.answer = "ok" => o.handle = "closed"
    /\ f.answer = "error" => /\ ~Has(s, "spicedb_dispose") /\ l \notin {"rust", "node"}
                             /\ l # "java" => RaiseAhead(s)
    /\ ~Has(s, "closeChannel") => o.channel # "open"
    /\ l = "rust" /\ Has(s, "spicedb_dispose") => o.handle = "open"
    /\ l = "node" =>
           IF Has(s, "setFlag")
           THEN NodeObject(o) /\ (~Has(s, "checkFlag") => o.flag = "clear")
           ELSE o.flag = "set" /\ (Has(s, "spicedb_dispose") => o.handle = "open")

ThreadFine(l, o, f) ==
    /\ Form(l, f.op, f.todo)
    /\ BufferHeld(l, f)
    /\ f.op \in {"start", "rescue"} <=> o.stage = "starting"
    /\ o.stage \notin {"new", "failed"}
    /\ f.op # "start" => f.answer # "rejected"
    /\ f.op = "start" => StartFine(l, o, f)
    /\ f.op = "rescue" => RescueFine(l, o, f)
    /\ f.op = "call" => f.answer # "wait"
    /\ f.op = "close" => CloseFine(l, o, f) /\ (l = "rust" => o.stage = "dropped")

\* What holds of an object whoever works on it.
ObjectFine(l, o) ==
    /\ o.stage \in {"ready", "dropped"} => o.handle # "none"
    /\ l = "rust" => o.channel = "none"
    /\ l = "rust" /\ o.stage = "ready" => o.handle = "open"
    /\ o.stage = "dropped" => l = "rust"
    /\ o.closes # {} => o.stage \in {"ready", "dropped"} /\ o.handle # "open"
    /\ l = "csharp" /\ o.stage = "ready" /\ o.flag = "set" =>
           o.handle = "closed" /\ o.channel # "open"
    /\ l # "java" /\ "ok" \in o.closes => o.handle = "closed" /\ o.channel # "open"
    /\ o.stage = "failed" =>
           IF o.unhandled = "none" THEN o.handle \in {"none", "closed"} /\ o.channel # "open"
           ELSE Remains(l, o)
    /\ o.want.schema =>
           /\ o.stage \in {"ready", "dropped"} =>
                  /\ "WriteSchema" \in o.written
                  /\ o.want.rels => "WriteRelationships" \in o.written
           /\ "WriteRelationships" \in o.written => "WriteSchema" \in o.written

\* The thread that has disposed of d will close the channel too.
WillClose(f) ==
    /\ f.op \in {"close", "rescue"} /\ f.answer # "error"
    /\ ~Has(f.todo, "spicedb_dispose") /\ Has(f.todo, "closeChannel")

Closer(t, d) == On(t, d) /\ WillClose(frame[t])

\* Who may be at work on an object at the same time.
AloneAt(d) ==
    \A t, u \in Thread : On(t, d) /\ On(u, d) /\ t # u =>
        /\ db[d].stage # "starting"
        /\ lang[d] # "node"
        /\ lang[d] = "rust" => frame[t].op # "close" \/ frame[u].op # "close"
        /\ frame[t].answer # "wait" \/ frame[u].answer # "wait"

\* Somebody brings a close that has begun to its end.
Nobody(d) == \A t \in Thread : ~On(t, d)
Waits(d) == \E t \in Thread : On(t, d) /\ frame[t].answer = "wait"
Closing(d) == \E t \in Thread : Closer(t, d)
NodeCloses(d) ==
    \E t \in Thread : On(t, d) /\ frame[t].op = "close" /\ ~Has(frame[t].todo, "setFlag")

EndingAt(d) ==
    /\ db[d].stage \in {"new", "failed"} => Nobody(d)
    /\ db[d].handle = "closing" => Waits(d)
    /\ db[d].channel = "open" /\ db[d].handle \in {"closing", "closed"} => Closing(d)
    /\ lang[d] = "node" /\ db[d].stage = "ready" => NodeObject(db[d]) \/ NodeCloses(d)

BindInv ==
    /\ Types
    /\ \A d \in Db : ObjectFine(lang[d], db[d])
    /\ \A t \in Thread, d \in Db : On(t, d) => ThreadFine(lang[d], db[d], frame[t])
    /\ \A d \in Db : AloneAt(d) /\ EndingAt(d)
    /\ OnlyNodeErrorsLost

-----------------------------------------------------------------------------
\* The rests of programs.

LEMMA TailFacts ==
    ASSUME NEW s \in Seq(Steps), s # <<>>
    PROVE  /\ Tail(s) \in Seq(Steps) /\ Len(s) \in Nat /\ Len(s) >= 1
           /\ Len(Tail(s)) = Len(s) - 1 /\ Head(s) = s[1]
           /\ \A i \in 1 .. Len(Tail(s)) : Tail(s)[i] = s[i + 1] /\ i + 1 \in 1 .. Len(s)
OBVIOUS

LEMMA HasTail ==
    ASSUME NEW s \in Seq(Steps), s # <<>>, NEW x
    PROVE  Has(s, x) <=> Head(s) = x \/ Has(Tail(s), x)
<1>1. ASSUME Has(s, x), Head(s) # x PROVE Has(Tail(s), x)
  <2>1. PICK i \in 1 .. Len(s) : s[i] = x
    BY <1>1 DEF Has
  <2>2. i - 1 \in 1 .. Len(Tail(s)) /\ Tail(s)[i - 1] = x
    BY <1>1, <2>1
  <2> QED BY <2>2 DEF Has
<1>2. Head(s) = x => Has(s, x)
  BY TailFacts DEF Has
<1>3. Has(Tail(s), x) => Has(s, x)
  BY TailFacts DEF Has
<1> QED BY <1>1, <1>2, <1>3

LEMMA HasEmpty == \A x : ~Has(<<>>, x)
BY DEF Has

LEMMA FormTail ==
    ASSUME NEW l, NEW op, NEW s, Form(l, op, s), s # <<>>
    PROVE  Form(l, op, Tail(s))
<1> DEFINE u == Tail(s)
<1>0. s \in Seq(Steps)
  BY DEF Form
<1>1. /\ u \in Seq(Steps) /\ Len(s) \in Nat /\ Len(s) >= 1 /\ Len(u) = Len(s) - 1
      /\ \A i \in 1 .. Len(u) : u[i] = s[i + 1] /\ i + 1 \in 1 .. Len(s)
  BY <1>0, TailFacts
<1> HIDE DEF u
<1>2. ASSUME NEW i \in 1 .. Len(u) PROVE u[i] \in StepsOf(l, op) /\ Followed(l, op, u, i)
  <2>1. s[i + 1] \in StepsOf(l, op) /\ Followed(l, op, s, i + 1)
    BY <1>1 DEF Form
  <2>2. i \in Nat /\ i >= 1 /\ i <= Len(u) /\ u[i] = s[i + 1]
    BY <1>1
  <2>3. i < Len(u) => u[i + 1] = s[(i + 1) + 1]
    BY <1>1, <2>2
  <2>4. i + 2 <= Len(u) => u[i + 2] = s[(i + 1) + 2]
    BY <1>1, <2>2
  <2>5. u[i] \notin {"spicedb_start", "checkFlag"}
    BY <2>1, <2>2 DEF Followed
  <2>6. u[i] \in {"spicedb_start", "spicedb_dispose"} => i < Len(u) /\ u[i + 1] = "free"
    BY <1>1, <2>1, <2>2, <2>3 DEF Followed
  <2>7. u[i] \in Methods =>
           IF l = "node" THEN i + 2 <= Len(u) /\ u[i + 1] = "raise" /\ u[i + 2] = "free"
           ELSE i + 2 <= Len(u) /\ u[i + 1] = "free" /\ u[i + 2] = "raise"
    BY <1>1, <2>1, <2>2, <2>3, <2>4 DEF Followed
  <2>8. op = "close" /\ l \in {"node", "python", "csharp"} /\ u[i] = "spicedb_dispose" =>
           i + 2 <= Len(u) /\ u[i + 2] = "raise"
    BY <1>1, <2>1, <2>2, <2>4 DEF Followed
  <2>9. u[i] = "tryChannel" => i < Len(u) /\ u[i + 1] = "raise"
    BY <1>1, <2>1, <2>2, <2>3 DEF Followed
  <2>10. u[i] = "setFlag" /\ l = "csharp" => i = Len(u)
    BY <1>1, <2>1, <2>2 DEF Followed
  <2> QED BY <2>1, <2>2, <2>5, <2>6, <2>7, <2>8, <2>9, <2>10 DEF Followed
<1>3. ASSUME NEW i \in 1 .. Len(u), NEW j \in 1 .. Len(u) PROVE Ordered(l, op, u, i, j)
  <2>1. Ordered(l, op, s, i + 1, j + 1)
    BY <1>1 DEF Form
  <2>2. i \in Nat /\ j \in Nat /\ u[i] = s[i + 1] /\ u[j] = s[j + 1]
    BY <1>1
  <2> QED BY <2>1, <2>2 DEF Ordered
<1> QED BY <1>1, <1>2, <1>3 DEF Form, u

\* What Form says of the next step, u being the rest after it.
LEMMA FormHead ==
    ASSUME NEW l, NEW op, NEW s, Form(l, op, s), s # <<>>, NEW u, u = Tail(s)
    PROVE  /\ s[1] \in StepsOf(l, op) /\ Head(s) = s[1]
           /\ s[1] \in {"spicedb_start", "spicedb_dispose"} => FreeNext(u)
           /\ s[1] \in Methods =>
                  /\ IF l = "node" THEN RaiseThenFree(u) ELSE FreeNext(u)
                  /\ RaiseAhead(u) /\ ~Opening(s)
           /\ s[1] \in Opens => ~Opening(u)
           /\ s[1] = "spicedb_start" => RaiseAhead(u) /\ ~Has(u, "spicedb_start")
           /\ s[1] = "spicedb_dispose" =>
                  /\ ~Has(u, "spicedb_dispose")
                  /\ op = "close" /\ l \in {"node", "python", "csharp"} => RaiseAhead(u)
                  /\ Has(s, "setFlag") => l = "csharp"
           /\ s[1] = "tryChannel" => RaiseAhead(u)
           /\ Has(s, "spicedb_start") => s[1] = "spicedb_start"
           /\ Has(s, "checkFlag") => s[1] = "checkFlag"
           /\ s[1] = "checkFlag" =>
                  Has(s, "spicedb_dispose") /\ Has(s, "setFlag") /\ ~Has(u, "checkFlag")
           /\ s[1] = "raise" => ~Has(s, "spicedb_dispose")
           /\ s[1] = "setFlag" => ~Has(u, "setFlag")
           /\ s[1] = "setFlag" /\ l = "csharp" => u = <<>>
           /\ op = "start" /\ s[1] = "WriteRelationships" => ~Has(s, "WriteSchema")
<1>1. /\ s \in Seq(Steps) /\ u \in Seq(Steps) /\ Len(s) \in Nat /\ Len(s) >= 1
      /\ Len(u) = Len(s) - 1 /\ Head(s) = s[1]
      /\ \A i \in 1 .. Len(u) : u[i] = s[i + 1] /\ i + 1 \in 1 .. Len(s)
  BY TailFacts DEF Form
<1>2. s[1] \in StepsOf(l, op) /\ Followed(l, op, s, 1)
  BY <1>1 DEF Form
<1>3. \A j \in 1 .. Len(s) : Ordered(l, op, s, 1, j) /\ Ordered(l, op, s, j, 1)
  BY <1>1 DEF Form
<1>4. (Len(u) >= 1 => u[1] = s[2]) /\ (Len(u) >= 2 => u[2] = s[3])
  BY <1>1
<1>5. \A x : Has(u, x) => \E j \in 1 .. Len(s) : j # 1 /\ s[j] = x
  <2> TAKE x
  <2> HAVE Has(u, x)
  <2>1. PICK i \in 1 .. Len(u) : u[i] = x
    BY DEF Has
  <2>2. i + 1 \in 1 .. Len(s) /\ s[i + 1] = x /\ i + 1 # 1
    BY <1>1, <2>1
  <2> QED BY <2>2
<1>6. \A j \in 1 .. Len(s) : Followed(l, op, s, j)
  BY DEF Form
<1>7. \A x : Has(s, x) <=> \E j \in 1 .. Len(s) : s[j] = x
  BY DEF Has
<1>8. s[1] \in {"spicedb_start", "spicedb_dispose"} => FreeNext(u)
  BY <1>1, <1>2, <1>4 DEF Followed, FreeNext
<1>9. s[1] \in Methods => /\ IF l = "node" THEN RaiseThenFree(u) ELSE FreeNext(u)
                          /\ RaiseAhead(u)
  BY <1>1, <1>2, <1>4 DEF Followed, FreeNext, RaiseThenFree, RaiseAhead
<1>10. s[1] \in Methods => ~Opening(s)
  BY <1>1, <1>3, <1>7 DEF Ordered, Opening
<1>20. s[1] \in Opens => ~Opening(u)
  BY <1>3, <1>5 DEF Ordered, Opening
<1>11. s[1] = "spicedb_start" => RaiseAhead(u)
  BY <1>1, <1>2, <1>4 DEF Followed, RaiseAhead
<1>12. s[1] = "spicedb_dispose" /\ op = "close" /\ l \in {"node", "python", "csharp"} => RaiseAhead(u)
  BY <1>1, <1>2, <1>4 DEF Followed, RaiseAhead
<1>13. s[1] = "spicedb_dispose" => ~Has(u, "spicedb_dispose") /\ (Has(s, "setFlag") => l = "csharp")
  BY <1>1, <1>3, <1>5, <1>7 DEF Ordered
<1>14. s[1] = "tryChannel" => RaiseAhead(u)
  BY <1>1, <1>2, <1>4 DEF Followed, RaiseAhead
<1>15. /\ Has(s, "spicedb_start") => s[1] = "spicedb_start"
       /\ Has(s, "checkFlag") => s[1] = "checkFlag"
       /\ s[1] = "spicedb_start" => ~Has(u, "spicedb_start")
       /\ s[1] = "checkFlag" =>
              Has(s, "spicedb_dispose") /\ Has(s, "setFlag") /\ ~Has(u, "checkFlag")
  <2>1. \A j \in 1 .. Len(s) : s[j] \in {"spicedb_start", "checkFlag"} => j = 1
    BY <1>6 DEF Followed
  <2>2. s[1] = "checkFlag" => Has(s, "spicedb_dispose") /\ Has(s, "setFlag")
    BY <1>2 DEF Followed
  <2>3. ~Has(u, "spicedb_start") /\ ~Has(u, "checkFlag")
    BY <1>5, <2>1
  <2> QED BY <1>7, <2>1, <2>2, <2>3
<1>16. s[1] = "raise" => ~Has(s, "spicedb_dispose")
  BY <1>1, <1>3, <1>7 DEF Ordered
<1>17. s[1] = "setFlag" /\ l = "csharp" => u = <<>>
  BY <1>1, <1>2 DEF Followed
<1>18. op = "start" /\ s[1] = "WriteRelationships" => ~Has(s, "WriteSchema")
  BY <1>1, <1>3, <1>7 DEF Ordered
<1>19. s[1] = "setFlag" => ~Has(u, "setFlag")
  BY <1>1, <1>3, <1>5 DEF Ordered
<1> QED BY <1>1, <1>2, <1>8, <1>9, <1>10, <1>11, <1>12, <1>13, <1>14, <1>15, <1>16, <1>17, <1>18, <1>19, <1>20

-----------------------------------------------------------------------------
\* The programs.

LEMMA StepNames ==
    /\ "spicedb_start" \in Steps /\ "spicedb_dispose" \in Steps /\ "free" \in Steps
    /\ "raise" \in Steps /\ "openChannel" \in Steps /\ "tryChannel" \in Steps
    /\ "closeChannel" \in Steps /\ "checkFlag" \in Steps /\ "setFlag" \in Steps
    /\ Methods \subseteq Steps
    /\ {"WriteSchema", "WriteRelationships"} \subseteq Methods
    /\ Methods \cap {"spicedb_start", "spicedb_dispose", "free", "raise", "openChannel",
                     "tryChannel", "closeChannel", "checkFlag", "setFlag"} = {}
BY DEF Steps, FfiSteps, Methods, PermissionMethods, SchemaMethods

LEMMA ConcatLen ==
    ASSUME NEW s \in Seq(Steps), NEW t \in Seq(Steps)
    PROVE  s \o t \in Seq(Steps) /\ Len(s \o t) = Len(s) + Len(t)
OBVIOUS

LEMMA ConcatFacts ==
    ASSUME NEW s \in Seq(Steps), NEW t \in Seq(Steps)
    PROVE  /\ s \o t \in Seq(Steps) /\ Len(s) \in Nat /\ Len(t) \in Nat
           /\ Len(s \o t) = Len(s) + Len(t)
           /\ \A i \in 1 .. Len(s) : i \in 1 .. Len(s \o t) /\ (s \o t)[i] = s[i]
           /\ \A i \in 1 .. Len(t) : Len(s) + i \in 1 .. Len(s \o t) /\ (s \o t)[Len(s) + i] = t[i]
           /\ \A i \in 1 .. Len(s \o t) : i \in 1 .. Len(s) \/ \E j \in 1 .. Len(t) : i = Len(s) + j
<1>1. /\ s \o t \in Seq(Steps) /\ Len(s) \in Nat /\ Len(t) \in Nat
      /\ Len(s \o t) = Len(s) + Len(t)
  OBVIOUS
<1>2. ASSUME NEW i \in 1 .. Len(s \o t), i \notin 1 .. Len(s)
      PROVE  \E j \in 1 .. Len(t) : i = Len(s) + j
  <2>1. i - Len(s) \in 1 .. Len(t) /\ i = Len(s) + (i - Len(s))
    BY <1>1, <1>2
  <2> QED BY <2>1
<1>3. ASSUME NEW i \in 1 .. Len(t)
      PROVE  Len(s) + i \in 1 .. Len(s \o t) /\ (s \o t)[Len(s) + i] = t[i]
  OBVIOUS
<1>4. ASSUME NEW i \in 1 .. Len(s)
      PROVE  i \in 1 .. Len(s \o t) /\ (s \o t)[i] = s[i]
  OBVIOUS
<1> QED BY <1>1, <1>2, <1>3, <1>4

LEMMA HasConcat ==
    ASSUME NEW s \in Seq(Steps), NEW t \in Seq(Steps), NEW x
    PROVE  Has(s \o t, x) <=> Has(s, x) \/ Has(t, x)
<1>1. ASSUME Has(s \o t, x) PROVE Has(s, x) \/ Has(t, x)
  <2>1. PICK i \in 1 .. Len(s \o t) : (s \o t)[i] = x
    BY <1>1 DEF Has
  <2>2. CASE i \in 1 .. Len(s)
    BY <2>1, <2>2, ConcatFacts DEF Has
  <2>3. CASE \E j \in 1 .. Len(t) : i = Len(s) + j
    BY <2>1, <2>3, ConcatFacts DEF Has
  <2> QED BY <2>2, <2>3, ConcatFacts
<1>2. Has(s, x) => Has(s \o t, x)
  BY ConcatFacts DEF Has
<1>3. ASSUME Has(t, x) PROVE Has(s \o t, x)
  <2>1. PICK j \in 1 .. Len(t) : t[j] = x
    BY <1>3 DEF Has
  <2>2. Len(s) + j \in 1 .. Len(s \o t) /\ (s \o t)[Len(s) + j] = x
    BY <2>1, ConcatFacts
  <2> QED BY <2>2 DEF Has
<1> QED BY <1>1, <1>2, <1>3

\* A start goes on with a part that makes no second start, opens no second
\* channel and none after a request, and writes no schema after the relationships.
LEMMA FormConcat ==
    ASSUME NEW l, NEW s, NEW t, Form(l, "start", s), Form(l, "start", t),
           ~Has(t, "spicedb_start"),
           Opening(t) => ~Opening(s) /\ \A m \in Methods : ~Has(s, m),
           Has(t, "WriteSchema") => ~Has(s, "WriteRelationships")
    PROVE  Form(l, "start", s \o t)
<1> DEFINE u == s \o t
           n == Len(s)
<1>1. s \in Seq(Steps) /\ t \in Seq(Steps)
  BY DEF Form
<1>2. /\ u \in Seq(Steps) /\ n \in Nat /\ Len(t) \in Nat /\ Len(u) = n + Len(t)
      /\ \A i \in 1 .. n : i \in 1 .. Len(u) /\ u[i] = s[i]
      /\ \A i \in 1 .. Len(t) : n + i \in 1 .. Len(u) /\ u[n + i] = t[i]
      /\ \A i \in 1 .. Len(u) : i \in 1 .. n \/ \E j \in 1 .. Len(t) : i = n + j
  BY <1>1, ConcatFacts
<1> HIDE DEF u
<1>3. \A x \in {"spicedb_dispose", "checkFlag", "setFlag"} : x \notin StepsOf(l, "start")
  BY StepNames DEF StepsOf
<1>4. ASSUME NEW i \in 1 .. Len(u) PROVE u[i] \in StepsOf(l, "start") /\ Followed(l, "start", u, i)
  <2>1. CASE i \in 1 .. n
    <3>1. u[i] = s[i] /\ s[i] \in StepsOf(l, "start") /\ Followed(l, "start", s, i)
      BY <1>2, <2>1 DEF Form
    <3>2. (i < n => u[i + 1] = s[i + 1]) /\ (i + 2 <= n => u[i + 2] = s[i + 2])
      BY <1>2, <2>1
    <3> QED BY <1>2, <1>3, <2>1, <3>1, <3>2 DEF Followed
  <2>2. CASE \E j \in 1 .. Len(t) : i = n + j
    <3>1. PICK j \in 1 .. Len(t) : i = n + j
      BY <2>2
    <3>2. u[i] = t[j] /\ t[j] \in StepsOf(l, "start") /\ Followed(l, "start", t, j)
      BY <1>2, <3>1 DEF Form
    <3>3. (j < Len(t) => u[i + 1] = t[j + 1]) /\ (j + 2 <= Len(t) => u[i + 2] = t[j + 2])
      <4>1. i + 1 = n + (j + 1) /\ i + 2 = n + (j + 2)
        BY <1>2, <3>1
      <4>2. j < Len(t) => j + 1 \in 1 .. Len(t)
        BY <1>2
      <4>3. j + 2 <= Len(t) => j + 2 \in 1 .. Len(t)
        BY <1>2
      <4> QED BY <1>2, <4>1, <4>2, <4>3
    <3>4. t[j] \notin {"spicedb_start", "checkFlag", "setFlag", "spicedb_dispose"}
      BY <1>3, <3>2 DEF Has
    <3>5. j < Len(t) <=> i < Len(u)
      BY <1>2, <3>1
    <3>6. j + 2 <= Len(t) <=> i + 2 <= Len(u)
      BY <1>2, <3>1
    <3> QED BY <3>2, <3>3, <3>4, <3>5, <3>6 DEF Followed
  <2> QED BY <1>2, <2>1, <2>2
<1>5. ASSUME NEW i \in 1 .. Len(u), NEW j \in 1 .. Len(u) PROVE Ordered(l, "start", u, i, j)
  <2>0. \A k \in 1 .. Len(u) : u[k] \notin {"spicedb_dispose", "setFlag"}
    BY <1>3, <1>4
  <2>a. u[i] \notin {"spicedb_dispose", "setFlag"} /\ u[j] \notin {"spicedb_dispose", "setFlag"}
    BY <2>0
  <2> SUFFICES /\ u[i] = "WriteSchema" /\ u[j] = "WriteRelationships" => i < j
               /\ u[i] \in Opens /\ u[j] \in Methods => i < j
               /\ u[i] \in Opens /\ u[j] \in Opens => i = j
    BY <2>a DEF Ordered
  <2>1. CASE i \in 1 .. n /\ j \in 1 .. n
    <3>1. Ordered(l, "start", s, i, j)
      BY <2>1 DEF Form
    <3>2. u[i] = s[i] /\ u[j] = s[j]
      BY <1>2, <2>1
    <3> QED BY <3>1, <3>2 DEF Ordered
  <2>2. CASE i \in 1 .. n /\ \E k \in 1 .. Len(t) : j = n + k
    <3>1. i < j
      BY <1>2, <2>2
    <3>2. Has(s, u[i]) /\ Has(t, u[j])
      BY <1>2, <2>2 DEF Has
    <3> QED BY <3>1, <3>2 DEF Opening
  <2>3. CASE j \in 1 .. n /\ \E k \in 1 .. Len(t) : i = n + k
    <3>1. PICK k \in 1 .. Len(t) : i = n + k
      BY <2>3
    <3>2. u[i] = t[k] /\ u[j] = s[j]
      BY <1>2, <2>3, <3>1
    <3>3. Has(t, u[i]) /\ Has(s, u[j])
      BY <2>3, <3>1, <3>2 DEF Has
    <3> QED BY <3>3 DEF Opening
  <2>4. CASE (\E k \in 1 .. Len(t) : i = n + k) /\ (\E k \in 1 .. Len(t) : j = n + k)
    <3>1. PICK k \in 1 .. Len(t) : i = n + k
      BY <2>4
    <3>2. PICK m \in 1 .. Len(t) : j = n + m
      BY <2>4
    <3>3. Ordered(l, "start", t, k, m)
      BY DEF Form
    <3>4. u[i] = t[k] /\ u[j] = t[m]
      BY <1>2, <3>1, <3>2
    <3>5. (k < m => i < j) /\ (k = m => i = j)
      BY <1>2, <3>1, <3>2
    <3> QED BY <3>3, <3>4, <3>5 DEF Ordered
  <2> QED BY <1>2, <2>1, <2>2, <2>3, <2>4
<1> QED BY <1>2, <1>4, <1>5 DEF Form, u

LEMMA CallForm ==
    ASSUME NEW l \in Languages, NEW m \in Methods
    PROVE  /\ Form(l, "call", CallOf(l, m))
           /\ Form(l, "start", CallOf(l, m))
           /\ \A x : Has(CallOf(l, m), x) <=> x \in {m, "free", "raise"}
<1> DEFINE s == IF l = "node" THEN <<m, "raise", "free">> ELSE <<m, "free", "raise">>
<1>1. CallOf(l, m) = s
  BY DEF CallOf, RustCall, NodeCall, PythonCall, JavaCall, CSharpCall, Languages
<1>2. s \in Seq(Steps) /\ Len(s) = 3 /\ s[1] = m
  BY StepNames
<1>3. IF l = "node" THEN s[2] = "raise" /\ s[3] = "free" ELSE s[2] = "free" /\ s[3] = "raise"
  OBVIOUS
<1> HIDE DEF s
<1>4. \A x : Has(s, x) <=> x \in {m, "free", "raise"}
  BY <1>2, <1>3 DEF Has
<1>5. ASSUME NEW op \in {"call", "start"} PROVE Form(l, op, s)
  <2>1. \A i \in 1 .. Len(s) : s[i] \in StepsOf(l, op)
    BY <1>2, <1>3 DEF StepsOf
  <2>2. \A i \in 1 .. Len(s) : Followed(l, op, s, i)
    BY <1>2, <1>3, StepNames DEF Followed
  <2>3. \A i, j \in 1 .. Len(s) : Ordered(l, op, s, i, j)
    BY <1>2, <1>3, StepNames DEF Ordered, Opens
  <2> QED BY <1>2, <2>1, <2>2, <2>3 DEF Form
<1> QED BY <1>1, <1>4, <1>5

\* What a start does before the bootstrap ...
OpeningOf(l) ==
    CASE l = "rust" -> RustStart
      [] l = "node" -> NodeStart
      [] l = "python" -> PythonStart
      [] l = "java" -> JavaStart
      [] l = "csharp" -> CSharpStart

\* ... and the bootstrap.
BootstrapOf(l, w) ==
    CASE l = "rust" -> RustBootstrap(w)
      [] l = "node" -> NodeBootstrap(w)
      [] l = "python" -> PythonBootstrap(w)
      [] l = "java" -> JavaBootstrap(w)
      [] l = "csharp" -> CSharpBootstrap(w)

\* The short parts that starts are made of.
LEMMA PartForm ==
    ASSUME NEW l \in Languages
    PROVE  /\ Form(l, "start", <<>>)
           /\ Form(l, "start", <<"spicedb_start", "free", "raise">>)
           /\ \A x : Has(<<"spicedb_start", "free", "raise">>, x) <=>
                     x \in {"spicedb_start", "free", "raise"}
           /\ l \in {"node", "python"} => Form(l, "start", <<"openChannel">>)
           /\ l \in {"java", "csharp"} => Form(l, "start", <<"tryChannel", "raise">>)
<1>1. Form(l, "start", <<>>)
  BY DEF Form
<1>2. Form(l, "start", <<"spicedb_start", "free", "raise">>) /\
      \A x : Has(<<"spicedb_start", "free", "raise">>, x) <=> x \in {"spicedb_start", "free", "raise"}
  <2> DEFINE s == <<"spicedb_start", "free", "raise">>
  <2>1. s \in Seq(Steps) /\ Len(s) = 3 /\ s[1] = "spicedb_start" /\ s[2] = "free" /\ s[3] = "raise"
    BY StepNames
  <2> HIDE DEF s
  <2>2. \A i \in 1 .. Len(s) : s[i] \in StepsOf(l, "start")
    BY <2>1 DEF StepsOf
  <2>3. \A i \in 1 .. Len(s) : Followed(l, "start", s, i)
    BY <2>1, StepNames DEF Followed
  <2>4. \A i, j \in 1 .. Len(s) : Ordered(l, "start", s, i, j)
    BY <2>1, StepNames DEF Ordered, Opens
  <2>5. \A x : Has(s, x) <=> x \in {"spicedb_start", "free", "raise"}
    BY <2>1 DEF Has
  <2> QED BY <2>1, <2>2, <2>3, <2>4, <2>5 DEF Form, s
<1>3. l \in {"node", "python"} => Form(l, "start", <<"openChannel">>)
  <2> DEFINE s == <<"openChannel">>
  <2>1. s \in Seq(Steps) /\ Len(s) = 1 /\ s[1] = "openChannel"
    BY StepNames
  <2> HIDE DEF s
  <2> QED BY <2>1, StepNames DEF Form, Followed, Ordered, StepsOf, Opens, s
<1>4. l \in {"java", "csharp"} => Form(l, "start", <<"tryChannel", "raise">>)
  <2> DEFINE s == <<"tryChannel", "raise">>
  <2>1. s \in Seq(Steps) /\ Len(s) = 2 /\ s[1] = "tryChannel" /\ s[2] = "raise"
    BY StepNames
  <2> HIDE DEF s
  <2>2. l \in {"java", "csharp"} => \A i \in 1 .. Len(s) : s[i] \in StepsOf(l, "start")
    BY <2>1 DEF StepsOf
  <2>3. \A i \in 1 .. Len(s) : Followed(l, "start", s, i)
    BY <2>1, StepNames DEF Followed
  <2>4. \A i, j \in 1 .. Len(s) : Ordered(l, "start", s, i, j)
    BY <2>1, StepNames DEF Ordered, Opens
  <2> QED BY <2>1, <2>2, <2>3, <2>4 DEF Form, s
<1> QED BY <1>1, <1>2, <1>3, <1>4

LEMMA OpeningForm ==
    ASSUME NEW l \in Languages
    PROVE  /\ Form(l, "start", OpeningOf(l))
           /\ Has(OpeningOf(l), "spicedb_start")
           /\ l \in {"node", "python"} => Has(OpeningOf(l), "openChannel")
           /\ l \in {"java", "csharp"} => Has(OpeningOf(l), "tryChannel")
           /\ \A m \in Methods : ~Has(OpeningOf(l), m)
<1> DEFINE ffi == <<"spicedb_start", "free", "raise">>
<1>0. ffi \in Seq(Steps) /\ <<"openChannel">> \in Seq(Steps) /\ <<"tryChannel", "raise">> \in Seq(Steps)
  BY StepNames
<1>a. \A x : Has(<<"openChannel">>, x) <=> x = "openChannel"
  BY DEF Has
<1>b. \A x : Has(<<"tryChannel", "raise">>, x) <=> x \in {"tryChannel", "raise"}
  BY DEF Has
<1>c. Form(l, "start", ffi) /\ \A x : Has(ffi, x) <=> x \in {"spicedb_start", "free", "raise"}
  BY PartForm
<1> HIDE DEF ffi
<1>1. CASE l = "rust"
  <2>1. OpeningOf(l) = <<"spicedb_start", "free">> \o <<"raise">>
    BY <1>1 DEF OpeningOf, RustStart, RustFfiStart
  <2>2. <<"spicedb_start", "free">> \in Seq(Steps) /\ <<"raise">> \in Seq(Steps)
    BY StepNames
  <2>3. ffi = <<"spicedb_start", "free">> \o <<"raise">>
    <3> DEFINE s == <<"spicedb_start", "free">>
               t == <<"raise">>
               u == s \o t
    <3>1. Len(s) = 2 /\ s[1] = "spicedb_start" /\ s[2] = "free" /\ Len(t) = 1 /\ t[1] = "raise"
      OBVIOUS
    <3>2. s \in Seq(Steps) /\ t \in Seq(Steps)
      BY <2>2
    <3> HIDE DEF s, t
    <3>3. u \in Seq(Steps) /\ Len(u) = 3 /\ u[1] = "spicedb_start" /\ u[2] = "free" /\ u[3] = "raise"
      <4>1. 1 \in 1 .. Len(s) /\ 2 \in 1 .. Len(s) /\ 1 \in 1 .. Len(t) /\ Len(s) + 1 = 3
        BY <3>1
      <4>2. u[1] = s[1] /\ u[2] = s[2] /\ u[Len(s) + 1] = t[1]
        BY <3>2, <4>1, ConcatFacts
      <4>a. u \in Seq(Steps) /\ Len(u) = Len(s) + Len(t)
        BY <3>2, ConcatLen
      <4>3. u \in Seq(Steps) /\ Len(u) = 3
        BY <3>1, <4>a
      <4> HIDE DEF u
      <4> QED BY <3>1, <4>1, <4>2, <4>3
    <3> HIDE DEF u
    <3>4. Len(ffi) = 3 /\ ffi[1] = "spicedb_start" /\ ffi[2] = "free" /\ ffi[3] = "raise"
      BY DEF ffi
    <3>5. u = ffi
      BY <1>0, <3>3, <3>4, SeqEqual
    <3> QED BY <3>5 DEF u, s, t
  <2> QED BY <1>1, <1>c, <2>1, <2>3, StepNames
<1>2. CASE l \in {"node", "python"}
  <2>1. OpeningOf(l) = ffi \o <<"openChannel">>
    BY <1>2 DEF OpeningOf, NodeStart, PythonStart, NodeFfiStart, PythonFfiStart, ffi
  <2>2. Form(l, "start", <<"openChannel">>)
    BY <1>2, PartForm
  <2>3. Form(l, "start", ffi \o <<"openChannel">>)
    BY <1>a, <1>c, <2>2, StepNames, FormConcat DEF Opening, Opens
  <2>4. \A x : Has(ffi \o <<"openChannel">>, x) <=> x \in {"spicedb_start", "free", "raise", "openChannel"}
    BY <1>0, <1>a, <1>c, HasConcat
  <2> QED BY <1>2, <2>1, <2>3, <2>4, StepNames
<1>3. CASE l = "csharp"
  <2>1. OpeningOf(l) = ffi \o <<"tryChannel", "raise">>
    BY <1>3 DEF OpeningOf, CSharpStart, CSharpFfiStart, ffi
  <2>2. Form(l, "start", <<"tryChannel", "raise">>)
    BY <1>3, PartForm
  <2>3. Form(l, "start", ffi \o <<"tryChannel", "raise">>)
    BY <1>b, <1>c, <2>2, StepNames, FormConcat DEF Opening, Opens
  <2>4. \A x : Has(ffi \o <<"tryChannel", "raise">>, x) <=>
               x \in {"spicedb_start", "free", "raise", "tryChannel"}
    BY <1>0, <1>b, <1>c, HasConcat
  <2> QED BY <1>3, <2>1, <2>3, <2>4, StepNames
<1>4. CASE l = "java"
  <2> DEFINE s == <<"spicedb_start", "free", "raise", "tryChannel", "raise">>
  <2>1. OpeningOf(l) = s
    BY <1>4 DEF OpeningOf, JavaStart
  <2>2. /\ s \in Seq(Steps) /\ Len(s) = 5 /\ s[1] = "spicedb_start" /\ s[2] = "free"
        /\ s[3] = "raise" /\ s[4] = "tryChannel" /\ s[5] = "raise"
    BY StepNames
  <2> HIDE DEF s
  <2>3. \A i \in 1 .. Len(s) : s[i] \in StepsOf(l, "start")
    BY <1>4, <2>2 DEF StepsOf
  <2>4. \A i \in 1 .. Len(s) : Followed(l, "start", s, i)
    BY <2>2, StepNames DEF Followed
  <2>5. \A i, j \in 1 .. Len(s) : Ordered(l, "start", s, i, j)
    BY <2>2, StepNames DEF Ordered, Opens
  <2>6. \A x : Has(s, x) <=> x \in {"spicedb_start", "free", "raise", "tryChannel"}
    BY <2>2 DEF Has
  <2> QED BY <1>4, <2>1, <2>2, <2>3, <2>4, <2>5, <2>6, StepNames DEF Form
<1> QED BY <1>1, <1>2, <1>3, <1>4 DEF Languages

LEMMA BootstrapForm ==
    ASSUME NEW l \in Languages, NEW w \in Wanted
    PROVE  /\ Form(l, "start", BootstrapOf(l, w))
           /\ ~Has(BootstrapOf(l, w), "spicedb_start") /\ ~Opening(BootstrapOf(l, w))
           /\ w.schema => /\ Has(BootstrapOf(l, w), "WriteSchema")
                          /\ w.rels => Has(BootstrapOf(l, w), "WriteRelationships")
<1> DEFINE cs == CallOf(l, "WriteSchema")
           cr == CallOf(l, "WriteRelationships")
           schema == IF w.schema THEN cs ELSE <<>>
           rels == IF w.rels /\ (w.schema \/ l = "rust") THEN cr ELSE <<>>
<1>0. w.schema \in BOOLEAN /\ w.rels \in BOOLEAN
  BY DEF Wanted
<1>1. /\ Form(l, "start", cs) /\ \A x : Has(cs, x) <=> x \in {"WriteSchema", "free", "raise"}
      /\ Form(l, "start", cr) /\ \A x : Has(cr, x) <=> x \in {"WriteRelationships", "free", "raise"}
      /\ Form(l, "start", <<>>)
  BY CallForm, PartForm, StepNames
<1>2. cs \in Seq(Steps) /\ cr \in Seq(Steps) /\ <<>> \in Seq(Steps)
  BY <1>1 DEF Form
<1>3. BootstrapOf(l, w) = schema \o rels
  <2>1. <<>> \o <<>> = <<>> /\ cs \o <<>> = cs
    BY <1>2
  <2>2. CASE l = "rust"
    BY <2>2 DEF BootstrapOf, RustBootstrap, CallOf
  <2>3. CASE l # "rust"
    BY <1>0, <2>1, <2>3 DEF BootstrapOf, NodeBootstrap, PythonBootstrap, JavaBootstrap, CSharpBootstrap,
              SchemaThenRelationships, CallOf, Languages
  <2> QED BY <2>2, <2>3
<1> HIDE DEF cs, cr
<1>4. /\ Form(l, "start", schema) /\ Form(l, "start", rels)
      /\ \A x : Has(schema, x) => x \in {"WriteSchema", "free", "raise"}
      /\ \A x : Has(rels, x) => x \in {"WriteRelationships", "free", "raise"}
      /\ w.schema => Has(schema, "WriteSchema")
      /\ w.schema /\ w.rels => Has(rels, "WriteRelationships")
      /\ schema \in Seq(Steps) /\ rels \in Seq(Steps)
  BY <1>0, <1>1, <1>2, HasEmpty
<1> HIDE DEF schema, rels
<1>5. Form(l, "start", schema \o rels)
  <2>1. ~Has(rels, "spicedb_start") /\ ~Opening(rels) /\ ~Has(rels, "WriteSchema")
    BY <1>4 DEF Opening, Opens
  <2> QED BY <1>4, <2>1, FormConcat
<1>6. /\ ~Has(schema \o rels, "spicedb_start") /\ ~Opening(schema \o rels)
      /\ w.schema => Has(schema \o rels, "WriteSchema")
      /\ w.schema /\ w.rels => Has(schema \o rels, "WriteRelationships")
  BY <1>4, HasConcat DEF Opening, Opens
<1> QED BY <1>3, <1>5, <1>6

LEMMA StartForm ==
    ASSUME NEW l \in Languages, NEW w \in Wanted
    PROVE  /\ Form(l, "start", StartOf(l, w))
           /\ Has(StartOf(l, w), "spicedb_start")
           /\ l \in {"node", "python"} => Has(StartOf(l, w), "openChannel")
           /\ l \in {"java", "csharp"} => Has(StartOf(l, w), "tryChannel")
           /\ w.schema => /\ Has(StartOf(l, w), "WriteSchema")
                          /\ w.rels => Has(StartOf(l, w), "WriteRelationships")
<1>1. StartOf(l, w) = OpeningOf(l) \o BootstrapOf(l, w)
  BY DEF StartOf, OpeningOf, BootstrapOf, Languages
<1>2. OpeningOf(l) \in Seq(Steps) /\ BootstrapOf(l, w) \in Seq(Steps)
  BY OpeningForm, BootstrapForm DEF Form
<1>3. Form(l, "start", OpeningOf(l) \o BootstrapOf(l, w))
  BY OpeningForm, BootstrapForm, FormConcat, StepNames
<1>4. \A x : Has(StartOf(l, w), x) <=> Has(OpeningOf(l), x) \/ Has(BootstrapOf(l, w), x)
  BY <1>1, <1>2, HasConcat
<1> QED BY <1>1, <1>3, <1>4, OpeningForm, BootstrapForm

\* Two sequences put together, step by step.
LEMMA ThreeAndThree ==
    ASSUME NEW s \in Seq(Steps), NEW t \in Seq(Steps), Len(s) = 3, Len(t) = 3
    PROVE  /\ s \o t \in Seq(Steps) /\ Len(s \o t) = 6
           /\ (s \o t)[1] = s[1] /\ (s \o t)[2] = s[2] /\ (s \o t)[3] = s[3]
           /\ (s \o t)[4] = t[1] /\ (s \o t)[5] = t[2] /\ (s \o t)[6] = t[3]
<1>1. /\ 1 \in 1 .. Len(s) /\ 2 \in 1 .. Len(s) /\ 3 \in 1 .. Len(s)
      /\ 1 \in 1 .. Len(t) /\ 2 \in 1 .. Len(t) /\ 3 \in 1 .. Len(t)
      /\ Len(s) + 1 = 4 /\ Len(s) + 2 = 5 /\ Len(s) + 3 = 6
  OBVIOUS
<1>2. (s \o t)[Len(s) + 1] = t[1] /\ (s \o t)[Len(s) + 2] = t[2] /\ (s \o t)[Len(s) + 3] = t[3]
  BY <1>1, ConcatFacts
<1>3. (s \o t)[1] = s[1] /\ (s \o t)[2] = s[2] /\ (s \o t)[3] = s[3]
  BY <1>1, ConcatFacts
<1>a. s \o t \in Seq(Steps) /\ Len(s \o t) = Len(s) + Len(t)
  BY ConcatLen
<1>4. s \o t \in Seq(Steps) /\ Len(s \o t) = 6
  BY <1>1, <1>a
<1> QED BY <1>1, <1>2, <1>3, <1>4

LEMMA ThreeAndOne ==
    ASSUME NEW s \in Seq(Steps), NEW t \in Seq(Steps), Len(s) = 3, Len(t) = 1
    PROVE  /\ s \o t \in Seq(Steps) /\ Len(s \o t) = 4
           /\ (s \o t)[1] = s[1] /\ (s \o t)[2] = s[2] /\ (s \o t)[3] = s[3] /\ (s \o t)[4] = t[1]
<1>1. /\ 1 \in 1 .. Len(s) /\ 2 \in 1 .. Len(s) /\ 3 \in 1 .. Len(s) /\ 1 \in 1 .. Len(t)
      /\ Len(s) + 1 = 4
  OBVIOUS
<1>2. (s \o t)[Len(s) + 1] = t[1]
  BY <1>1, ConcatFacts
<1>3. (s \o t)[1] = s[1] /\ (s \o t)[2] = s[2] /\ (s \o t)[3] = s[3]
  BY <1>1, ConcatFacts
<1>a. s \o t \in Seq(Steps) /\ Len(s \o t) = Len(s) + Len(t)
  BY ConcatLen
<1>4. s \o t \in Seq(Steps) /\ Len(s \o t) = 4
  BY <1>1, <1>a
<1> QED BY <1>1, <1>2, <1>3, <1>4

LEMMA OneThreeTwo ==
    ASSUME NEW r \in Seq(Steps), NEW s \in Seq(Steps), NEW t \in Seq(Steps),
           Len(r) = 1, Len(s) = 3, Len(t) = 2
    PROVE  LET u == r \o s \o t IN
           /\ u \in Seq(Steps) /\ Len(u) = 6 /\ u[1] = r[1]
           /\ u[2] = s[1] /\ u[3] = s[2] /\ u[4] = s[3] /\ u[5] = t[1] /\ u[6] = t[2]
<1> DEFINE v == r \o s
<1>1. /\ 1 \in 1 .. Len(r) /\ 1 \in 1 .. Len(s) /\ 2 \in 1 .. Len(s) /\ 3 \in 1 .. Len(s)
      /\ 1 \in 1 .. Len(t) /\ 2 \in 1 .. Len(t)
      /\ Len(r) + 1 = 2 /\ Len(r) + 2 = 3 /\ Len(r) + 3 = 4
  OBVIOUS
<1>a. v \in Seq(Steps) /\ Len(v) = Len(r) + Len(s)
  BY ConcatLen
<1>2. v \in Seq(Steps) /\ Len(v) = 4 /\ v[1] = r[1]
  <2>1. v[1] = r[1]
    BY <1>1, ConcatFacts
  <2> HIDE DEF v
  <2> QED BY <1>a, <2>1
<1>d. \A i \in 1 .. Len(s) : v[Len(r) + i] = s[i]
  BY ConcatFacts
<1>3. v[Len(r) + 1] = s[1] /\ v[Len(r) + 2] = s[2] /\ v[Len(r) + 3] = s[3]
  <2> HIDE DEF v
  <2> QED BY <1>1, <1>d
<1> HIDE DEF v
<1>4. /\ 1 \in 1 .. Len(v) /\ 2 \in 1 .. Len(v) /\ 3 \in 1 .. Len(v) /\ 4 \in 1 .. Len(v)
      /\ Len(v) + 1 = 5 /\ Len(v) + 2 = 6
  BY <1>2
<1>b. v \o t \in Seq(Steps) /\ Len(v \o t) = Len(v) + Len(t)
  BY <1>2, ConcatLen
<1>c. (v \o t)[1] = v[1] /\ (v \o t)[2] = v[2] /\ (v \o t)[3] = v[3] /\ (v \o t)[4] = v[4]
  BY <1>2, <1>4, ConcatFacts
<1>5. /\ v \o t \in Seq(Steps) /\ Len(v \o t) = 6
      /\ (v \o t)[1] = v[1] /\ (v \o t)[2] = v[2] /\ (v \o t)[3] = v[3] /\ (v \o t)[4] = v[4]
  BY <1>2, <1>b, <1>c
<1>6. (v \o t)[Len(v) + 1] = t[1] /\ (v \o t)[Len(v) + 2] = t[2]
  BY <1>1, <1>2, ConcatFacts
<1>7. /\ v \o t \in Seq(Steps) /\ Len(v \o t) = 6 /\ (v \o t)[1] = r[1]
      /\ (v \o t)[2] = s[1] /\ (v \o t)[3] = s[2] /\ (v \o t)[4] = s[3]
      /\ (v \o t)[5] = t[1] /\ (v \o t)[6] = t[2]
  BY <1>1, <1>2, <1>3, <1>4, <1>5, <1>6
<1> QED BY <1>7 DEF v

LEMMA CloseForm ==
    ASSUME NEW l \in Languages, NEW op \in {"close", "rescue"}
    PROVE  /\ Form(l, op, CloseOf(l)) /\ Has(CloseOf(l), "spicedb_dispose")
           /\ l # "rust" => Has(CloseOf(l), "closeChannel")
           /\ l = "node" => Has(CloseOf(l), "checkFlag") /\ Has(CloseOf(l), "setFlag")
<1> DEFINE s == CloseOf(l)
           ffi == <<"spicedb_dispose", "free", "raise">>
<1>0. /\ ffi \in Seq(Steps) /\ Len(ffi) = 3
      /\ ffi[1] = "spicedb_dispose" /\ ffi[2] = "free" /\ ffi[3] = "raise"
  BY StepNames
<1>1. CASE l = "rust"
  <2>0. s = <<"spicedb_dispose", "free">>
    BY <1>1 DEF CloseOf, RustDrop, RustFfiDispose
  <2> HIDE DEF s
  <2>1. s \in Seq(Steps) /\ Len(s) = 2 /\ s[1] = "spicedb_dispose" /\ s[2] = "free"
    BY <2>0, StepNames
  <2>2. \A i \in 1 .. Len(s) : s[i] \in StepsOf(l, op)
    BY <2>1 DEF StepsOf
  <2>3. \A i \in 1 .. Len(s) : Followed(l, op, s, i)
    BY <1>1, <2>1, StepNames DEF Followed
  <2>4. \A i, j \in 1 .. Len(s) : Ordered(l, op, s, i, j)
    BY <2>1, StepNames DEF Ordered, Opens
  <2>5. Has(s, "spicedb_dispose")
    BY <2>1 DEF Has
  <2> QED BY <1>1, <2>1, <2>2, <2>3, <2>4, <2>5 DEF Form, s
<1>2. CASE l = "node"
  <2> DEFINE r == <<"checkFlag", "setFlag", "closeChannel">>
  <2>0. s = r \o ffi
    BY <1>2 DEF CloseOf, NodeClose, NodeFfiDispose
  <2>a. /\ r \in Seq(Steps) /\ Len(r) = 3
        /\ r[1] = "checkFlag" /\ r[2] = "setFlag" /\ r[3] = "closeChannel"
    BY StepNames
  <2> HIDE DEF s, r, ffi
  <2>1. /\ s \in Seq(Steps) /\ Len(s) = 6
        /\ s[1] = "checkFlag" /\ s[2] = "setFlag" /\ s[3] = "closeChannel"
        /\ s[4] = "spicedb_dispose" /\ s[5] = "free" /\ s[6] = "raise"
    BY <1>0, <2>0, <2>a, ThreeAndThree
  <2>2. \A i \in 1 .. Len(s) : s[i] \in StepsOf(l, op)
    BY <1>2, <2>1 DEF StepsOf
  <2>5. /\ Has(s, "spicedb_dispose") /\ Has(s, "closeChannel")
        /\ Has(s, "checkFlag") /\ Has(s, "setFlag")
    BY <2>1 DEF Has
  <2>3. \A i \in 1 .. Len(s) : Followed(l, op, s, i)
    BY <1>2, <2>1, <2>5, StepNames DEF Followed
  <2>4. \A i, j \in 1 .. Len(s) : Ordered(l, op, s, i, j)
    BY <2>1, StepNames DEF Ordered, Opens
  <2> QED BY <1>2, <2>1, <2>2, <2>3, <2>4, <2>5 DEF Form, s
<1>3. CASE l = "python"
  <2> DEFINE r == <<"closeChannel">>
  <2>0. s = ffi \o r
    BY <1>3 DEF CloseOf, PythonClose, PythonFfiDispose
  <2>a. r \in Seq(Steps) /\ Len(r) = 1 /\ r[1] = "closeChannel"
    BY StepNames
  <2> HIDE DEF s, r, ffi
  <2>1. /\ s \in Seq(Steps) /\ Len(s) = 4 /\ s[1] = "spicedb_dispose" /\ s[2] = "free"
        /\ s[3] = "raise" /\ s[4] = "closeChannel"
    BY <1>0, <2>0, <2>a, ThreeAndOne
  <2>2. \A i \in 1 .. Len(s) : s[i] \in StepsOf(l, op)
    BY <1>3, <2>1 DEF StepsOf
  <2>3. \A i \in 1 .. Len(s) : Followed(l, op, s, i)
    BY <1>3, <2>1, StepNames DEF Followed
  <2>4. \A i, j \in 1 .. Len(s) : Ordered(l, op, s, i, j)
    BY <2>1, StepNames DEF Ordered, Opens
  <2>5. Has(s, "spicedb_dispose") /\ Has(s, "closeChannel")
    BY <2>1 DEF Has
  <2> QED BY <1>3, <2>1, <2>2, <2>3, <2>4, <2>5 DEF Form, s
<1>4. CASE l = "java"
  <2>0. s = <<"spicedb_dispose", "free", "closeChannel">>
    BY <1>4 DEF CloseOf, JavaClose
  <2> HIDE DEF s
  <2>1. s \in Seq(Steps) /\ Len(s) = 3 /\ s[1] = "spicedb_dispose" /\ s[2] = "free" /\ s[3] = "closeChannel"
    BY <2>0, StepNames
  <2>2. \A i \in 1 .. Len(s) : s[i] \in StepsOf(l, op)
    BY <1>4, <2>1 DEF StepsOf
  <2>3. \A i \in 1 .. Len(s) : Followed(l, op, s, i)
    BY <1>4, <2>1, StepNames DEF Followed
  <2>4. \A i, j \in 1 .. Len(s) : Ordered(l, op, s, i, j)
    BY <2>1, StepNames DEF Ordered, Opens
  <2>5. Has(s, "spicedb_dispose") /\ Has(s, "closeChannel")
    BY <2>1 DEF Has
  <2> QED BY <1>4, <2>1, <2>2, <2>3, <2>4, <2>5 DEF Form, s
<1>5. CASE l = "csharp"
  <2> DEFINE q == <<"checkFlag">>
             r == <<"closeChannel", "setFlag">>
  <2>0. s = q \o ffi \o r
    BY <1>5 DEF CloseOf, CSharpDispose, CSharpFfiDispose
  <2>a. /\ q \in Seq(Steps) /\ Len(q) = 1 /\ q[1] = "checkFlag"
        /\ r \in Seq(Steps) /\ Len(r) = 2 /\ r[1] = "closeChannel" /\ r[2] = "setFlag"
    BY StepNames
  <2> HIDE DEF s, q, r, ffi
  <2>1. /\ s \in Seq(Steps) /\ Len(s) = 6 /\ s[1] = "checkFlag" /\ s[2] = "spicedb_dispose"
        /\ s[3] = "free" /\ s[4] = "raise" /\ s[5] = "closeChannel" /\ s[6] = "setFlag"
    BY <1>0, <2>0, <2>a, OneThreeTwo
  <2>2. \A i \in 1 .. Len(s) : s[i] \in StepsOf(l, op)
    BY <1>5, <2>1 DEF StepsOf
  <2>5. Has(s, "spicedb_dispose") /\ Has(s, "closeChannel") /\ Has(s, "setFlag")
    BY <2>1 DEF Has
  <2>3. \A i \in 1 .. Len(s) : Followed(l, op, s, i)
    BY <1>5, <2>1, <2>5, StepNames DEF Followed
  <2>4. \A i, j \in 1 .. Len(s) : Ordered(l, op, s, i, j)
    BY <1>5, <2>1, StepNames DEF Ordered, Opens
  <2> QED BY <1>5, <2>1, <2>2, <2>3, <2>4, <2>5 DEF Form, s
<1> QED BY <1>1, <1>2, <1>3, <1>4, <1>5 DEF Languages

\* What a start that raised runs fits the state it raised in.
LEMMA RescueForm ==
    ASSUME NEW l \in Languages, NEW o
    PROVE  /\ Form(l, "rescue", RescueOf(l, o))
           /\ Has(RescueOf(l, o), "spicedb_dispose") <=>
                  IF l \in {"node", "python"} THEN o.channel = "open"
                  ELSE IF l = "rust" THEN o.handle = "open"
                  ELSE o.channel = "open" \/ o.handle = "open"
           /\ l # "rust" /\ o.channel = "open" => Has(RescueOf(l, o), "closeChannel")
<1> DEFINE s == <<"spicedb_dispose", "free">>
<1>1. s \in Seq(Steps) /\ Len(s) = 2 /\ s[1] = "spicedb_dispose" /\ s[2] = "free"
  BY StepNames
<1>2. Form(l, "rescue", <<>>)
  BY DEF Form
<1>3. Form(l, "rescue", s) /\ Has(s, "spicedb_dispose")
  <2> HIDE DEF s
  <2>1. \A i \in 1 .. Len(s) : s[i] \in StepsOf(l, "rescue")
    BY <1>1 DEF StepsOf
  <2>2. \A i \in 1 .. Len(s) : Followed(l, "rescue", s, i)
    BY <1>1, StepNames DEF Followed
  <2>3. \A i, j \in 1 .. Len(s) : Ordered(l, "rescue", s, i, j)
    BY <1>1, StepNames DEF Ordered, Opens
  <2> QED BY <1>1, <2>1, <2>2, <2>3 DEF Form, Has
<1> HIDE DEF s
<1>4. /\ Form(l, "rescue", CloseOf(l)) /\ Has(CloseOf(l), "spicedb_dispose")
      /\ l # "rust" => Has(CloseOf(l), "closeChannel")
  BY CloseForm
<1>5. RescueOf(l, o) =
          IF l = "rust" THEN IF o.handle = "open" THEN CloseOf(l) ELSE <<>>
          ELSE IF o.channel = "open" THEN CloseOf(l)
          ELSE IF l \in {"java", "csharp"} /\ o.handle = "open" THEN s ELSE <<>>
  BY DEF RescueOf, RustRescue, NodeRescue, PythonRescue, JavaRescue, CSharpRescue, CloseOf, Languages, s
<1> QED BY <1>2, <1>3, <1>4, <1>5, HasEmpty DEF Languages

-----------------------------------------------------------------------------
\* Steps.

\* The others on an object do not mind what one of them does to it.
LEMMA Bystander ==
    ASSUME NEW l \in Languages, NEW o \in Objects, NEW p \in Objects, NEW g \in Frames,
           ThreadFine(l, o, g), g.op # "none", o.stage # "starting", l # "node",
           p.stage = o.stage \/ (o.stage = "ready" /\ p.stage = "dropped" /\ l = "rust"),
           \/ p.handle = o.handle
           \/ /\ l # "rust" \/ g.op # "close"
              /\ \/ o.handle = "open" /\ p.handle = "closing"
                 \/ o.handle = "closing" /\ p.handle = "closed" /\ g.answer # "wait",
           p.channel = o.channel \/ p.channel = "closed"
    PROVE  ThreadFine(l, p, g)
<1>1. g.op \in {"call", "close"}
  BY DEF ThreadFine, Frames
<1>2. p.stage \notin {"starting", "new", "failed"}
  BY DEF ThreadFine
<1>3. g.op = "close" => CloseFine(l, p, g)
  <2> HAVE g.op = "close"
  <2>1. CloseFine(l, o, g)
    BY DEF ThreadFine
  <2> QED BY <2>1 DEF CloseFine
<1> QED BY <1>1, <1>2, <1>3 DEF ThreadFine

\* A step of thread t on object d changes nothing elsewhere.
LEMMA StepPreserves ==
    ASSUME BindInv, NEW t \in Thread, NEW d \in Db,
           Types', lang' = lang,
           \A e \in Db : e # d => db'[e] = db[e] /\ leaked'[e] = leaked[e],
           \A u \in Thread : u # t => frame'[u] = frame[u],
           Idles(t) \/ On(t, d), Idles(t)' \/ On(t, d)',
           ObjectFine(lang[d], db'[d]),
           On(t, d)' => ThreadFine(lang[d], db'[d], frame'[t]),
           \A u \in Thread : u # t /\ On(u, d) => ThreadFine(lang[d], db'[d], frame[u]),
           AloneAt(d)', EndingAt(d)',
           leaked'[d] \subseteq IF lang[d] = "node" THEN {"error"} ELSE {}
    PROVE  BindInv'
<1>1. \A u \in Thread : \A e \in Db : u # t \/ e # d => (On(u, e)' <=> On(u, e))
  BY DEF On, Idles
<1>2. \A e \in Db : ObjectFine(lang[e], db[e])'
  BY DEF BindInv
<1>3. ASSUME NEW u \in Thread, NEW e \in Db, On(u, e)' PROVE ThreadFine(lang[e], db[e], frame[u])'
  <2>1. CASE u = t /\ e = d
    BY <1>3, <2>1
  <2>2. CASE u # t /\ e = d
    BY <1>1, <1>3, <2>2
  <2>3. CASE e # d
    <3>1. On(u, e) /\ u # t
      BY <1>1, <1>3, <2>3 DEF On, Idles
    <3> QED BY <2>3, <3>1 DEF BindInv
  <2> QED BY <2>1, <2>2, <2>3
<1>4. ASSUME NEW e \in Db PROVE AloneAt(e)' /\ EndingAt(e)'
  <2>1. CASE e = d
    BY <2>1
  <2>2. CASE e # d
    <3>0. AloneAt(e) /\ EndingAt(e)
      BY DEF BindInv
    <3>1. \A u \in Thread : (On(u, e)' <=> On(u, e)) /\ (On(u, e) => u # t /\ frame'[u] = frame[u])
      BY <1>1, <2>2 DEF On, Idles
    <3>2. AloneAt(e)'
      BY <2>2, <3>0, <3>1 DEF AloneAt
    <3>3. \A u \in Thread : Closer(u, e) => Closer(u, e)'
      BY <3>1 DEF Closer
    <3>4. (Nobody(e) => Nobody(e)') /\ (Waits(e) => Waits(e)') /\ (Closing(e) => Closing(e)')
          /\ (NodeCloses(e) => NodeCloses(e)')
      BY <3>1, <3>3 DEF Nobody, Waits, Closing, NodeCloses
    <3>5. EndingAt(e)'
      BY <2>2, <3>0, <3>4 DEF EndingAt
    <3> QED BY <3>2, <3>5
  <2> QED BY <2>1, <2>2
<1>5. OnlyNodeErrorsLost'
  BY DEF OnlyNodeErrorsLost, BindInv
<1> QED BY <1>2, <1>3, <1>4, <1>5 DEF BindInv

\* A Node object is as it should be while no close is past setting its flag.
NodeFine(l, o, f) ==
    l = "node" /\ o.stage = "ready" =>
        NodeObject(o) \/ (f.op = "close" /\ ~Has(f.todo, "setFlag"))

\* A thread goes on with its program: from frame f to g, and the object from o
\* to p.
Goes(l, o, p, f, g) ==
    /\ g.op = f.op \/ (f.op = "start" /\ g.op = "rescue")
    /\ p.stage = o.stage
    /\ \/ p.handle = o.handle
       \/ f.op = "start"
       \/ /\ f.op \in {"close", "rescue"}
          /\ \/ o.handle = "open" /\ p.handle = "closing"
             \/ o.handle = "closing" /\ p.handle = "closed" /\ f.answer = "wait"
    /\ p.channel = o.channel \/ p.channel = "closed" \/ f.op = "start"
    /\ g.answer = "wait" => o.handle = "open"
    /\ p.handle = "closing" => g.answer = "wait" \/ (o.handle = "closing" /\ f.answer # "wait")
    /\ p.channel = "open" /\ p.handle \in {"closing", "closed"} =>
           \/ WillClose(g)
           \/ o.channel = "open" /\ o.handle \in {"closing", "closed"} /\ ~WillClose(f)
    /\ NodeFine(l, p, g)
    /\ ObjectFine(l, p) /\ ThreadFine(l, p, g)

LEMMA GoesOn ==
    ASSUME BindInv, NEW t \in Thread, NEW d \in Db, On(t, d), Types', lang' = lang,
           \A e \in Db : e # d => db'[e] = db[e] /\ leaked'[e] = leaked[e],
           \A u \in Thread : u # t => frame'[u] = frame[u],
           frame'[t].obj = d,
           Goes(lang[d], db[d], db'[d], frame[t], frame'[t]),
           leaked'[d] \subseteq IF lang[d] = "node" THEN {"error"} ELSE {}
    PROVE  BindInv'
<1>0. /\ Types /\ AloneAt(d) /\ EndingAt(d)
      /\ ThreadFine(lang[d], db[d], frame[t])
      /\ \A u \in Thread : On(u, d) => ThreadFine(lang[d], db[d], frame[u])
  BY DEF BindInv
<1>1. /\ On(t, d)'
      /\ \A u \in Thread : u # t => (On(u, d)' <=> On(u, d))
      /\ lang[d] \in Languages /\ db[d] \in Objects /\ db'[d] \in Objects
      /\ \A u \in Thread : frame[u] \in Frames
  BY <1>0 DEF On, Types, Goes
<1>2. frame[t].op \in {"start", "rescue"} <=> db[d].stage = "starting"
  BY <1>0 DEF ThreadFine
<1>3. ASSUME NEW u \in Thread, u # t, On(u, d)
      PROVE  /\ ThreadFine(lang[d], db'[d], frame[u])
             /\ frame[u].answer = "wait" => frame'[t].answer # "wait"
  <2>1. /\ db[d].stage # "starting" /\ lang[d] # "node"
        /\ lang[d] = "rust" => frame[t].op # "close" \/ frame[u].op # "close"
        /\ frame[t].answer # "wait" \/ frame[u].answer # "wait"
    BY <1>0, <1>3 DEF AloneAt
  <2>2. frame[t].op \notin {"start", "rescue"}
    BY <1>2, <2>1
  <2>3. ThreadFine(lang[d], db[d], frame[u]) /\ frame[u].op # "none"
    BY <1>0, <1>3 DEF On
  <2>4. \/ db'[d].handle = db[d].handle
        \/ /\ lang[d] # "rust" \/ frame[u].op # "close"
           /\ \/ db[d].handle = "open" /\ db'[d].handle = "closing"
              \/ db[d].handle = "closing" /\ db'[d].handle = "closed" /\ frame[u].answer # "wait"
    BY <2>1, <2>2 DEF Goes
  <2>5. db'[d].channel = db[d].channel \/ db'[d].channel = "closed"
    BY <2>2 DEF Goes
  <2>6. ThreadFine(lang[d], db'[d], frame[u])
    BY <1>1, <2>1, <2>3, <2>4, <2>5, Bystander DEF Goes
  <2>7. frame[u].answer = "wait" => db[d].handle = "closing"
    BY <1>1, <2>1, <2>3 DEF ThreadFine, CloseFine, Frames
  <2> QED BY <2>6, <2>7 DEF Goes
<1>4. AloneAt(d)'
  <2> SUFFICES ASSUME NEW u \in Thread, NEW v \in Thread, On(u, d)', On(v, d)', u # v
               PROVE  /\ db'[d].stage # "starting" /\ lang[d] # "node"
                      /\ lang[d] = "rust" => frame'[u].op # "close" \/ frame'[v].op # "close"
                      /\ frame'[u].answer # "wait" \/ frame'[v].answer # "wait"
    BY DEF AloneAt
  <2>1. On(u, d) /\ On(v, d)
    BY <1>1
  <2>2. /\ db[d].stage # "starting" /\ lang[d] # "node"
        /\ lang[d] = "rust" => frame[u].op # "close" \/ frame[v].op # "close"
        /\ frame[u].answer # "wait" \/ frame[v].answer # "wait"
    BY <1>0, <2>1 DEF AloneAt
  <2>3. frame'[t].op = frame[t].op
    BY <1>2, <2>2 DEF Goes
  <2>4. frame'[u].op = frame[u].op /\ frame'[v].op = frame[v].op
    BY <2>3
  <2>5. frame'[u].answer # "wait" \/ frame'[v].answer # "wait"
    BY <1>3, <2>1, <2>2
  <2> QED BY <2>2, <2>4, <2>5 DEF Goes
<1>5. EndingAt(d)'
  <2>1. db'[d].stage \notin {"new", "failed"}
    BY <1>0 DEF ThreadFine, Goes
  <2>2. db'[d].handle = "closing" => Waits(d)'
    <3>1. CASE frame'[t].answer = "wait"
      BY <1>1, <3>1 DEF Waits
    <3>2. CASE db[d].handle = "closing" /\ frame[t].answer # "wait"
      <4>1. PICK u \in Thread : On(u, d) /\ frame[u].answer = "wait"
        BY <1>0, <3>2 DEF EndingAt, Waits
      <4> QED BY <1>1, <3>2, <4>1 DEF Waits
    <3> QED BY <3>1, <3>2 DEF Goes
  <2>3. db'[d].channel = "open" /\ db'[d].handle \in {"closing", "closed"} => Closing(d)'
    <3>1. CASE WillClose(frame'[t])
      BY <1>1, <3>1 DEF Closing, Closer
    <3>2. CASE db[d].channel = "open" /\ db[d].handle \in {"closing", "closed"} /\ ~WillClose(frame[t])
      <4>1. PICK u \in Thread : Closer(u, d)
        BY <1>0, <3>2 DEF EndingAt, Closing
      <4>2. Closer(u, d)'
        BY <1>1, <3>2, <4>1 DEF Closer
      <4> QED BY <4>2 DEF Closing
    <3> QED BY <3>1, <3>2 DEF Goes
  <2>4. lang[d] = "node" /\ db'[d].stage = "ready" => NodeObject(db'[d]) \/ NodeCloses(d)'
    BY <1>1 DEF NodeCloses, NodeFine, Goes
  <2> QED BY <2>1, <2>2, <2>3, <2>4 DEF EndingAt
<1>6. ObjectFine(lang[d], db'[d]) /\ ThreadFine(lang[d], db'[d], frame'[t])
  BY DEF Goes
<1> QED BY <1>1, <1>3, <1>4, <1>5, <1>6, StepPreserves

Answers == {"ok", "error", "wait", "rejected"}
Buffers == {"none", "json", "error", "response"}

\* What a step makes of a frame.
LEMMA AdvanceFacts ==
    ASSUME Types, NEW t \in Thread, NEW d \in Db, On(t, d), frame[t].todo # <<>>,
           NEW a \in Answers, NEW b \in Buffers, Advance(t, a, b)
    PROVE  /\ frame' \in [Thread -> Frames]
           /\ \A u \in Thread : u # t => frame'[u] = frame[u]
           /\ frame'[t].op = frame[t].op /\ frame'[t].obj = d
           /\ frame'[t].todo = Tail(frame[t].todo)
           /\ frame'[t].answer = a /\ frame'[t].buf = b
           /\ \A u \in Thread :
                  IF frame'[u].op = "none" THEN frame'[u] = Idle ELSE frame'[u].obj \in Db
<1> DEFINE f == frame[t]
           f1 == [f EXCEPT !.todo = Tail(f.todo)]
           f2 == [f1 EXCEPT !.answer = a]
           f3 == [f2 EXCEPT !.buf = b]
<1>0. f \in Frames /\ frame \in [Thread -> Frames]
  BY DEF Types
<1>1. Tail(f.todo) \in Seq(Steps)
  BY <1>0, TailFacts DEF Frames
<1>2. /\ f1 \in Frames /\ f1.op = f.op /\ f1.obj = f.obj /\ f1.todo = Tail(f.todo)
      /\ f1.answer = f.answer /\ f1.buf = f.buf
  BY <1>0, <1>1 DEF Frames
<1>3. frame' = [frame EXCEPT ![t] = f3]
  BY <1>0 DEF Advance
<1> HIDE DEF f1
<1>4. /\ f2 \in Frames /\ f2.op = f.op /\ f2.obj = f.obj /\ f2.todo = Tail(f.todo)
      /\ f2.answer = a /\ f2.buf = f.buf
  BY <1>2 DEF Frames, Answers
<1> HIDE DEF f2
<1>5. /\ f3 \in Frames /\ f3.op = f.op /\ f3.obj = f.obj /\ f3.todo = Tail(f.todo)
      /\ f3.answer = a /\ f3.buf = b
  BY <1>4 DEF Frames, Buffers
<1> HIDE DEF f3
<1>6. frame' \in [Thread -> Frames] /\ frame'[t] = f3 /\ \A u \in Thread : u # t => frame'[u] = frame[u]
  BY <1>0, <1>3, <1>5
<1> QED BY <1>5, <1>6 DEF Types, On

\* The program of a thread, and what is left of it after its next step.
LEMMA Rest ==
    ASSUME NEW l, NEW op, NEW s, Form(l, op, s), s # <<>>, NEW u, u = Tail(s)
    PROVE  /\ Form(l, op, u) /\ Head(s) = s[1]
           /\ \A x : Has(s, x) <=> s[1] = x \/ Has(u, x)
           /\ RaiseAhead(s) => s[1] \in {"free", "raise"}
           /\ RaiseAhead(s) /\ s[1] = "free" => RaiseAhead(u)
           /\ FreeNext(s) <=> s[1] = "free"
<1>1. s \in Seq(Steps)
  BY DEF Form
<1>2. \A x : Has(s, x) <=> s[1] = x \/ Has(u, x)
  BY <1>1, HasTail, TailFacts
<1>3. /\ RaiseAhead(s) => s[1] \in {"free", "raise"}
      /\ RaiseAhead(s) /\ s[1] = "free" => RaiseAhead(u)
      /\ FreeNext(s) <=> s[1] = "free"
  BY <1>1, TailFacts DEF RaiseAhead, FreeNext
<1>4. Form(l, op, u)
  BY FormTail
<1> QED BY <1>1, <1>2, <1>3, <1>4, TailFacts

\* A thread that is not idle works on an object, and fits its state.
LEMMA Working ==
    ASSUME BindInv, NEW t \in Thread,
           frame[t].todo # <<>> \/ frame[t].answer = "wait" \/ ~Idles(t)
    PROVE  LET d == frame[t].obj IN
           /\ Types /\ d \in Db /\ On(t, d) /\ lang[d] \in Languages /\ db[d] \in Objects
           /\ frame[t] \in Frames
           /\ ObjectFine(lang[d], db[d]) /\ ThreadFine(lang[d], db[d], frame[t])
           /\ AloneAt(d) /\ EndingAt(d)
           /\ leaked[d] \subseteq IF lang[d] = "node" THEN {"error"} ELSE {}
<1>1. Types
  BY DEF BindInv
<1>2. frame[t].op # "none" /\ frame[t].obj \in Db
  BY <1>1 DEF Types, Idles, Idle
<1>3. On(t, frame[t].obj)
  BY <1>2 DEF On
<1> QED BY <1>1, <1>2, <1>3 DEF BindInv, OnlyNodeErrorsLost, Types

LEMMA NodeReady ==
    ASSUME BindInv, NEW t \in Thread, NEW d \in Db, On(t, d)
    PROVE  NodeFine(lang[d], db[d], frame[t])
<1> SUFFICES ASSUME lang[d] = "node", db[d].stage = "ready", ~NodeObject(db[d])
             PROVE  frame[t].op = "close" /\ ~Has(frame[t].todo, "setFlag")
  BY DEF NodeFine
<1>1. AloneAt(d) /\ EndingAt(d)
  BY DEF BindInv
<1>2. PICK u \in Thread : On(u, d) /\ frame[u].op = "close" /\ ~Has(frame[u].todo, "setFlag")
  BY <1>1 DEF EndingAt, NodeCloses
<1>3. u = t
  BY <1>1, <1>2 DEF AloneAt
<1> QED BY <1>2, <1>3

\* The frame after a step.
After(f, g, a, b) == g.op = f.op /\ g.todo = Tail(f.todo) /\ g.answer = a /\ g.buf = b

\* One step of a program, with what it does to the object and to the frame.
LEMMA AdvanceOn ==
    ASSUME BindInv, NEW t \in Thread, NEW d \in Db, On(t, d),
           frame[t].todo # <<>>,
           NEW a \in Answers, NEW b \in Buffers, Advance(t, a, b), UNCHANGED <<lang, leaked>>,
           db' \in [Db -> Objects], \A e \in Db : e # d => db'[e] = db[e],
           \A g \in Frames : After(frame[t], g, a, b) =>
               Goes(lang[d], db[d], db'[d], frame[t], g)
    PROVE  BindInv'
<1>1. Types /\ leaked[d] \subseteq IF lang[d] = "node" THEN {"error"} ELSE {}
  BY DEF BindInv, OnlyNodeErrorsLost
<1>2. /\ frame' \in [Thread -> Frames]
      /\ \A u \in Thread : u # t => frame'[u] = frame[u]
      /\ frame'[t].op = frame[t].op /\ frame'[t].obj = d
      /\ frame'[t].todo = Tail(frame[t].todo)
      /\ frame'[t].answer = a /\ frame'[t].buf = b
      /\ \A u \in Thread :
             IF frame'[u].op = "none" THEN frame'[u] = Idle ELSE frame'[u].obj \in Db
  BY <1>1, AdvanceFacts
<1>3. Types'
  BY <1>1, <1>2 DEF Types
<1>4. leaked' = leaked /\ lang' = lang
  OBVIOUS
<1>5. \A e \in Db : e # d => db'[e] = db[e] /\ leaked'[e] = leaked[e]
  BY <1>4
<1>6. leaked'[d] \subseteq IF lang[d] = "node" THEN {"error"} ELSE {}
  BY <1>1, <1>4
<1>7. Goes(lang[d], db[d], db'[d], frame[t], frame'[t])
  BY <1>2 DEF After
<1> QED BY <1>2, <1>3, <1>4, <1>5, <1>6, <1>7, GoesOn

-----------------------------------------------------------------------------
\* The steps one by one, on the object and the frame they concern.

At(l, o, f) ==
    /\ l \in Languages /\ o \in Objects /\ f \in Frames /\ f.op # "none"
    /\ ObjectFine(l, o) /\ ThreadFine(l, o, f) /\ NodeFine(l, o, f)
    /\ f.todo # <<>> /\ f.answer # "wait"

LEMMA Ahead ==
    ASSUME NEW l, NEW o, NEW f, At(l, o, f), NEW g \in Frames, NEW a, NEW b, After(f, g, a, b)
    PROVE  /\ Form(l, f.op, g.todo) /\ Head(f.todo) = f.todo[1]
           /\ \A x : Has(f.todo, x) <=> f.todo[1] = x \/ Has(g.todo, x)
           /\ RaiseAhead(f.todo) => f.todo[1] \in {"free", "raise"}
           /\ RaiseAhead(f.todo) /\ f.todo[1] = "free" => RaiseAhead(g.todo)
           /\ FreeNext(f.todo) <=> f.todo[1] = "free"
           /\ RaiseThenFree(f.todo) => FreeNext(g.todo) /\ f.todo[1] = "raise"
           /\ g.todo = Tail(f.todo) /\ Form(l, f.op, f.todo)
<1>1. Form(l, f.op, f.todo) /\ f.todo # <<>> /\ g.todo = Tail(f.todo)
  BY DEF At, ThreadFine, After
<1>2. RaiseThenFree(f.todo) => FreeNext(g.todo) /\ f.todo[1] = "raise"
  <2>1. f.todo \in Seq(Steps)
    BY <1>1 DEF Form
  <2> QED BY <1>1, <2>1, TailFacts DEF FreeNext, RaiseThenFree
<1> QED BY <1>1, <1>2, Rest

LEMMA FreeGoes ==
    ASSUME NEW l, NEW o, NEW f, At(l, o, f), Head(f.todo) = "free",
           NEW g \in Frames, After(f, g, f.answer, "none")
    PROVE  Goes(l, o, o, f, g)
<1> DEFINE s == f.todo
           u == g.todo
<1>1. /\ Form(l, f.op, u) /\ s[1] = "free"
      /\ \A x : x # "free" => (Has(s, x) <=> Has(u, x))
      /\ RaiseAhead(s) => RaiseAhead(u)
  BY Ahead
<1>2. g.op = f.op /\ g.answer = f.answer /\ g.buf = "none" /\ f.answer # "wait"
  BY DEF At, After
<1> HIDE DEF s, u
<1>3. ThreadFine(l, o, f)
  BY DEF At
<1>a. Opening(s) <=> Opening(u)
  BY <1>1 DEF Opening, Opens
<1>b. s # <<>>
  BY DEF At, s
<1>4. f.op = "start" => StartFine(l, o, g)
  BY <1>1, <1>2, <1>3, <1>a DEF ThreadFine, StartFine, s, u
<1>5. f.op = "rescue" => RescueFine(l, o, g)
  BY <1>1, <1>2, <1>3, <1>b DEF ThreadFine, RescueFine, s, u
<1>6. f.op = "close" => CloseFine(l, o, g)
  BY <1>1, <1>2, <1>3 DEF ThreadFine, CloseFine, s, u
<1>7. BufferHeld(l, g)
  BY <1>2 DEF BufferHeld
<1>8. ThreadFine(l, o, g)
  BY <1>1, <1>2, <1>3, <1>4, <1>5, <1>6, <1>7 DEF ThreadFine, u
<1>9. NodeFine(l, o, g)
  BY <1>1, <1>2 DEF NodeFine, At, s, u
<1>10. WillClose(f) => WillClose(g)
  BY <1>1, <1>2 DEF WillClose, s, u
<1> QED BY <1>2, <1>8, <1>9, <1>10 DEF Goes, At

\* What one step may change of an object: its handle, its channel, its flag or
\* what it has written; or its stage or its closes, when a method ends.
HandleSet(o, p, x) ==
    /\ p \in Objects /\ p.handle = x
    /\ p.stage = o.stage /\ p.want = o.want /\ p.channel = o.channel
    /\ p.flag = o.flag /\ p.written = o.written /\ p.closes = o.closes
    /\ p.unhandled = o.unhandled

ChannelSet(o, p, x) ==
    /\ p \in Objects /\ p.channel = x
    /\ p.stage = o.stage /\ p.want = o.want /\ p.handle = o.handle
    /\ p.flag = o.flag /\ p.written = o.written /\ p.closes = o.closes
    /\ p.unhandled = o.unhandled

FlagSet(o, p, x) ==
    /\ p \in Objects /\ p.flag = x
    /\ p.stage = o.stage /\ p.want = o.want /\ p.handle = o.handle
    /\ p.channel = o.channel /\ p.written = o.written /\ p.closes = o.closes
    /\ p.unhandled = o.unhandled

WrittenSet(o, p, x) ==
    /\ p \in Objects /\ p.written = x
    /\ p.stage = o.stage /\ p.want = o.want /\ p.handle = o.handle
    /\ p.channel = o.channel /\ p.flag = o.flag /\ p.closes = o.closes
    /\ p.unhandled = o.unhandled

StageSet(o, p, x) ==
    /\ p \in Objects /\ p.stage = x
    /\ p.want = o.want /\ p.handle = o.handle /\ p.channel = o.channel
    /\ p.flag = o.flag /\ p.written = o.written /\ p.closes = o.closes
    /\ p.unhandled = o.unhandled

ClosesSet(o, p, x) ==
    /\ p \in Objects /\ p.closes = x
    /\ p.stage = o.stage /\ p.want = o.want /\ p.handle = o.handle
    /\ p.channel = o.channel /\ p.flag = o.flag /\ p.written = o.written
    /\ p.unhandled = o.unhandled

UnhandledSet(o, p, x) ==
    /\ p \in Objects /\ p.unhandled = x
    /\ p.stage = o.stage /\ p.want = o.want /\ p.handle = o.handle
    /\ p.channel = o.channel /\ p.flag = o.flag /\ p.written = o.written
    /\ p.closes = o.closes

LEMMA HandleSetFacts ==
    ASSUME Types, NEW d \in Db, NEW x \in {"open", "closing", "closed"},
           db' = [db EXCEPT ![d].handle = x]
    PROVE  /\ db' \in [Db -> Objects] /\ \A e \in Db : e # d => db'[e] = db[e]
           /\ HandleSet(db[d], db'[d], x)
<1> DEFINE p == [db[d] EXCEPT !.handle = x]
<1>1. db[d] \in Objects /\ db \in [Db -> Objects]
  BY DEF Types
<1>2. HandleSet(db[d], p, x)
  BY <1>1 DEF HandleSet, Objects
<1>3. db' = [db EXCEPT ![d] = p]
  BY <1>1
<1> HIDE DEF p
<1>4. p \in Objects
  BY <1>2 DEF HandleSet
<1> QED BY <1>1, <1>2, <1>3, <1>4

LEMMA ChannelSetFacts ==
    ASSUME Types, NEW d \in Db, NEW x \in {"open", "closed"},
           db' = [db EXCEPT ![d].channel = x]
    PROVE  /\ db' \in [Db -> Objects] /\ \A e \in Db : e # d => db'[e] = db[e]
           /\ ChannelSet(db[d], db'[d], x)
<1> DEFINE p == [db[d] EXCEPT !.channel = x]
<1>1. db[d] \in Objects /\ db \in [Db -> Objects]
  BY DEF Types
<1>2. ChannelSet(db[d], p, x)
  BY <1>1 DEF ChannelSet, Objects
<1>3. db' = [db EXCEPT ![d] = p]
  BY <1>1
<1> HIDE DEF p
<1>4. p \in Objects
  BY <1>2 DEF ChannelSet
<1> QED BY <1>1, <1>2, <1>3, <1>4

LEMMA FlagSetFacts ==
    ASSUME Types, NEW d \in Db, NEW x \in {"set"},
           db' = [db EXCEPT ![d].flag = x]
    PROVE  /\ db' \in [Db -> Objects] /\ \A e \in Db : e # d => db'[e] = db[e]
           /\ FlagSet(db[d], db'[d], x)
<1> DEFINE p == [db[d] EXCEPT !.flag = x]
<1>1. db[d] \in Objects /\ db \in [Db -> Objects]
  BY DEF Types
<1>2. FlagSet(db[d], p, x)
  BY <1>1 DEF FlagSet, Objects
<1>3. db' = [db EXCEPT ![d] = p]
  BY <1>1
<1> HIDE DEF p
<1>4. p \in Objects
  BY <1>2 DEF FlagSet
<1> QED BY <1>1, <1>2, <1>3, <1>4

LEMMA WrittenSetFacts ==
    ASSUME Types, NEW d \in Db, NEW x \in SUBSET {"WriteSchema", "WriteRelationships"},
           db' = [db EXCEPT ![d].written = x]
    PROVE  /\ db' \in [Db -> Objects] /\ \A e \in Db : e # d => db'[e] = db[e]
           /\ WrittenSet(db[d], db'[d], x)
<1> DEFINE p == [db[d] EXCEPT !.written = x]
<1>1. db[d] \in Objects /\ db \in [Db -> Objects]
  BY DEF Types
<1>2. WrittenSet(db[d], p, x)
  BY <1>1 DEF WrittenSet, Objects
<1>3. db' = [db EXCEPT ![d] = p]
  BY <1>1
<1> HIDE DEF p
<1>4. p \in Objects
  BY <1>2 DEF WrittenSet
<1> QED BY <1>1, <1>2, <1>3, <1>4

LEMMA UnhandledSetFacts ==
    ASSUME Types, NEW d \in Db, NEW x \in {"answer", "channel", "request"},
           db' = [db EXCEPT ![d].unhandled = x]
    PROVE  /\ db' \in [Db -> Objects] /\ \A e \in Db : e # d => db'[e] = db[e]
           /\ UnhandledSet(db[d], db'[d], x)
<1> DEFINE p == [db[d] EXCEPT !.unhandled = x]
<1>1. db[d] \in Objects /\ db \in [Db -> Objects]
  BY DEF Types
<1>2. UnhandledSet(db[d], p, x)
  BY <1>1 DEF UnhandledSet, Objects
<1>3. db' = [db EXCEPT ![d] = p]
  BY <1>1
<1> HIDE DEF p
<1>4. p \in Objects
  BY <1>2 DEF UnhandledSet
<1> QED BY <1>1, <1>2, <1>3, <1>4

LEMMA StageSetFacts ==
    ASSUME Types, NEW d \in Db, NEW x \in {"ready", "failed", "dropped"},
           db' = [db EXCEPT ![d].stage = x]
    PROVE  /\ db' \in [Db -> Objects] /\ \A e \in Db : e # d => db'[e] = db[e]
           /\ StageSet(db[d], db'[d], x)
<1> DEFINE p == [db[d] EXCEPT !.stage = x]
<1>1. db[d] \in Objects /\ db \in [Db -> Objects]
  BY DEF Types
<1>2. StageSet(db[d], p, x)
  BY <1>1 DEF StageSet, Objects
<1>3. db' = [db EXCEPT ![d] = p]
  BY <1>1
<1> HIDE DEF p
<1>4. p \in Objects
  BY <1>2 DEF StageSet
<1> QED BY <1>1, <1>2, <1>3, <1>4

LEMMA ClosesSetFacts ==
    ASSUME Types, NEW d \in Db, NEW x \in SUBSET {"ok", "error"},
           db' = [db EXCEPT ![d].closes = x]
    PROVE  /\ db' \in [Db -> Objects] /\ \A e \in Db : e # d => db'[e] = db[e]
           /\ ClosesSet(db[d], db'[d], x)
<1> DEFINE p == [db[d] EXCEPT !.closes = x]
<1>1. db[d] \in Objects /\ db \in [Db -> Objects]
  BY DEF Types
<1>2. ClosesSet(db[d], p, x)
  BY <1>1 DEF ClosesSet, Objects
<1>3. db' = [db EXCEPT ![d] = p]
  BY <1>1
<1> HIDE DEF p
<1>4. p \in Objects
  BY <1>2 DEF ClosesSet
<1> QED BY <1>1, <1>2, <1>3, <1>4

\* Only a start has a spicedb_start, ...
LEMMA StepOps ==
    ASSUME NEW l \in Languages, NEW op \in {"start", "rescue", "call", "close"},
           NEW x \in StepsOf(l, op)
    PROVE  /\ x = "spicedb_start" => op = "start"
           /\ x \in {"openChannel", "tryChannel"} => op = "start"
           /\ x = "openChannel" => l \in {"node", "python"}
           /\ x = "tryChannel" => l \in {"java", "csharp"}
           /\ x \in Methods => op \in {"start", "call"}
           /\ x = "spicedb_dispose" => op \in {"close", "rescue"}
           /\ x = "closeChannel" => op \in {"close", "rescue"} /\ l # "rust"
           /\ x \in {"checkFlag", "setFlag"} => op \in {"close", "rescue"} /\ l \in {"node", "csharp"}
BY StepNames DEF StepsOf, Languages

LEMMA StartGoes ==
    ASSUME NEW l, NEW o, NEW f, At(l, o, f), Head(f.todo) = "spicedb_start", NEW g \in Frames,
           NEW p \in Objects,
           \/ /\ HandleSet(o, p, "open")
              /\ After(f, g, "ok", "json") \/ After(f, g, "rejected", "json")
           \/ p = o /\ After(f, g, "error", "json")
    PROVE  Goes(l, o, p, f, g)
<1> DEFINE s == f.todo
           u == g.todo
<1>0. PICK a : After(f, g, a, "json")
  OBVIOUS
<1>1. /\ Form(l, f.op, u) /\ s[1] = "spicedb_start" /\ u = Tail(s) /\ Form(l, f.op, s)
      /\ \A x : Has(s, x) <=> s[1] = x \/ Has(u, x)
  BY <1>0, Ahead
<1>2. /\ s[1] \in StepsOf(l, f.op) /\ FreeNext(u) /\ RaiseAhead(u) /\ ~Has(u, "spicedb_start")
  BY <1>1, FormHead DEF At
<1>3. g.op = f.op /\ g.buf = "json" /\ f.answer # "wait" /\ g.answer \in {"ok", "error", "rejected"}
  BY <1>0 DEF At, After
<1>4. /\ p.stage = o.stage /\ p.want = o.want /\ p.channel = o.channel /\ p.flag = o.flag
      /\ p.written = o.written /\ p.closes = o.closes /\ p.unhandled = o.unhandled
      /\ \/ p.handle = "open" /\ g.answer \in {"ok", "rejected"}
         \/ p.handle = o.handle /\ g.answer = "error"
  BY DEF HandleSet, After
<1>5. f.op \in {"start", "rescue", "call", "close"} /\ l \in Languages
  BY DEF At, Frames
<1>6. f.op = "start"
  BY <1>1, <1>2, <1>5, StepOps
<1>7. ThreadFine(l, o, f) /\ ObjectFine(l, o)
  BY DEF At
<1> HIDE DEF s, u
<1>8. o.stage = "starting" /\ StartFine(l, o, f)
  BY <1>6, <1>7 DEF ThreadFine
<1>a. o \in Objects
  BY DEF At
<1>9. o.handle = "none" /\ f.answer = "ok" /\ o.channel = "none"
  BY <1>1, <1>8, <1>a DEF StartFine, Objects, s
<1>b. Opening(s) <=> Opening(u)
  BY <1>1 DEF Opening, Opens
<1>c. l \in {"java", "csharp"} => Opening(s)
  BY <1>8, <1>9 DEF StartFine, s
<1>10. StartFine(l, p, g)
  BY <1>1, <1>2, <1>3, <1>4, <1>8, <1>9, <1>b, <1>c DEF StartFine, s, u
<1>11. BufferHeld(l, g)
  BY <1>2, <1>3 DEF BufferHeld, u
<1>12. ThreadFine(l, p, g)
  BY <1>1, <1>3, <1>4, <1>6, <1>8, <1>10, <1>11 DEF ThreadFine, u
<1>13. ObjectFine(l, p)
  BY <1>4, <1>7, <1>8, <1>9 DEF ObjectFine, StartFine
<1>14. NodeFine(l, p, g)
  BY <1>4, <1>8 DEF NodeFine
<1> QED BY <1>3, <1>4, <1>6, <1>9, <1>12, <1>13, <1>14 DEF Goes

\* The bootstrap writes, as a set.
Taken(m) == IF m \in {"WriteSchema", "WriteRelationships"} THEN {m} ELSE {}

LEMMA RpcGoes ==
    ASSUME NEW l, NEW o, NEW f, At(l, o, f), NEW m \in Methods, Head(f.todo) = m,
           NEW g \in Frames, NEW p \in Objects,
           \/ /\ o.handle = "open" /\ WrittenSet(o, p, o.written \cup Taken(m))
              /\ After(f, g, "ok", "response") \/ After(f, g, "error", "error")
           \/ p = o /\ After(f, g, "error", "error")
    PROVE  Goes(l, o, p, f, g)
<1> DEFINE s == f.todo
           u == g.todo
<1>0. PICK a, b : After(f, g, a, b)
  OBVIOUS
<1>1. /\ Form(l, f.op, u) /\ s[1] = m /\ u = Tail(s) /\ Form(l, f.op, s)
      /\ \A x : Has(s, x) <=> s[1] = x \/ Has(u, x)
      /\ RaiseAhead(s) => s[1] \in {"free", "raise"}
  BY <1>0, Ahead
<1>2. /\ s[1] \in StepsOf(l, f.op) /\ RaiseAhead(u) /\ ~Opening(s)
      /\ IF l = "node" THEN RaiseThenFree(u) ELSE FreeNext(u)
      /\ Has(s, "spicedb_start") => s[1] = "spicedb_start"
      /\ f.op = "start" /\ s[1] = "WriteRelationships" => ~Has(s, "WriteSchema")
  <2>1. s # <<>>
    BY DEF At
  <2> HIDE DEF s, u
  <2>a. s[1] \in Methods
    BY <1>1
  <2>2. s[1] \in StepsOf(l, f.op)
    BY <1>1, <2>1, FormHead
  <2>3. RaiseAhead(u) /\ ~Opening(s)
    BY <1>1, <2>1, <2>a, FormHead
  <2>4. IF l = "node" THEN RaiseThenFree(u) ELSE FreeNext(u)
    BY <1>1, <2>1, <2>a, FormHead
  <2>5. Has(s, "spicedb_start") => s[1] = "spicedb_start"
    BY <1>1, <2>1, FormHead
  <2>6. f.op = "start" /\ s[1] = "WriteRelationships" => ~Has(s, "WriteSchema")
    BY <1>1, <2>1, FormHead
  <2> QED BY <2>2, <2>3, <2>4, <2>5, <2>6
<1>3. /\ g.op = f.op /\ f.answer # "wait"
      /\ (g.answer = "ok" /\ g.buf = "response") \/ (g.answer = "error" /\ g.buf = "error")
  BY DEF At, After
<1>4. /\ p.stage = o.stage /\ p.want = o.want /\ p.channel = o.channel /\ p.flag = o.flag
      /\ p.handle = o.handle /\ p.closes = o.closes /\ p.unhandled = o.unhandled
      /\ o.written \subseteq p.written
      /\ \A x \in p.written : x \in o.written \/ x = m
      /\ g.answer = "ok" /\ m \in {"WriteSchema", "WriteRelationships"} => m \in p.written
  BY DEF WrittenSet, After, Taken
<1>5. f.op \in {"start", "rescue", "call", "close"} /\ l \in Languages
  BY DEF At, Frames
<1>6. f.op \in {"start", "call"} /\ m \notin {"free", "raise", "spicedb_start"}
  BY <1>1, <1>2, <1>5, StepOps, StepNames
<1>7. ThreadFine(l, o, f) /\ ObjectFine(l, o)
  BY DEF At
<1> HIDE DEF s, u
<1>8. f.op = "start" => /\ o.stage = "starting" /\ StartFine(l, o, f) /\ f.answer = "ok"
                        /\ o.handle = "open" /\ ~Has(u, "spicedb_start") /\ ~Opening(u)
                        /\ l # "rust" => o.channel = "open"
  <2>1. f.op = "start" => o.stage = "starting" /\ StartFine(l, o, f)
    BY <1>7 DEF ThreadFine
  <2>2. f.op = "start" => f.answer \notin {"error", "rejected"}
    BY <1>1, <1>6, <2>1 DEF StartFine, s
  <2>3. f.answer \in {"ok", "error", "rejected"}
    BY DEF At, Frames
  <2>4. ~Opening(u) /\ ~Has(s, "openChannel")
    BY <1>1, <1>2 DEF Opening, Opens
  <2>5. f.op = "start" /\ l # "rust" => o.channel = "open"
    BY <1>2, <1>5, <2>1, <2>2, <2>3, <2>4 DEF StartFine, Languages, s
  <2> QED BY <1>1, <1>2, <1>6, <2>1, <2>2, <2>3, <2>4, <2>5 DEF StartFine, s
<1>a. ~Has(u, "openChannel")
  BY <1>1, <1>2 DEF Opening, Opens
<1>9. f.op = "start" => StartFine(l, p, g)
  BY <1>1, <1>2, <1>3, <1>4, <1>8, <1>a DEF StartFine, s, u
<1>10. BufferHeld(l, g)
  BY <1>2, <1>3 DEF BufferHeld, u
<1>11. ThreadFine(l, p, g)
  BY <1>1, <1>3, <1>4, <1>6, <1>7, <1>9, <1>10 DEF ThreadFine, u
<1>12. f.op = "start" /\ m = "WriteRelationships" /\ o.want.schema => "WriteSchema" \in o.written
  BY <1>1, <1>2, <1>8 DEF StartFine, s
<1>13. f.op = "call" /\ o.want.schema => "WriteSchema" \in o.written
  BY <1>5, <1>7 DEF ObjectFine, ThreadFine, At, Objects
<1>d. o.stage # "failed"
  BY <1>7 DEF ThreadFine
<1>14. ObjectFine(l, p)
  BY <1>4, <1>6, <1>7, <1>12, <1>13, <1>d DEF ObjectFine
<1>15. NodeFine(l, p, g)
  BY <1>3, <1>4, <1>6 DEF NodeFine, NodeObject, At
<1>16. ~WillClose(f)
  BY <1>6 DEF WillClose
<1> QED BY <1>3, <1>4, <1>6, <1>11, <1>14, <1>15, <1>16 DEF Goes

LEMMA DisposeGoes ==
    ASSUME NEW l, NEW o, NEW f, At(l, o, f), Head(f.todo) = "spicedb_dispose",
           NEW g \in Frames, NEW p \in Objects,
           \/ o.handle = "open" /\ HandleSet(o, p, "closing") /\ After(f, g, "wait", "none")
           \/ o.handle # "open" /\ p = o /\ After(f, g, "error", "json")
    PROVE  Goes(l, o, p, f, g)
<1> DEFINE s == f.todo
           u == g.todo
<1>0. PICK a, b : After(f, g, a, b)
  OBVIOUS
<1>1. /\ Form(l, f.op, u) /\ s[1] = "spicedb_dispose" /\ u = Tail(s) /\ Form(l, f.op, s)
      /\ \A x : Has(s, x) <=> s[1] = x \/ Has(u, x)
  BY <1>0, Ahead
<1>2. s # <<>> /\ f.answer # "wait" /\ f.op \in {"start", "rescue", "call", "close"} /\ l \in Languages
      /\ ThreadFine(l, o, f) /\ ObjectFine(l, o) /\ o \in Objects
  BY DEF At, Frames
<1> HIDE DEF s, u
<1>3. s[1] \in StepsOf(l, f.op) /\ FreeNext(u)
  BY <1>1, <1>2, FormHead
<1>4. ~Has(u, "spicedb_dispose") /\ (Has(s, "setFlag") => l = "csharp")
  BY <1>1, <1>2, FormHead
<1>5. f.op = "close" /\ l \in {"node", "python", "csharp"} => RaiseAhead(u)
  <2> HAVE f.op = "close" /\ l \in {"node", "python", "csharp"}
  <2>1. Form(l, "close", s)
    BY <1>1
  <2>2. s[1] = "spicedb_dispose" /\ u = Tail(s) /\ s # <<>>
    BY <1>1, <1>2
  <2> QED BY <2>1, <2>2, FormHead
<1>6. ~Has(s, "checkFlag")
  BY <1>1, <1>2, FormHead
<1>7. f.op \in {"close", "rescue"}
  BY <1>1, <1>2, <1>3, StepOps
<1>8. /\ g.op = f.op
      /\ p.stage = o.stage /\ p.want = o.want /\ p.channel = o.channel /\ p.flag = o.flag
      /\ p.written = o.written /\ p.closes = o.closes /\ p.unhandled = o.unhandled
      /\ \/ o.handle = "open" /\ p.handle = "closing" /\ g.answer = "wait" /\ g.buf = "none"
         \/ o.handle # "open" /\ p.handle = o.handle /\ g.answer = "error" /\ g.buf = "json"
  BY DEF HandleSet, After
<1>9. f.op = "rescue" => /\ RescueFine(l, o, f) /\ o.handle = "open" /\ o.stage = "starting"
                         /\ o.unhandled = "none"
  <2>1. f.op = "rescue" => RescueFine(l, o, f) /\ o.stage = "starting"
    BY <1>2 DEF ThreadFine
  <2> QED BY <1>1, <1>2, <2>1 DEF RescueFine, s
<1>10. f.op = "close" => /\ CloseFine(l, o, f) /\ o.stage # "starting"
                         /\ l \in {"rust", "node"} => o.handle = "open"
                         /\ l = "rust" => o.stage = "dropped"
  <2>1. f.op = "close" => /\ CloseFine(l, o, f) /\ o.stage # "starting"
                          /\ l = "rust" => o.stage = "dropped"
    BY <1>2 DEF ThreadFine
  <2> QED BY <1>1, <1>4, <2>1 DEF CloseFine, s
<1>11. f.op = "rescue" => RescueFine(l, p, g)
  BY <1>1, <1>4, <1>6, <1>8, <1>9 DEF RescueFine, s, u
<1>12. f.op = "close" => CloseFine(l, p, g)
  BY <1>1, <1>2, <1>4, <1>5, <1>8, <1>10 DEF CloseFine, Languages, s, u
<1>13. BufferHeld(l, g)
  BY <1>3, <1>8 DEF BufferHeld, u
<1>14. ThreadFine(l, p, g)
  BY <1>1, <1>2, <1>7, <1>8, <1>10, <1>11, <1>12, <1>13 DEF ThreadFine, u
<1>15. ObjectFine(l, p)
  BY <1>2, <1>7, <1>8, <1>9, <1>10 DEF ObjectFine, ThreadFine
<1>16. NodeFine(l, p, g)
  BY <1>1, <1>4, <1>7, <1>8, <1>9 DEF NodeFine, u
<1>17. p.channel = "open" /\ p.handle = "closing" /\ o.handle = "open" => WillClose(g)
  <2>1. ~Has(s, "closeChannel") => o.channel # "open"
    BY <1>7, <1>9, <1>10 DEF RescueFine, CloseFine, s
  <2> QED BY <1>1, <1>4, <1>7, <1>8, <2>1 DEF WillClose, u
<1>18. ~WillClose(f)
  BY <1>1 DEF WillClose, s
<1> QED BY <1>2, <1>7, <1>8, <1>14, <1>15, <1>16, <1>17, <1>18 DEF Goes

LEMMA RaiseGoes ==
    ASSUME NEW l, NEW o, NEW f, At(l, o, f), Head(f.todo) = "raise", f.answer = "ok",
           NEW g \in Frames, After(f, g, f.answer, f.buf)
    PROVE  Goes(l, o, o, f, g)
<1> DEFINE s == f.todo
           u == g.todo
<1>1. /\ Form(l, f.op, u) /\ s[1] = "raise"
      /\ \A x : x # "raise" => (Has(s, x) <=> Has(u, x))
      /\ ~FreeNext(s) /\ (RaiseThenFree(s) => FreeNext(u))
  BY Ahead
<1>2. g.op = f.op /\ g.answer = "ok" /\ g.buf = f.buf
  BY DEF After
<1>3. ThreadFine(l, o, f)
  BY DEF At
<1>a. Opening(s) <=> Opening(u)
  BY <1>1 DEF Opening, Opens
<1>b. s # <<>>
  BY DEF At, s
<1>4. f.op = "start" => StartFine(l, o, g)
  BY <1>1, <1>2, <1>3, <1>a DEF ThreadFine, StartFine, s, u
<1>5. f.op = "rescue" => RescueFine(l, o, g)
  BY <1>1, <1>2, <1>3, <1>b DEF ThreadFine, RescueFine, s, u
<1>6. f.op = "close" => CloseFine(l, o, g)
  BY <1>1, <1>2, <1>3 DEF ThreadFine, CloseFine, s, u
<1>7. BufferHeld(l, g)
  BY <1>1, <1>2, <1>3 DEF BufferHeld, ThreadFine, s, u
<1>8. ThreadFine(l, o, g)
  BY <1>1, <1>2, <1>3, <1>4, <1>5, <1>6, <1>7 DEF ThreadFine, u
<1>9. NodeFine(l, o, g)
  BY <1>1, <1>2 DEF NodeFine, At, s, u
<1>10. WillClose(f) => WillClose(g)
  BY <1>1, <1>2 DEF WillClose, s, u
<1> QED BY <1>2, <1>8, <1>9, <1>10 DEF Goes, At

LEMMA OpenGoes ==
    ASSUME NEW l, NEW o, NEW f, At(l, o, f), NEW g \in Frames, NEW p \in Objects,
           Head(f.todo) \in {"openChannel", "tryChannel"},
           \/ ChannelSet(o, p, "open") /\ After(f, g, "ok", "none")
           \/ Head(f.todo) = "tryChannel" /\ p = o /\ After(f, g, "error", "none")
    PROVE  Goes(l, o, p, f, g)
<1> DEFINE s == f.todo
           u == g.todo
<1>0. PICK a, b : After(f, g, a, b)
  OBVIOUS
<1>1. /\ Form(l, f.op, u) /\ s[1] = Head(f.todo) /\ u = Tail(s) /\ Form(l, f.op, s)
      /\ \A x : Has(s, x) <=> s[1] = x \/ Has(u, x)
      /\ RaiseAhead(s) => s[1] \in {"free", "raise"}
  BY <1>0, Ahead
<1>2. s # <<>> /\ f.answer \in {"ok", "error", "rejected"} /\ f.op \in {"start", "rescue", "call", "close"}
      /\ l \in Languages /\ ThreadFine(l, o, f) /\ ObjectFine(l, o) /\ o \in Objects
  BY DEF At, Frames
<1> HIDE DEF s, u
<1>3. s[1] \in StepsOf(l, f.op) /\ ~Has(s, "spicedb_start")
  BY <1>1, <1>2, FormHead
<1>a. Opening(s) /\ ~Opening(u)
  <2>1. Opening(s) /\ s[1] \in Opens
    BY <1>1 DEF Opening, Opens
  <2> QED BY <1>1, <1>2, <2>1, FormHead
<1>4. s[1] = "tryChannel" => RaiseAhead(u)
  BY <1>1, <1>2, FormHead
<1>5. f.op = "start" /\ l # "rust" /\ (s[1] = "tryChannel" => l \notin {"node", "python"})
  BY <1>1, <1>2, <1>3, StepOps
<1>6. /\ g.op = f.op /\ g.buf = "none"
      /\ p.stage = o.stage /\ p.want = o.want /\ p.handle = o.handle /\ p.flag = o.flag
      /\ p.written = o.written /\ p.closes = o.closes /\ p.unhandled = o.unhandled
      /\ \/ p.channel = "open" /\ g.answer = "ok"
         \/ s[1] = "tryChannel" /\ p.channel = o.channel /\ g.answer = "error"
  BY <1>1 DEF ChannelSet, After
<1>7. StartFine(l, o, f) /\ o.stage = "starting"
  BY <1>2, <1>5 DEF ThreadFine
<1>8. f.answer = "ok" /\ o.handle = "open" /\ o.channel = "none"
  BY <1>1, <1>2, <1>3, <1>7, <1>a DEF StartFine, s
<1>b. ~Has(u, "openChannel")
  BY <1>a DEF Opening, Opens
<1>9. StartFine(l, p, g)
  BY <1>1, <1>3, <1>4, <1>5, <1>6, <1>7, <1>8, <1>a, <1>b DEF StartFine, s, u
<1>10. BufferHeld(l, g)
  BY <1>6 DEF BufferHeld
<1>11. ThreadFine(l, p, g)
  BY <1>1, <1>5, <1>6, <1>7, <1>9, <1>10 DEF ThreadFine, u
<1>12. ObjectFine(l, p)
  BY <1>2, <1>5, <1>6, <1>7 DEF ObjectFine, StartFine
<1>13. NodeFine(l, p, g)
  BY <1>6, <1>7 DEF NodeFine
<1> QED BY <1>5, <1>6, <1>8, <1>11, <1>12, <1>13 DEF Goes

LEMMA CloseChannelGoes ==
    ASSUME NEW l, NEW o, NEW f, At(l, o, f), Head(f.todo) = "closeChannel", NEW g \in Frames,
           NEW p \in Objects, ChannelSet(o, p, "closed"), After(f, g, f.answer, f.buf)
    PROVE  Goes(l, o, p, f, g)
<1> DEFINE s == f.todo
           u == g.todo
<1>1. /\ Form(l, f.op, u) /\ s[1] = "closeChannel" /\ u = Tail(s) /\ Form(l, f.op, s)
      /\ \A x : x # "closeChannel" => (Has(s, x) <=> Has(u, x))
      /\ ~RaiseAhead(s) /\ ~FreeNext(s) /\ ~RaiseThenFree(s)
  BY Ahead
<1>2. s # <<>> /\ f.answer # "wait" /\ f.op \in {"start", "rescue", "call", "close"}
      /\ l \in Languages /\ o \in Objects /\ ThreadFine(l, o, f) /\ ObjectFine(l, o) /\ NodeFine(l, o, f)
  BY DEF At, Frames
<1> HIDE DEF s, u
<1>3. s[1] \in StepsOf(l, f.op)
  BY <1>1, <1>2, FormHead
<1>4. f.op \in {"close", "rescue"} /\ l # "rust"
  BY <1>1, <1>2, <1>3, StepOps
<1>5. /\ g.op = f.op /\ g.buf = f.buf /\ g.answer = f.answer
      /\ p.stage = o.stage /\ p.want = o.want /\ p.handle = o.handle /\ p.flag = o.flag
      /\ p.written = o.written /\ p.closes = o.closes /\ p.channel = "closed"
      /\ p.unhandled = o.unhandled
  BY DEF ChannelSet, After
<1>6. f.op = "rescue" => RescueFine(l, p, g)
  BY <1>1, <1>2, <1>5 DEF RescueFine, ThreadFine, s, u
<1>7. f.op = "close" => CloseFine(l, p, g)
  BY <1>1, <1>2, <1>5 DEF CloseFine, ThreadFine, NodeObject, s, u
<1>8. BufferHeld(l, g)
  BY <1>1, <1>2, <1>5 DEF BufferHeld, ThreadFine, s
<1>9. ThreadFine(l, p, g)
  BY <1>1, <1>2, <1>4, <1>5, <1>6, <1>7, <1>8 DEF ThreadFine, u
<1>d. o.stage # "failed"
  BY <1>2 DEF ThreadFine
<1>10. ObjectFine(l, p)
  BY <1>2, <1>4, <1>5, <1>d DEF ObjectFine
<1>11. NodeFine(l, p, g)
  BY <1>1, <1>2, <1>5 DEF NodeFine, NodeObject, s, u
<1> QED BY <1>2, <1>5, <1>9, <1>10, <1>11 DEF Goes

LEMMA CheckGoes ==
    ASSUME NEW l, NEW o, NEW f, At(l, o, f), Head(f.todo) = "checkFlag", o.flag = "clear",
           NEW g \in Frames, After(f, g, f.answer, f.buf)
    PROVE  Goes(l, o, o, f, g)
<1> DEFINE s == f.todo
           u == g.todo
<1>1. /\ Form(l, f.op, u) /\ s[1] = "checkFlag" /\ u = Tail(s) /\ Form(l, f.op, s)
      /\ \A x : x # "checkFlag" => (Has(s, x) <=> Has(u, x))
      /\ ~RaiseAhead(s) /\ ~FreeNext(s) /\ ~RaiseThenFree(s)
  BY Ahead
<1>2. s # <<>> /\ f.answer # "wait" /\ f.op \in {"start", "rescue", "call", "close"}
      /\ l \in Languages /\ o \in Objects /\ ThreadFine(l, o, f) /\ ObjectFine(l, o) /\ NodeFine(l, o, f)
  BY DEF At, Frames
<1> HIDE DEF s, u
<1>3. s[1] \in StepsOf(l, f.op)
  BY <1>1, <1>2, FormHead
<1>a. Has(s, "spicedb_dispose") /\ Has(s, "setFlag") /\ ~Has(u, "checkFlag")
  BY <1>1, <1>2, FormHead
<1>4. f.op \in {"close", "rescue"}
  BY <1>1, <1>2, <1>3, StepOps
<1>5. g.op = f.op /\ g.buf = f.buf /\ g.answer = f.answer
  BY DEF After
<1>6. f.op = "rescue" => RescueFine(l, o, g)
  BY <1>1, <1>2, <1>5 DEF RescueFine, ThreadFine, s, u
<1>7. f.op = "close" => CloseFine(l, o, g)
  BY <1>1, <1>2, <1>a, <1>5 DEF CloseFine, ThreadFine, s, u
<1>8. BufferHeld(l, g)
  BY <1>1, <1>2, <1>5 DEF BufferHeld, ThreadFine, s
<1>9. ThreadFine(l, o, g)
  BY <1>1, <1>2, <1>4, <1>5, <1>6, <1>7, <1>8 DEF ThreadFine, u
<1>11. NodeFine(l, o, g)
  BY <1>1, <1>2, <1>5 DEF NodeFine, s, u
<1>12. WillClose(f) => WillClose(g)
  BY <1>1, <1>5 DEF WillClose, s, u
<1> QED BY <1>2, <1>5, <1>9, <1>11, <1>12 DEF Goes

LEMMA SetFlagGoes ==
    ASSUME NEW l, NEW o, NEW f, At(l, o, f), Head(f.todo) = "setFlag", NEW g \in Frames,
           NEW p \in Objects, FlagSet(o, p, "set"), After(f, g, f.answer, f.buf)
    PROVE  Goes(l, o, p, f, g)
<1> DEFINE s == f.todo
           u == g.todo
<1>1. /\ Form(l, f.op, u) /\ s[1] = "setFlag" /\ u = Tail(s) /\ Form(l, f.op, s)
      /\ \A x : x # "setFlag" => (Has(s, x) <=> Has(u, x))
      /\ Has(s, "setFlag")
      /\ ~RaiseAhead(s) /\ ~FreeNext(s) /\ ~RaiseThenFree(s)
  BY Ahead
<1>2. s # <<>> /\ f.answer \in {"ok", "error", "rejected"} /\ f.op \in {"start", "rescue", "call", "close"}
      /\ l \in Languages /\ o \in Objects /\ ThreadFine(l, o, f) /\ ObjectFine(l, o) /\ NodeFine(l, o, f)
  BY DEF At, Frames
<1> HIDE DEF s, u
<1>3. s[1] \in StepsOf(l, f.op)
  BY <1>1, <1>2, FormHead
<1>a. ~Has(u, "setFlag")
  BY <1>1, <1>2, FormHead
<1>b. ~Has(s, "checkFlag")
  BY <1>1, <1>2, FormHead
<1>c. l = "csharp" => u = <<>>
  BY <1>1, <1>2, FormHead
<1>4. f.op \in {"close", "rescue"} /\ l \in {"node", "csharp"}
  BY <1>1, <1>2, <1>3, StepOps
<1>5. /\ g.op = f.op /\ g.buf = f.buf /\ g.answer = f.answer
      /\ p.stage = o.stage /\ p.want = o.want /\ p.handle = o.handle /\ p.channel = o.channel
      /\ p.written = o.written /\ p.closes = o.closes /\ p.flag = "set"
      /\ p.unhandled = o.unhandled
  BY DEF FlagSet, After
<1>6. f.op = "rescue" => RescueFine(l, p, g)
  BY <1>1, <1>2, <1>b, <1>5 DEF RescueFine, ThreadFine, s, u
<1>d. f.op = "close" => CloseFine(l, o, f) /\ o.stage # "starting" /\ f.answer # "rejected"
  BY <1>2 DEF ThreadFine
<1>e. f.op = "close" /\ l = "node" => o.handle = "open"
  BY <1>1, <1>2, <1>b, <1>d DEF CloseFine, NodeObject, s
<1>f. f.op = "close" /\ l = "csharp" => o.handle = "closed" /\ o.channel # "open"
  BY <1>1, <1>2, <1>c, <1>d, HasEmpty DEF CloseFine, s
<1>g. f.op = "rescue" => o.stage = "starting"
  BY <1>2 DEF ThreadFine
<1>7. f.op = "close" => CloseFine(l, p, g)
  BY <1>1, <1>2, <1>a, <1>5, <1>d, <1>e DEF CloseFine, s, u
<1>8. BufferHeld(l, g)
  BY <1>1, <1>2, <1>5 DEF BufferHeld, ThreadFine, s
<1>9. ThreadFine(l, p, g)
  BY <1>1, <1>2, <1>4, <1>5, <1>6, <1>7, <1>8 DEF ThreadFine, u
<1>h. o.stage # "failed"
  BY <1>2 DEF ThreadFine
<1>10. ObjectFine(l, p)
  BY <1>2, <1>4, <1>5, <1>f, <1>g, <1>h DEF ObjectFine
<1>11. NodeFine(l, p, g)
  BY <1>a, <1>4, <1>5, <1>g DEF NodeFine, u
<1>12. WillClose(f) => WillClose(g)
  BY <1>1, <1>5 DEF WillClose, s, u
<1> QED BY <1>2, <1>5, <1>9, <1>10, <1>11, <1>12 DEF Goes

\* The dispose a thread waits for returns.
LEMMA ReturnsGoes ==
    ASSUME NEW l \in Languages, NEW o \in Objects, NEW f \in Frames, f.op # "none",
           ObjectFine(l, o), ThreadFine(l, o, f), NodeFine(l, o, f),
           f.answer = "wait", NEW g \in Frames, NEW p \in Objects, HandleSet(o, p, "closed"),
           g.op = f.op, g.todo = f.todo, g.answer = "ok", g.buf = "json"
    PROVE  Goes(l, o, p, f, g)
<1>1. f.op \in {"close", "rescue"}
  BY DEF ThreadFine, StartFine, Frames
<1>2. /\ p.stage = o.stage /\ p.want = o.want /\ p.channel = o.channel /\ p.flag = o.flag
      /\ p.written = o.written /\ p.closes = o.closes /\ p.handle = "closed"
      /\ p.unhandled = o.unhandled
  BY DEF HandleSet
<1>3. o.handle = "closing"
  BY <1>1 DEF ThreadFine, RescueFine, CloseFine
<1>4. f.op = "rescue" => RescueFine(l, p, g)
  BY <1>2, <1>3 DEF ThreadFine, RescueFine
<1>5. f.op = "close" => CloseFine(l, p, g)
  <2> HAVE f.op = "close"
  <2>1. CloseFine(l, o, f) /\ o.flag \in {"clear", "set"}
    BY DEF ThreadFine, Objects
  <2> QED BY <1>2, <1>3, <2>1 DEF CloseFine, NodeObject
<1>6. BufferHeld(l, g)
  BY DEF ThreadFine, BufferHeld
<1>7. ThreadFine(l, p, g)
  BY <1>1, <1>2, <1>4, <1>5, <1>6 DEF ThreadFine
<1>8. ObjectFine(l, p)
  BY <1>1, <1>2, <1>3 DEF ObjectFine, ThreadFine
<1>9. NodeFine(l, p, g)
  BY <1>2, <1>3 DEF NodeFine, NodeObject, Objects
<1>10. WillClose(f) => WillClose(g)
  BY DEF WillClose
<1> QED BY <1>1, <1>2, <1>3, <1>7, <1>8, <1>9, <1>10 DEF Goes

\* A start that raised begins to clean up.
LEMMA RescueGoes ==
    ASSUME NEW l, NEW o, NEW f, At(l, o, f), Head(f.todo) = "raise", f.answer = "error",
           f.op = "start", NEW g \in Frames,
           g.op = "rescue", g.todo = RescueOf(l, o), g.answer = "ok", g.buf = "none"
    PROVE  Goes(l, o, o, f, g)
<1> DEFINE u == RescueOf(l, o)
<1>1. l \in Languages /\ o \in Objects /\ ThreadFine(l, o, f) /\ ObjectFine(l, o)
  BY DEF At
<1>2. /\ Form(l, "rescue", u)
      /\ Has(u, "spicedb_dispose") <=>
             IF l \in {"node", "python"} THEN o.channel = "open"
             ELSE IF l = "rust" THEN o.handle = "open"
             ELSE o.channel = "open" \/ o.handle = "open"
      /\ l # "rust" /\ o.channel = "open" => Has(u, "closeChannel")
  BY <1>1, RescueForm
<1> HIDE DEF u
<1>3. StartFine(l, o, f) /\ o.stage = "starting"
  BY <1>1 DEF ThreadFine
<1>4. l = "rust" => o.channel = "none"
  BY <1>1 DEF ObjectFine
<1>5. l \in {"node", "python"} => o.channel = "open" \/ o.handle = "none"
  BY <1>3 DEF StartFine
<1>6. o.channel = "open" => o.handle = "open"
  BY <1>3 DEF StartFine
<1>7. o.closes = {} /\ o.flag = "clear" /\ o.handle \in {"none", "open"} /\ o.unhandled = "none"
  BY <1>3 DEF StartFine
<1>8. RescueFine(l, o, g)
  BY <1>2, <1>4, <1>5, <1>6, <1>7 DEF RescueFine, u
<1>9. BufferHeld(l, g)
  BY DEF BufferHeld
<1>10. ThreadFine(l, o, g)
  BY <1>2, <1>3, <1>8, <1>9 DEF ThreadFine, u
<1>11. NodeFine(l, o, g)
  BY <1>3 DEF NodeFine
<1> QED BY <1>1, <1>3, <1>7, <1>10, <1>11 DEF Goes

\* A start whose exception meets no handler cleans nothing up.
Meets(l, f, at) ==
    \/ at = "answer" /\ Head(f.todo) = "raise" /\ f.answer = "rejected"
    \/ at = "channel" /\ Head(f.todo) \in Opens
    \/ at = "request" /\ l = "java" /\ Head(f.todo) \in Methods

LEMMA UnhandledGoes ==
    ASSUME NEW l, NEW o, NEW f, At(l, o, f), f.op = "start", NEW at, Meets(l, f, at),
           NEW p, UnhandledSet(o, p, at), NEW g \in Frames,
           g.op = "rescue", g.todo = <<>>, g.answer = "ok", g.buf = "none"
    PROVE  Goes(l, o, p, f, g)
<1> DEFINE s == f.todo
           u == Tail(s)
<1>1. /\ l \in Languages /\ o \in Objects /\ s \in Seq(Steps) /\ s # <<>>
      /\ ThreadFine(l, o, f) /\ ObjectFine(l, o) /\ f.answer \in {"ok", "error", "rejected"}
  BY DEF At, Frames
<1>2. StartFine(l, o, f) /\ o.stage = "starting" /\ Form(l, "start", s)
  BY <1>1 DEF ThreadFine
<1>3. Head(s) = s[1] /\ u = Tail(s)
  BY <1>1, TailFacts
<1> HIDE DEF s, u
<1>4. /\ at = "answer" => s[1] = "raise" /\ f.answer = "rejected"
      /\ at = "channel" => s[1] \in Opens
      /\ at = "request" => l = "java" /\ s[1] \in Methods
      /\ at \in {"answer", "channel", "request"}
  BY <1>3 DEF Meets, s
<1>5. at \in {"channel", "request"} => f.answer = "ok"
  <2>1. at \in {"channel", "request"} => s[1] \notin {"free", "raise"}
    BY <1>4, StepNames DEF Opens
  <2>2. RaiseAhead(s) => s[1] \in {"free", "raise"}
    BY DEF RaiseAhead
  <2> QED BY <1>1, <1>2, <2>1, <2>2 DEF StartFine, s
<1>6. at \in {"channel", "request"} => ~Has(s, "spicedb_start")
  <2>1. Has(s, "spicedb_start") => s[1] = "spicedb_start"
    BY <1>1, <1>2, <1>3, FormHead
  <2> QED BY <1>4, <2>1, StepNames DEF Opens
<1>7. o.handle = "open"
  BY <1>2, <1>4, <1>5, <1>6 DEF StartFine, s
<1>8. at = "channel" => o.channel = "none" /\ l # "rust"
  <2>1. s[1] \in Opens => Opening(s)
    BY <1>1 DEF Opening, Has
  <2>2. s[1] \in StepsOf(l, "start")
    BY <1>1, <1>2, <1>3, FormHead
  <2>3. s[1] \in Opens => l # "rust"
    BY <1>1, <2>2, StepOps DEF Opens
  <2> QED BY <1>2, <1>4, <2>1, <2>3 DEF StartFine, s
<1>9. at = "request" => o.channel = "open"
  <2>1. at = "request" => ~Opening(s)
    BY <1>1, <1>2, <1>3, <1>4, FormHead
  <2> QED BY <1>2, <1>4, <1>5, <2>1 DEF StartFine, s
<1>10. at = "answer" => o.channel = "none"
  BY <1>2, <1>4 DEF StartFine
<1>11. /\ p.stage = o.stage /\ p.want = o.want /\ p.handle = o.handle /\ p.channel = o.channel
       /\ p.flag = o.flag /\ p.written = o.written /\ p.closes = o.closes /\ p.unhandled = at
  BY DEF UnhandledSet
<1>12. Remains(l, p)
  BY <1>4, <1>7, <1>8, <1>9, <1>10, <1>11 DEF Remains
<1>13. RescueFine(l, p, g)
  BY <1>2, <1>4, <1>11, <1>12, HasEmpty DEF RescueFine, StartFine
<1>14. BufferHeld(l, g) /\ Form(l, "rescue", <<>>)
  BY DEF BufferHeld, Form
<1>15. ThreadFine(l, p, g)
  BY <1>2, <1>11, <1>13, <1>14 DEF ThreadFine
<1>16. ObjectFine(l, p)
  BY <1>1, <1>2, <1>11 DEF ObjectFine
<1>17. NodeFine(l, p, g)
  BY <1>2, <1>11 DEF NodeFine
<1> QED BY <1>7, <1>11, <1>15, <1>16, <1>17 DEF Goes

\* A thread about to do anything but a free holds a buffer only in Node.
LEMMA HoldsNone ==
    ASSUME NEW l, NEW o, NEW f, At(l, o, f), Head(f.todo) # "free"
    PROVE  /\ f.buf = "none" \/ (l = "node" /\ Head(f.todo) = "raise" /\ f.buf \in {"response", "error"})
           /\ f.answer # "ok" => f.buf \in {"none", "error"}
<1>1. BufferHeld(l, f) /\ f.buf \in Buffers /\ f.todo \in Seq(Steps) /\ f.todo # <<>>
  BY DEF At, ThreadFine, Frames, Buffers
<1>2. ~FreeNext(f.todo)
  BY <1>1, TailFacts DEF FreeNext
<1>3. RaiseThenFree(f.todo) => Head(f.todo) = "raise"
  BY <1>1, TailFacts DEF RaiseThenFree
<1> QED BY <1>1, <1>2, <1>3 DEF BufferHeld, Buffers

-----------------------------------------------------------------------------
\* A thread leaves a method.

\* From object o to p, as the thread with frame f leaves.
Left(l, o, p, f) ==
    /\ p.stage = o.stage \/ (o.stage = "starting" /\ p.stage \in {"ready", "failed"})
    /\ p.handle = o.handle /\ p.channel = o.channel
    /\ f.answer # "wait"
    /\ p.channel = "open" => ~WillClose(f)
    /\ l = "node" /\ p.stage = "ready" => NodeObject(p)
    /\ ObjectFine(l, p)
    /\ f.buf = "none" \/ (l = "node" /\ f.buf = "error")

\* What Leave makes of the object.
Ended(o, p, f, result) ==
    CASE f.op = "start" -> StageSet(o, p, "ready")
      [] f.op = "rescue" -> StageSet(o, p, "failed")
      [] f.op = "close" -> ClosesSet(o, p, o.closes \cup {result})
      [] OTHER -> p = o

LEMMA LeavesOn ==
    ASSUME BindInv, NEW t \in Thread, NEW d \in Db, On(t, d), Types', lang' = lang,
           \A e \in Db : e # d => db'[e] = db[e] /\ leaked'[e] = leaked[e],
           \A u \in Thread : u # t => frame'[u] = frame[u],
           frame'[t] = Idle,
           Left(lang[d], db[d], db'[d], frame[t]),
           leaked'[d] = leaked[d] \cup ({frame[t].buf} \ {"none"})
    PROVE  BindInv'
<1>0. /\ Types /\ AloneAt(d) /\ EndingAt(d)
      /\ ThreadFine(lang[d], db[d], frame[t])
      /\ \A u \in Thread : On(u, d) => ThreadFine(lang[d], db[d], frame[u])
      /\ leaked[d] \subseteq IF lang[d] = "node" THEN {"error"} ELSE {}
  BY DEF BindInv, OnlyNodeErrorsLost
<1>1. /\ ~On(t, d)' /\ Idles(t)'
      /\ \A u \in Thread : u # t => (On(u, d)' <=> On(u, d))
      /\ lang[d] \in Languages /\ db[d] \in Objects /\ db'[d] \in Objects
      /\ \A u \in Thread : frame[u] \in Frames
  BY <1>0 DEF On, Types, Idle, Idles
<1>2. ASSUME NEW u \in Thread, u # t, On(u, d)
      PROVE  db[d].stage # "starting" /\ lang[d] # "node" /\ ThreadFine(lang[d], db'[d], frame[u])
  <2>1. db[d].stage # "starting" /\ lang[d] # "node"
    BY <1>0, <1>2 DEF AloneAt
  <2>2. ThreadFine(lang[d], db[d], frame[u]) /\ frame[u].op # "none"
    BY <1>0, <1>2 DEF On
  <2>3. db'[d].stage = db[d].stage /\ db'[d].handle = db[d].handle /\ db'[d].channel = db[d].channel
    BY <2>1 DEF Left
  <2> QED BY <1>1, <2>1, <2>2, <2>3, Bystander
<1>3. AloneAt(d)'
  <2> SUFFICES ASSUME NEW u \in Thread, NEW v \in Thread, On(u, d)', On(v, d)', u # v
               PROVE  /\ db'[d].stage # "starting" /\ lang[d] # "node"
                      /\ lang[d] = "rust" => frame'[u].op # "close" \/ frame'[v].op # "close"
                      /\ frame'[u].answer # "wait" \/ frame'[v].answer # "wait"
    BY DEF AloneAt
  <2>1. u # t /\ v # t /\ On(u, d) /\ On(v, d)
    BY <1>1
  <2>2. /\ db[d].stage # "starting" /\ lang[d] # "node"
        /\ lang[d] = "rust" => frame[u].op # "close" \/ frame[v].op # "close"
        /\ frame[u].answer # "wait" \/ frame[v].answer # "wait"
    BY <1>0, <2>1 DEF AloneAt
  <2> QED BY <2>1, <2>2 DEF Left
<1>4. EndingAt(d)'
  <2>1. db'[d].stage \in {"new", "failed"} => Nobody(d)'
    <3>1. db'[d].stage \in {"new", "failed"} => db[d].stage = "starting"
      BY <1>0 DEF ThreadFine, Left
    <3> QED BY <1>1, <1>2, <3>1 DEF Nobody
  <2>2. db'[d].handle = "closing" => Waits(d)'
    <3> HAVE db'[d].handle = "closing"
    <3>1. PICK u \in Thread : On(u, d) /\ frame[u].answer = "wait"
      BY <1>0 DEF EndingAt, Waits, Left
    <3>2. u # t
      BY <3>1 DEF Left
    <3> QED BY <1>1, <3>1, <3>2 DEF Waits
  <2>3. db'[d].channel = "open" /\ db'[d].handle \in {"closing", "closed"} => Closing(d)'
    <3> HAVE db'[d].channel = "open" /\ db'[d].handle \in {"closing", "closed"}
    <3>1. PICK u \in Thread : Closer(u, d)
      BY <1>0 DEF EndingAt, Closing, Left
    <3>2. u # t
      BY <3>1 DEF Left, Closer
    <3>3. Closer(u, d)'
      BY <1>1, <3>1, <3>2 DEF Closer
    <3> QED BY <3>3 DEF Closing
  <2>4. lang[d] = "node" /\ db'[d].stage = "ready" => NodeObject(db'[d])
    BY DEF Left
  <2> QED BY <2>1, <2>2, <2>3, <2>4 DEF EndingAt
<1>5. leaked'[d] \subseteq IF lang[d] = "node" THEN {"error"} ELSE {}
  BY <1>0 DEF Left
<1>6. ObjectFine(lang[d], db'[d])
  BY DEF Left
<1> QED BY <1>1, <1>2, <1>3, <1>4, <1>5, <1>6, StepPreserves

\* At the end of its program ...
LEMMA ReturnLeaves ==
    ASSUME NEW l \in Languages, NEW o \in Objects, NEW f \in Frames, f.op # "none",
           ObjectFine(l, o), ThreadFine(l, o, f), NodeFine(l, o, f),
           f.todo = <<>>, f.answer # "wait", NEW p \in Objects, Ended(o, p, f, "ok")
    PROVE  Left(l, o, p, f)
<1>1. \A x : ~Has(f.todo, x)
  BY HasEmpty
<1>2. ~FreeNext(f.todo) /\ ~RaiseAhead(f.todo) /\ ~RaiseThenFree(f.todo)
  BY DEF FreeNext, RaiseAhead, RaiseThenFree
<1>3. f.buf = "none"
  BY <1>2 DEF ThreadFine, BufferHeld, Frames
<1>4. ~WillClose(f)
  BY <1>1 DEF WillClose
<1>5. f.answer \in {"ok", "error", "rejected"} /\ (f.op # "start" => f.answer # "rejected")
  BY DEF Frames, ThreadFine
<1>6. CASE f.op = "start"
  <2>1. /\ p.stage = "ready" /\ p.want = o.want /\ p.handle = o.handle /\ p.channel = o.channel
        /\ p.flag = o.flag /\ p.written = o.written /\ p.closes = o.closes
        /\ p.unhandled = o.unhandled
    BY <1>6 DEF Ended, StageSet
  <2>2. StartFine(l, o, f) /\ o.stage = "starting"
    BY <1>6 DEF ThreadFine
  <2>3. f.answer = "ok" /\ o.handle = "open" /\ o.flag = "clear" /\ o.closes = {}
    BY <1>1, <1>2, <1>5, <2>2 DEF StartFine
  <2>4. o.want.schema =>
            "WriteSchema" \in o.written /\ (o.want.rels => "WriteRelationships" \in o.written)
    BY <1>1, <2>2, <2>3 DEF StartFine
  <2>5. ObjectFine(l, p)
    BY <2>1, <2>2, <2>3, <2>4 DEF ObjectFine
  <2>6. NodeObject(p)
    BY <2>1, <2>3 DEF NodeObject
  <2> QED BY <1>3, <1>4, <2>1, <2>2, <2>5, <2>6 DEF Left
<1>7. CASE f.op = "rescue"
  <2>1. /\ p.stage = "failed" /\ p.want = o.want /\ p.handle = o.handle /\ p.channel = o.channel
        /\ p.flag = o.flag /\ p.written = o.written /\ p.closes = o.closes
        /\ p.unhandled = o.unhandled
    BY <1>7 DEF Ended, StageSet
  <2>2. RescueFine(l, o, f) /\ o.stage = "starting"
    BY <1>7 DEF ThreadFine
  <2>3. /\ o.closes = {} /\ f.answer = "ok"
        /\ o.unhandled = "none" => o.handle \in {"none", "closed"} /\ o.channel # "open"
        /\ o.unhandled # "none" => Remains(l, o)
    BY <1>1, <1>5, <1>7, <2>2 DEF RescueFine
  <2>4. l = "rust" => p.channel = "none"
    BY <2>1 DEF ObjectFine
  <2>5. o.want.schema => ("WriteRelationships" \in o.written => "WriteSchema" \in o.written)
    BY DEF ObjectFine
  <2>6. ObjectFine(l, p)
    BY <2>1, <2>3, <2>4, <2>5 DEF ObjectFine, Remains
  <2> QED BY <1>3, <1>4, <2>1, <2>2, <2>6 DEF Left
<1>8. CASE f.op = "close"
  <2>1. /\ p.stage = o.stage /\ p.want = o.want /\ p.handle = o.handle /\ p.channel = o.channel
        /\ p.flag = o.flag /\ p.written = o.written /\ p.closes = o.closes \cup {"ok"}
        /\ p.unhandled = o.unhandled
    BY <1>8 DEF Ended, ClosesSet
  <2>2. CloseFine(l, o, f) /\ o.stage \in {"ready", "dropped"}
    BY <1>8 DEF ThreadFine, Objects
  <2>3. /\ o.handle # "open" /\ o.channel # "open"
        /\ l # "java" => o.handle = "closed"
        /\ l = "node" => o.flag = "set"
    BY <1>1, <1>2, <1>5, <1>8, <2>2 DEF CloseFine
  <2>4. ObjectFine(l, p)
    BY <2>1, <2>2, <2>3 DEF ObjectFine
  <2>5. l = "node" => NodeObject(p)
    BY <2>1, <2>3 DEF NodeObject
  <2> QED BY <1>3, <1>4, <2>1, <2>4, <2>5 DEF Left
<1>9. CASE f.op = "call"
  <2>1. p = o
    BY <1>9 DEF Ended
  <2>2. l = "node" /\ o.stage = "ready" => NodeObject(o)
    BY <1>9 DEF NodeFine
  <2> QED BY <1>3, <1>4, <2>1, <2>2 DEF Left
<1> QED BY <1>6, <1>7, <1>8, <1>9 DEF Frames

\* ... or because somebody has closed the object ...
LEMMA CheckLeaves ==
    ASSUME NEW l, NEW o, NEW f, At(l, o, f), Head(f.todo) = "checkFlag", o.flag = "set",
           NEW p \in Objects, Ended(o, p, f, "ok")
    PROVE  Left(l, o, p, f)
<1> DEFINE s == f.todo
<1>1. /\ Form(l, f.op, s) /\ s # <<>> /\ f.op \in {"start", "rescue", "call", "close"}
      /\ l \in Languages /\ o \in Objects /\ ThreadFine(l, o, f) /\ ObjectFine(l, o)
      /\ f.answer # "wait" /\ f.buf \in Buffers
  BY DEF At, ThreadFine, Frames, Buffers
<1>2. /\ s[1] = "checkFlag" /\ Has(s, "checkFlag")
      /\ ~RaiseAhead(s) /\ ~FreeNext(s) /\ ~RaiseThenFree(s)
  <2>1. s \in Seq(Steps)
    BY <1>1 DEF Form
  <2>2. Len(s) >= 1 /\ s[1] = "checkFlag"
    BY <1>1, <2>1, TailFacts
  <2> QED BY <2>1, <2>2 DEF Has, RaiseAhead, FreeNext, RaiseThenFree
<1> HIDE DEF s
<1>3. s[1] \in StepsOf(l, f.op)
  BY <1>1, FormHead
<1>4. Has(s, "spicedb_dispose") /\ Has(s, "setFlag")
  BY <1>1, <1>2, FormHead
<1>5. f.op \in {"close", "rescue"} /\ l \in {"node", "csharp"}
  BY <1>1, <1>2, <1>3, StepOps
<1>6. f.op # "rescue"
  BY <1>1, <1>2 DEF ThreadFine, RescueFine, s
<1>7. CloseFine(l, o, f) /\ o.stage = "ready"
  BY <1>1, <1>5, <1>6 DEF ThreadFine, ObjectFine, Objects
<1>8. o.handle = "closed" /\ o.channel # "open"
  <2>1. CASE l = "csharp"
    BY <1>1, <1>7, <2>1 DEF ObjectFine
  <2>2. CASE l = "node"
    BY <1>4, <1>7, <2>2 DEF CloseFine, NodeObject, s
  <2> QED BY <1>5, <2>1, <2>2
<1>9. /\ p.stage = o.stage /\ p.want = o.want /\ p.handle = o.handle /\ p.channel = o.channel
      /\ p.flag = o.flag /\ p.written = o.written /\ p.closes = o.closes \cup {"ok"}
      /\ p.unhandled = o.unhandled
  BY <1>5, <1>6 DEF Ended, ClosesSet
<1>10. ObjectFine(l, p)
  BY <1>1, <1>5, <1>7, <1>8, <1>9 DEF ObjectFine
<1>11. NodeObject(p)
  BY <1>8, <1>9 DEF NodeObject
<1>12. f.buf = "none"
  BY <1>1, <1>2 DEF ThreadFine, BufferHeld, Buffers, s
<1> QED BY <1>1, <1>8, <1>9, <1>10, <1>11, <1>12 DEF Left

\* ... or with an exception.
LEMMA RaiseLeaves ==
    ASSUME NEW l, NEW o, NEW f, At(l, o, f), Head(f.todo) = "raise", f.answer = "error",
           f.op # "start", NEW p \in Objects, Ended(o, p, f, "error")
    PROVE  Left(l, o, p, f)
<1> DEFINE s == f.todo
<1>1. /\ Form(l, f.op, s) /\ s # <<>> /\ f.op \in {"rescue", "call", "close"}
      /\ l \in Languages /\ o \in Objects /\ ThreadFine(l, o, f) /\ ObjectFine(l, o)
      /\ NodeFine(l, o, f) /\ f.buf \in Buffers
  BY DEF At, ThreadFine, Frames, Buffers
<1>2. ~FreeNext(s)
  <2>1. s \in Seq(Steps)
    BY <1>1 DEF Form
  <2> QED BY <1>1, <2>1, TailFacts DEF FreeNext
<1> HIDE DEF s
<1>3. f.buf = "none" \/ (l = "node" /\ f.buf = "error")
  BY <1>1, <1>2 DEF ThreadFine, BufferHeld, Buffers, s
<1>4. ~WillClose(f)
  BY DEF WillClose
<1>5. f.op # "rescue"
  BY <1>1 DEF ThreadFine, RescueFine
<1>6. CASE f.op = "close"
  <2>1. /\ p.stage = o.stage /\ p.want = o.want /\ p.handle = o.handle /\ p.channel = o.channel
        /\ p.flag = o.flag /\ p.written = o.written /\ p.closes = o.closes \cup {"error"}
        /\ p.unhandled = o.unhandled
    BY <1>6 DEF Ended, ClosesSet
  <2>2. CloseFine(l, o, f) /\ o.stage \in {"ready", "dropped"}
    BY <1>1, <1>6 DEF ThreadFine, Objects
  <2>3. o.handle # "open" /\ l # "node"
    BY <2>2 DEF CloseFine
  <2>4. ObjectFine(l, p)
    BY <1>1, <2>1, <2>2, <2>3 DEF ObjectFine
  <2> QED BY <1>3, <1>4, <2>1, <2>3, <2>4 DEF Left
<1>7. CASE f.op = "call"
  <2>1. p = o
    BY <1>7 DEF Ended
  <2>2. l = "node" /\ o.stage = "ready" => NodeObject(o)
    BY <1>1, <1>7 DEF NodeFine
  <2> QED BY <1>1, <1>3, <1>4, <2>1, <2>2 DEF Left
<1> QED BY <1>1, <1>5, <1>6, <1>7

\* A request throws an Error in Java.
LEMMA ThrowLeaves ==
    ASSUME NEW o, NEW f, At("java", o, f), Head(f.todo) \in Methods, f.op # "start",
           NEW p \in Objects, Ended(o, p, f, "error")
    PROVE  Left("java", o, p, f)
<1> DEFINE s == f.todo
<1>1. /\ Form("java", f.op, s) /\ s # <<>> /\ f.op \in {"rescue", "call", "close"}
      /\ "java" \in Languages /\ ObjectFine("java", o) /\ f.answer # "wait"
  BY DEF At, ThreadFine, Frames
<1>2. s[1] \in StepsOf("java", f.op) /\ Head(s) = s[1]
  BY <1>1, FormHead
<1>3. f.op = "call"
  BY <1>1, <1>2, StepOps
<1>4. f.buf = "none"
  BY HoldsNone, StepNames
<1>5. p = o
  BY <1>3 DEF Ended
<1> QED BY <1>1, <1>3, <1>4, <1>5 DEF Left, WillClose

-----------------------------------------------------------------------------
\* The actions.

LEMMA AtThread ==
    ASSUME BindInv, NEW t \in Thread, frame[t].todo # <<>>, frame[t].answer # "wait"
    PROVE  \E d \in Db : /\ d = frame[t].obj /\ On(t, d) /\ Types
                         /\ At(lang[d], db[d], frame[t])
<1>1. LET d == frame[t].obj IN
      /\ Types /\ d \in Db /\ On(t, d) /\ lang[d] \in Languages /\ db[d] \in Objects
      /\ frame[t] \in Frames
      /\ ObjectFine(lang[d], db[d]) /\ ThreadFine(lang[d], db[d], frame[t])
  BY Working
<1>2. NodeFine(lang[frame[t].obj], db[frame[t].obj], frame[t])
  BY <1>1, NodeReady
<1>3. At(lang[frame[t].obj], db[frame[t].obj], frame[t])
  BY <1>1, <1>2 DEF At, On
<1> QED BY <1>1, <1>3

LEMMA Untouched ==
    ASSUME Types, db' = db
    PROVE  db' \in [Db -> Objects] /\ \A e \in Db : db'[e] = db[e]
BY DEF Types

\* A thread enters a program.
LEMMA EnterFacts ==
    ASSUME Types, NEW t \in Thread, NEW d \in Db, NEW op \in {"start", "rescue", "call", "close"},
           NEW s \in Seq(Steps), Enter(t, d, op, s)
    PROVE  /\ frame' \in [Thread -> Frames]
           /\ \A u \in Thread : u # t => frame'[u] = frame[u]
           /\ frame'[t].op = op /\ frame'[t].obj = d /\ frame'[t].todo = s
           /\ frame'[t].answer = "ok" /\ frame'[t].buf = "none"
           /\ \A u \in Thread :
                  IF frame'[u].op = "none" THEN frame'[u] = Idle ELSE frame'[u].obj \in Db
<1> DEFINE g == [op |-> op, obj |-> d, todo |-> s, answer |-> "ok", buf |-> "none"]
<1>1. g \in Frames
  BY DEF Frames
<1>2. g.op = op /\ g.obj = d /\ g.todo = s /\ g.answer = "ok" /\ g.buf = "none"
  OBVIOUS
<1>3. frame' = [frame EXCEPT ![t] = g] /\ frame \in [Thread -> Frames]
  BY DEF Enter, Types
<1> HIDE DEF g
<1>4. /\ frame' \in [Thread -> Frames] /\ frame'[t] = g
      /\ \A u \in Thread : u # t => frame'[u] = frame[u]
  BY <1>1, <1>3
<1> QED BY <1>2, <1>4 DEF Types

\* A start that raised enters its handler, or the none it has.
LEMMA RescueEnters ==
    ASSUME BindInv, NEW t \in Thread, NEW d \in Db, d = frame[t].obj, On(t, d),
           NEW s \in Seq(Steps), Enter(t, d, "rescue", s), Lose(t), lang' = lang,
           db' \in [Db -> Objects], \A e \in Db : e # d => db'[e] = db[e],
           frame[t].buf = "none" \/ (lang[d] = "node" /\ frame[t].buf = "error"),
           \A g \in Frames : /\ g.op = "rescue" /\ g.todo = s
                             /\ g.answer = "ok" /\ g.buf = "none"
                             => Goes(lang[d], db[d], db'[d], frame[t], g)
    PROVE  BindInv'
<1>1. Types /\ leaked[d] \subseteq IF lang[d] = "node" THEN {"error"} ELSE {}
  BY DEF BindInv, OnlyNodeErrorsLost
<1>2. /\ frame' \in [Thread -> Frames]
      /\ \A u \in Thread : u # t => frame'[u] = frame[u]
      /\ frame'[t].op = "rescue" /\ frame'[t].obj = d /\ frame'[t].todo = s
      /\ frame'[t].answer = "ok" /\ frame'[t].buf = "none"
      /\ \A u \in Thread :
             IF frame'[u].op = "none" THEN frame'[u] = Idle ELSE frame'[u].obj \in Db
  BY <1>1, EnterFacts
<1>3. Goes(lang[d], db[d], db'[d], frame[t], frame'[t])
  BY <1>2
<1>4. leaked' \in [Db -> SUBSET {"json", "error", "response"}]
      /\ leaked'[d] \subseteq leaked[d] \cup ({frame[t].buf} \ {"none"})
      /\ \A e \in Db : e # d => leaked'[e] = leaked[e]
  <2> DEFINE k == leaked[d] \cup ({frame[t].buf} \ {"none"})
  <2>1. k \in SUBSET {"json", "error", "response"}
    BY <1>1 DEF Types
  <2>2. leaked' = [leaked EXCEPT ![d] = k]
    BY DEF Lose
  <2> HIDE DEF k
  <2>3. leaked' \in [Db -> SUBSET {"json", "error", "response"}] /\ leaked'[d] = k
        /\ \A e \in Db : e # d => leaked'[e] = leaked[e]
    BY <1>1, <2>1, <2>2 DEF Types
  <2> QED BY <2>3 DEF k
<1>5. leaked'[d] \subseteq IF lang[d] = "node" THEN {"error"} ELSE {}
  BY <1>1, <1>4
<1>6. Types'
  BY <1>1, <1>2, <1>4 DEF Types
<1>7. \A e \in Db : e # d => db'[e] = db[e] /\ leaked'[e] = leaked[e]
  BY <1>4
<1> QED BY <1>2, <1>3, <1>5, <1>6, <1>7, GoesOn

LEMMA UnhandledKeeps ==
    ASSUME BindInv, NEW t \in Thread, NEW d \in Db, d = frame[t].obj, On(t, d), Types,
           At(lang[d], db[d], frame[t]), NEW at \in {"answer", "channel", "request"},
           Unhandled(t, at), Meets(lang[d], frame[t], at)
    PROVE  BindInv'
<1>1. /\ frame[t].op = "start" /\ db' = [db EXCEPT ![d].unhandled = at]
      /\ Enter(t, d, "rescue", <<>>) /\ Lose(t) /\ lang' = lang
  BY DEF Unhandled
<1>2. /\ db' \in [Db -> Objects] /\ \A e \in Db : e # d => db'[e] = db[e]
      /\ UnhandledSet(db[d], db'[d], at)
  BY <1>1, UnhandledSetFacts
<1>3. \A g \in Frames : /\ g.op = "rescue" /\ g.todo = <<>>
                        /\ g.answer = "ok" /\ g.buf = "none"
                        => Goes(lang[d], db[d], db'[d], frame[t], g)
  BY <1>1, <1>2, UnhandledGoes
<1>4. frame[t].buf = "none" \/ (lang[d] = "node" /\ frame[t].buf = "error")
  <2>1. Head(frame[t].todo) # "free"
    BY StepNames DEF Meets, Opens
  <2>2. Head(frame[t].todo) = "raise" => frame[t].answer = "rejected"
    BY StepNames DEF Meets, Opens
  <2> QED BY <2>1, <2>2, HoldsNone
<1>5. <<>> \in Seq(Steps)
  OBVIOUS
<1> DEFINE s == <<>>
<1>6. s \in Seq(Steps) /\ Enter(t, d, "rescue", s)
  BY <1>1, <1>5
<1>7. \A g \in Frames : /\ g.op = "rescue" /\ g.todo = s
                        /\ g.answer = "ok" /\ g.buf = "none"
                        => Goes(lang[d], db[d], db'[d], frame[t], g)
  BY <1>3
<1> HIDE DEF s
<1> QED BY <1>1, <1>2, <1>4, <1>6, <1>7, RescueEnters

LEMMA LeaveKeeps ==
    ASSUME BindInv, NEW t \in Thread, NEW d \in Db, d = frame[t].obj, On(t, d),
           NEW r \in {"ok", "error"}, Leave(t, r),
           \A p \in Objects : Ended(db[d], p, frame[t], r) => Left(lang[d], db[d], p, frame[t])
    PROVE  BindInv'
<1>1. /\ Types /\ frame \in [Thread -> Frames] /\ frame[t] \in Frames /\ db \in [Db -> Objects]
      /\ leaked \in [Db -> SUBSET {"json", "error", "response"}]
  BY DEF BindInv, Types
<1>2. /\ frame' = [frame EXCEPT ![t] = Idle] /\ lang' = lang
      /\ leaked' = [leaked EXCEPT ![d] = leaked[d] \cup ({frame[t].buf} \ {"none"})]
      /\ db' = CASE frame[t].op = "start" -> [db EXCEPT ![d].stage = "ready"]
                 [] frame[t].op = "rescue" -> [db EXCEPT ![d].stage = "failed"]
                 [] frame[t].op = "close" -> [db EXCEPT ![d].closes = @ \cup {r}]
                 [] OTHER -> db
  BY DEF Leave, Lose
<1>3. Idle \in Frames /\ Idle.op = "none"
  <2>1. <<>> \in Seq(Steps)
    OBVIOUS
  <2> QED BY <2>1 DEF Idle, Frames
<1>4. /\ frame' \in [Thread -> Frames] /\ frame'[t] = Idle
      /\ \A u \in Thread : u # t => frame'[u] = frame[u]
  BY <1>1, <1>2, <1>3
<1>5. db' \in [Db -> Objects] /\ (\A e \in Db : e # d => db'[e] = db[e])
      /\ Ended(db[d], db'[d], frame[t], r)
  <2>1. CASE frame[t].op = "start"
    <3>1. db' = [db EXCEPT ![d].stage = "ready"]
      BY <1>2, <2>1
    <3> QED BY <1>1, <2>1, <3>1, StageSetFacts DEF Ended
  <2>2. CASE frame[t].op = "rescue"
    <3>1. db' = [db EXCEPT ![d].stage = "failed"]
      BY <1>2, <2>2
    <3> QED BY <1>1, <2>2, <3>1, StageSetFacts DEF Ended
  <2>3. CASE frame[t].op = "close"
    <3> DEFINE c == db[d].closes \cup {r}
    <3>1. db' = [db EXCEPT ![d].closes = c]
      BY <1>2, <2>3
    <3>2. c \in SUBSET {"ok", "error"}
      BY <1>1 DEF Objects
    <3> HIDE DEF c
    <3>3. /\ db' \in [Db -> Objects] /\ \A e \in Db : e # d => db'[e] = db[e]
          /\ ClosesSet(db[d], db'[d], c)
      BY <1>1, <3>1, <3>2, ClosesSetFacts
    <3> QED BY <2>3, <3>3 DEF Ended, c
  <2>4. CASE frame[t].op = "call"
    <3>1. db' = db
      BY <1>2, <2>4
    <3> QED BY <1>1, <2>4, <3>1 DEF Ended
  <2> QED BY <1>1, <2>1, <2>2, <2>3, <2>4 DEF On, Frames
<1>6. Left(lang[d], db[d], db'[d], frame[t])
  BY <1>5
<1>7. /\ leaked' \in [Db -> SUBSET {"json", "error", "response"}]
      /\ leaked'[d] = leaked[d] \cup ({frame[t].buf} \ {"none"})
      /\ \A e \in Db : e # d => leaked'[e] = leaked[e]
  <2> DEFINE k == leaked[d] \cup ({frame[t].buf} \ {"none"})
  <2>1. k \in SUBSET {"json", "error", "response"}
    BY <1>1 DEF Frames
  <2>2. leaked' = [leaked EXCEPT ![d] = k]
    BY <1>2
  <2> HIDE DEF k
  <2>3. leaked' \in [Db -> SUBSET {"json", "error", "response"}] /\ leaked'[d] = k
        /\ \A e \in Db : e # d => leaked'[e] = leaked[e]
    BY <1>1, <2>1, <2>2
  <2> QED BY <2>3 DEF k
<1>8. Types'
  BY <1>1, <1>2, <1>3, <1>4, <1>5, <1>7 DEF Types
<1>9. \A e \in Db : e # d => db'[e] = db[e] /\ leaked'[e] = leaked[e]
  BY <1>5, <1>7
<1>10. lang' = lang
  BY <1>2
<1>11. leaked'[d] = leaked[d] \cup ({frame[t].buf} \ {"none"})
  BY <1>7
<1> QED BY <1>4, <1>6, <1>8, <1>9, <1>10, <1>11, LeavesOn

LEMMA FreeKeeps == ASSUME BindInv, NEW t \in Thread, Free(t) PROVE BindInv'
<1>1. /\ frame[t].todo # <<>> /\ frame[t].answer # "wait" /\ Head(frame[t].todo) = "free"
      /\ Advance(t, frame[t].answer, "none") /\ db' = db /\ UNCHANGED <<lang, leaked>>
  BY DEF Free, Step, Next1
<1>2. PICK d \in Db : d = frame[t].obj /\ On(t, d) /\ Types /\ At(lang[d], db[d], frame[t])
  BY <1>1, AtThread
<1>3. frame[t].answer \in Answers /\ "none" \in Buffers
  BY <1>2 DEF At, Frames, Answers, Buffers
<1>4. db' \in [Db -> Objects] /\ (\A e \in Db : e # d => db'[e] = db[e]) /\ db'[d] = db[d]
  BY <1>1, <1>2, Untouched
<1>5. \A g \in Frames : After(frame[t], g, frame[t].answer, "none") =>
          Goes(lang[d], db[d], db'[d], frame[t], g)
  BY <1>1, <1>2, <1>4, FreeGoes
<1> QED BY <1>1, <1>2, <1>3, <1>4, <1>5, AdvanceOn

LEMMA SpicedbStartKeeps == ASSUME BindInv, NEW t \in Thread, SpicedbStart(t) PROVE BindInv'
<1>1. /\ frame[t].todo # <<>> /\ frame[t].answer # "wait" /\ Head(frame[t].todo) = "spicedb_start"
      /\ UNCHANGED <<lang, leaked>>
  BY DEF SpicedbStart, Step, Next1
<1>2. PICK d \in Db : d = frame[t].obj /\ On(t, d) /\ Types /\ At(lang[d], db[d], frame[t])
  BY <1>1, AtThread
<1>3. {"ok", "error", "rejected"} \subseteq Answers /\ "json" \in Buffers
  BY DEF Answers, Buffers
<1>4. CASE /\ db' = [db EXCEPT ![d].handle = "open"]
           /\ \E a \in {"ok", "rejected"} : Advance(t, a, "json")
  <2>1. /\ db' \in [Db -> Objects] /\ \A e \in Db : e # d => db'[e] = db[e]
        /\ HandleSet(db[d], db'[d], "open") /\ db'[d] \in Objects
    BY <1>2, <1>4, HandleSetFacts
  <2>2. PICK a \in {"ok", "rejected"} : Advance(t, a, "json")
    BY <1>4
  <2>3. \A g \in Frames : After(frame[t], g, a, "json") =>
            Goes(lang[d], db[d], db'[d], frame[t], g)
    BY <1>1, <1>2, <2>1, StartGoes
  <2> QED BY <1>1, <1>2, <1>3, <2>1, <2>2, <2>3, AdvanceOn
<1>5. CASE db' = db /\ Advance(t, "error", "json")
  <2>1. /\ db' \in [Db -> Objects] /\ \A e \in Db : e # d => db'[e] = db[e]
        /\ db'[d] = db[d] /\ db'[d] \in Objects
    BY <1>2, <1>5, Untouched
  <2>2. \A g \in Frames : After(frame[t], g, "error", "json") =>
            Goes(lang[d], db[d], db'[d], frame[t], g)
    BY <1>1, <1>2, <2>1, StartGoes
  <2> QED BY <1>1, <1>2, <1>3, <1>5, <2>1, <2>2, AdvanceOn
<1> QED BY <1>2, <1>4, <1>5 DEF SpicedbStart

LEMMA SpicedbRpcKeeps == ASSUME BindInv, NEW t \in Thread, SpicedbRpc(t) PROVE BindInv'
<1> DEFINE m == Head(frame[t].todo)
<1>1. frame[t].todo # <<>> /\ frame[t].answer # "wait" /\ m \in Methods
  BY DEF SpicedbRpc, Next1, Methods
<1>2. PICK d \in Db : d = frame[t].obj /\ On(t, d) /\ Types /\ At(lang[d], db[d], frame[t])
  BY <1>1, AtThread
<1>3. {"ok", "error"} \subseteq Answers /\ {"response", "error"} \subseteq Buffers
  BY DEF Answers, Buffers
<1>4. \/ /\ db[d].handle = "open" /\ db' = [db EXCEPT ![d].written = @ \cup Taken(m)]
         /\ Advance(t, "ok", "response") \/ Advance(t, "error", "error")
         /\ UNCHANGED <<lang, leaked>>
      \/ db' = db /\ Advance(t, "error", "error") /\ UNCHANGED <<lang, leaked>>
      \/ lang[d] = "java" /\ Unhandled(t, "request")
      \/ lang[d] = "java" /\ frame[t].op # "start" /\ Leave(t, "error")
  BY <1>2 DEF SpicedbRpc, Taken
<1>5. CASE /\ db[d].handle = "open" /\ db' = [db EXCEPT ![d].written = @ \cup Taken(m)]
           /\ Advance(t, "ok", "response") \/ Advance(t, "error", "error")
           /\ UNCHANGED <<lang, leaked>>
  <2>0. db[d].written \cup Taken(m) \in SUBSET {"WriteSchema", "WriteRelationships"}
    BY <1>2 DEF Types, Objects, Taken
  <2>a. db' = [db EXCEPT ![d].written = db[d].written \cup Taken(m)]
    BY <1>5
  <2>1. /\ db' \in [Db -> Objects] /\ \A e \in Db : e # d => db'[e] = db[e]
        /\ WrittenSet(db[d], db'[d], db[d].written \cup Taken(m)) /\ db'[d] \in Objects
    <3> DEFINE w == db[d].written \cup Taken(m)
    <3>1. w \in SUBSET {"WriteSchema", "WriteRelationships"} /\ db' = [db EXCEPT ![d].written = w]
      BY <2>0, <2>a
    <3> HIDE DEF w
    <3>2. /\ db' \in [Db -> Objects] /\ \A e \in Db : e # d => db'[e] = db[e]
          /\ WrittenSet(db[d], db'[d], w)
      BY <1>2, <3>1, WrittenSetFacts
    <3> QED BY <3>2 DEF w
  <2>2. \A g \in Frames : After(frame[t], g, "ok", "response") \/ After(frame[t], g, "error", "error") =>
            Goes(lang[d], db[d], db'[d], frame[t], g)
    BY <1>1, <1>2, <1>5, <2>1, RpcGoes
  <2>3. CASE Advance(t, "ok", "response")
    BY <1>1, <1>2, <1>3, <1>5, <2>1, <2>2, <2>3, AdvanceOn
  <2>4. CASE Advance(t, "error", "error")
    BY <1>1, <1>2, <1>3, <1>5, <2>1, <2>2, <2>4, AdvanceOn
  <2> QED BY <1>5, <2>3, <2>4
<1>6. CASE db' = db /\ Advance(t, "error", "error") /\ UNCHANGED <<lang, leaked>>
  <2>1. /\ db' \in [Db -> Objects] /\ \A e \in Db : e # d => db'[e] = db[e]
        /\ db'[d] = db[d] /\ db'[d] \in Objects
    BY <1>2, <1>6, Untouched
  <2>2. \A g \in Frames : After(frame[t], g, "error", "error") =>
            Goes(lang[d], db[d], db'[d], frame[t], g)
    BY <1>1, <1>2, <2>1, RpcGoes
  <2> QED BY <1>1, <1>2, <1>3, <1>6, <2>1, <2>2, AdvanceOn
<1>7. CASE lang[d] = "java" /\ Unhandled(t, "request")
  <2>1. Meets(lang[d], frame[t], "request")
    BY <1>1, <1>7 DEF Meets
  <2> QED BY <1>2, <1>7, <2>1, UnhandledKeeps
<1>8. CASE lang[d] = "java" /\ frame[t].op # "start" /\ Leave(t, "error")
  <2>1. \A p \in Objects : Ended(db[d], p, frame[t], "error") => Left(lang[d], db[d], p, frame[t])
    BY <1>1, <1>2, <1>8, ThrowLeaves
  <2> QED BY <1>2, <1>8, <2>1, LeaveKeeps
<1> QED BY <1>4, <1>5, <1>6, <1>7, <1>8

LEMMA SpicedbDisposeKeeps == ASSUME BindInv, NEW t \in Thread, SpicedbDispose(t) PROVE BindInv'
<1>1. /\ frame[t].todo # <<>> /\ frame[t].answer # "wait" /\ Head(frame[t].todo) = "spicedb_dispose"
      /\ UNCHANGED <<lang, leaked>>
  BY DEF SpicedbDispose, Step, Next1
<1>2. PICK d \in Db : d = frame[t].obj /\ On(t, d) /\ Types /\ At(lang[d], db[d], frame[t])
  BY <1>1, AtThread
<1>3. {"wait", "error"} \subseteq Answers /\ {"none", "json"} \subseteq Buffers
  BY DEF Answers, Buffers
<1>4. CASE db[d].handle = "open" /\ db' = [db EXCEPT ![d].handle = "closing"] /\ Advance(t, "wait", "none")
  <2>1. /\ db' \in [Db -> Objects] /\ \A e \in Db : e # d => db'[e] = db[e]
        /\ HandleSet(db[d], db'[d], "closing") /\ db'[d] \in Objects
    BY <1>2, <1>4, HandleSetFacts
  <2>2. \A g \in Frames : After(frame[t], g, "wait", "none") =>
            Goes(lang[d], db[d], db'[d], frame[t], g)
    BY <1>1, <1>2, <1>4, <2>1, DisposeGoes
  <2> QED BY <1>1, <1>2, <1>3, <1>4, <2>1, <2>2, AdvanceOn
<1>5. CASE db[d].handle # "open" /\ db' = db /\ Advance(t, "error", "json")
  <2>1. /\ db' \in [Db -> Objects] /\ \A e \in Db : e # d => db'[e] = db[e]
        /\ db'[d] = db[d] /\ db'[d] \in Objects
    BY <1>2, <1>5, Untouched
  <2>2. \A g \in Frames : After(frame[t], g, "error", "json") =>
            Goes(lang[d], db[d], db'[d], frame[t], g)
    BY <1>1, <1>2, <1>5, <2>1, DisposeGoes
  <2> QED BY <1>1, <1>2, <1>3, <1>5, <2>1, <2>2, AdvanceOn
<1> QED BY <1>2, <1>4, <1>5 DEF SpicedbDispose

LEMMA OpenChannelKeeps == ASSUME BindInv, NEW t \in Thread, OpenChannel(t) PROVE BindInv'
<1>1. /\ frame[t].todo # <<>> /\ frame[t].answer # "wait"
      /\ Head(frame[t].todo) \in {"openChannel", "tryChannel"}
  BY DEF OpenChannel, Step, Next1
<1>2. PICK d \in Db : d = frame[t].obj /\ On(t, d) /\ Types /\ At(lang[d], db[d], frame[t])
  BY <1>1, AtThread
<1>3. {"ok", "error"} \subseteq Answers /\ "none" \in Buffers
  BY DEF Answers, Buffers
<1>4. CASE db' = [db EXCEPT ![d].channel = "open"] /\ Advance(t, "ok", "none") /\ UNCHANGED <<lang, leaked>>
  <2>1. /\ db' \in [Db -> Objects] /\ \A e \in Db : e # d => db'[e] = db[e]
        /\ ChannelSet(db[d], db'[d], "open") /\ db'[d] \in Objects
    BY <1>2, <1>4, ChannelSetFacts
  <2>2. \A g \in Frames : After(frame[t], g, "ok", "none") =>
            Goes(lang[d], db[d], db'[d], frame[t], g)
    BY <1>1, <1>2, <2>1, OpenGoes
  <2> QED BY <1>1, <1>2, <1>3, <1>4, <2>1, <2>2, AdvanceOn
<1>5. CASE /\ Head(frame[t].todo) = "tryChannel" /\ db' = db /\ Advance(t, "error", "none")
           /\ UNCHANGED <<lang, leaked>>
  <2>1. /\ db' \in [Db -> Objects] /\ \A e \in Db : e # d => db'[e] = db[e]
        /\ db'[d] = db[d] /\ db'[d] \in Objects
    BY <1>2, <1>5, Untouched
  <2>2. \A g \in Frames : After(frame[t], g, "error", "none") =>
            Goes(lang[d], db[d], db'[d], frame[t], g)
    BY <1>1, <1>2, <1>5, <2>1, OpenGoes
  <2> QED BY <1>1, <1>2, <1>3, <1>5, <2>1, <2>2, AdvanceOn
<1>6. CASE Unhandled(t, "channel")
  <2>1. Meets(lang[d], frame[t], "channel")
    BY <1>1 DEF Meets, Opens
  <2> QED BY <1>2, <1>6, <2>1, UnhandledKeeps
<1> QED BY <1>2, <1>4, <1>5, <1>6 DEF OpenChannel, Step

LEMMA CloseChannelKeeps == ASSUME BindInv, NEW t \in Thread, CloseChannel(t) PROVE BindInv'
<1>1. /\ frame[t].todo # <<>> /\ frame[t].answer # "wait" /\ Head(frame[t].todo) = "closeChannel"
      /\ Advance(t, frame[t].answer, frame[t].buf) /\ UNCHANGED <<lang, leaked>>
  BY DEF CloseChannel, Step, Next1, Continue
<1>2. PICK d \in Db : d = frame[t].obj /\ On(t, d) /\ Types /\ At(lang[d], db[d], frame[t])
  BY <1>1, AtThread
<1>3. frame[t].answer \in Answers /\ frame[t].buf \in Buffers
  BY <1>2 DEF At, Frames, Answers, Buffers
<1>4. db' = [db EXCEPT ![d].channel = "closed"]
  BY <1>2 DEF CloseChannel
<1>5. /\ db' \in [Db -> Objects] /\ \A e \in Db : e # d => db'[e] = db[e]
      /\ ChannelSet(db[d], db'[d], "closed") /\ db'[d] \in Objects
  BY <1>2, <1>4, ChannelSetFacts
<1>6. \A g \in Frames : After(frame[t], g, frame[t].answer, frame[t].buf) =>
          Goes(lang[d], db[d], db'[d], frame[t], g)
  BY <1>1, <1>2, <1>5, CloseChannelGoes
<1> QED BY <1>1, <1>2, <1>3, <1>5, <1>6, AdvanceOn

LEMMA SetFlagKeeps == ASSUME BindInv, NEW t \in Thread, SetFlag(t) PROVE BindInv'
<1>1. /\ frame[t].todo # <<>> /\ frame[t].answer # "wait" /\ Head(frame[t].todo) = "setFlag"
      /\ Advance(t, frame[t].answer, frame[t].buf) /\ UNCHANGED <<lang, leaked>>
  BY DEF SetFlag, Step, Next1, Continue
<1>2. PICK d \in Db : d = frame[t].obj /\ On(t, d) /\ Types /\ At(lang[d], db[d], frame[t])
  BY <1>1, AtThread
<1>3. frame[t].answer \in Answers /\ frame[t].buf \in Buffers
  BY <1>2 DEF At, Frames, Answers, Buffers
<1>4. db' = [db EXCEPT ![d].flag = "set"]
  BY <1>2 DEF SetFlag
<1>5. /\ db' \in [Db -> Objects] /\ \A e \in Db : e # d => db'[e] = db[e]
      /\ FlagSet(db[d], db'[d], "set") /\ db'[d] \in Objects
  BY <1>2, <1>4, FlagSetFacts
<1>6. \A g \in Frames : After(frame[t], g, frame[t].answer, frame[t].buf) =>
          Goes(lang[d], db[d], db'[d], frame[t], g)
  BY <1>1, <1>2, <1>5, SetFlagGoes
<1> QED BY <1>1, <1>2, <1>3, <1>5, <1>6, AdvanceOn

LEMMA SpicedbDisposeReturnsKeeps ==
    ASSUME BindInv, NEW t \in Thread, SpicedbDisposeReturns(t) PROVE BindInv'
<1>1. frame[t].answer = "wait" /\ UNCHANGED <<lang, leaked>>
  BY DEF SpicedbDisposeReturns
<1>2. PICK d \in Db : d = frame[t].obj
  BY <1>1, Working
<1>3. /\ Types /\ On(t, d) /\ lang[d] \in Languages /\ db[d] \in Objects
      /\ frame[t] \in Frames
      /\ ObjectFine(lang[d], db[d]) /\ ThreadFine(lang[d], db[d], frame[t])
      /\ leaked[d] \subseteq IF lang[d] = "node" THEN {"error"} ELSE {}
  BY <1>1, <1>2, Working
<1>4. NodeFine(lang[d], db[d], frame[t])
  BY <1>3, NodeReady
<1>5. db' = [db EXCEPT ![d].handle = "closed"]
  BY <1>2 DEF SpicedbDisposeReturns
<1>6. /\ db' \in [Db -> Objects] /\ \A e \in Db : e # d => db'[e] = db[e]
      /\ HandleSet(db[d], db'[d], "closed") /\ db'[d] \in Objects
  BY <1>3, <1>5, HandleSetFacts
<1>7. /\ frame' \in [Thread -> Frames] /\ \A u \in Thread : u # t => frame'[u] = frame[u]
      /\ frame'[t].op = frame[t].op /\ frame'[t].obj = d /\ frame'[t].todo = frame[t].todo
      /\ frame'[t].answer = "ok" /\ frame'[t].buf = "json"
  <2> DEFINE f == frame[t]
             f1 == [f EXCEPT !.answer = "ok"]
             f2 == [f1 EXCEPT !.buf = "json"]
  <2>1. frame \in [Thread -> Frames] /\ f \in Frames
    BY <1>3 DEF Types
  <2>2. /\ f1 \in Frames /\ f1.op = f.op /\ f1.obj = f.obj /\ f1.todo = f.todo /\ f1.answer = "ok"
    BY <2>1 DEF Frames
  <2>3. frame' = [frame EXCEPT ![t] = f2]
    BY <2>1 DEF SpicedbDisposeReturns
  <2> HIDE DEF f1
  <2>4. /\ f2 \in Frames /\ f2.op = f.op /\ f2.obj = f.obj /\ f2.todo = f.todo /\ f2.answer = "ok"
        /\ f2.buf = "json"
    BY <2>2 DEF Frames
  <2> HIDE DEF f2
  <2> QED BY <1>2, <2>1, <2>3, <2>4
<1>8. Goes(lang[d], db[d], db'[d], frame[t], frame'[t])
  BY <1>1, <1>3, <1>4, <1>6, <1>7, ReturnsGoes DEF On
<1>9. Types'
  BY <1>1, <1>3, <1>6, <1>7 DEF Types, On
<1>10. /\ lang' = lang /\ \A e \in Db : e # d => db'[e] = db[e] /\ leaked'[e] = leaked[e]
       /\ leaked'[d] \subseteq IF lang[d] = "node" THEN {"error"} ELSE {}
  BY <1>1, <1>3, <1>6
<1> QED BY <1>3, <1>7, <1>8, <1>9, <1>10, GoesOn

LEMMA ReturnKeeps == ASSUME BindInv, NEW t \in Thread, Return(t) PROVE BindInv'
<1>1. ~Idles(t) /\ frame[t].todo = <<>> /\ frame[t].answer # "wait" /\ Leave(t, "ok")
  BY DEF Return
<1>2. PICK d \in Db : d = frame[t].obj
  BY <1>1, Working
<1>3. /\ On(t, d) /\ lang[d] \in Languages /\ db[d] \in Objects /\ frame[t] \in Frames
      /\ ObjectFine(lang[d], db[d]) /\ ThreadFine(lang[d], db[d], frame[t])
  BY <1>1, <1>2, Working
<1>4. NodeFine(lang[d], db[d], frame[t]) /\ frame[t].op # "none"
  BY <1>3, NodeReady DEF On
<1>5. \A p \in Objects : Ended(db[d], p, frame[t], "ok") => Left(lang[d], db[d], p, frame[t])
  BY <1>1, <1>3, <1>4, ReturnLeaves
<1> QED BY <1>1, <1>2, <1>3, <1>5, LeaveKeeps

LEMMA CheckFlagKeeps == ASSUME BindInv, NEW t \in Thread, CheckFlag(t) PROVE BindInv'
<1>1. frame[t].todo # <<>> /\ frame[t].answer # "wait" /\ Head(frame[t].todo) = "checkFlag"
  BY DEF CheckFlag, Step, Next1
<1>2. PICK d \in Db : d = frame[t].obj /\ On(t, d) /\ Types /\ At(lang[d], db[d], frame[t])
  BY <1>1, AtThread
<1>3. CASE db[d].flag = "set" /\ Leave(t, "ok")
  <2>1. \A p \in Objects : Ended(db[d], p, frame[t], "ok") => Left(lang[d], db[d], p, frame[t])
    BY <1>1, <1>2, <1>3, CheckLeaves
  <2> QED BY <1>2, <1>3, <2>1, LeaveKeeps
<1>4. CASE db[d].flag = "clear" /\ Advance(t, frame[t].answer, frame[t].buf) /\ UNCHANGED <<lang, db, leaked>>
  <2>1. frame[t].answer \in Answers /\ frame[t].buf \in Buffers
    BY <1>2 DEF At, Frames, Answers, Buffers
  <2>2. db' \in [Db -> Objects] /\ (\A e \in Db : e # d => db'[e] = db[e]) /\ db'[d] = db[d]
    BY <1>2, <1>4, Untouched
  <2>3. \A g \in Frames : After(frame[t], g, frame[t].answer, frame[t].buf) =>
            Goes(lang[d], db[d], db'[d], frame[t], g)
    BY <1>1, <1>2, <1>4, <2>2, CheckGoes
  <2> QED BY <1>1, <1>2, <1>4, <2>1, <2>2, <2>3, AdvanceOn
<1> QED BY <1>2, <1>3, <1>4 DEF CheckFlag, Continue

LEMMA RaiseKeeps == ASSUME BindInv, NEW t \in Thread, Raise(t) PROVE BindInv'
<1>1. frame[t].todo # <<>> /\ frame[t].answer # "wait" /\ Head(frame[t].todo) = "raise"
  BY DEF Raise, Step, Next1
<1>2. PICK d \in Db : d = frame[t].obj /\ On(t, d) /\ Types /\ At(lang[d], db[d], frame[t])
  BY <1>1, AtThread
<1>3. CASE frame[t].answer = "ok" /\ Advance(t, frame[t].answer, frame[t].buf) /\ UNCHANGED <<lang, db, leaked>>
  <2>1. frame[t].answer \in Answers /\ frame[t].buf \in Buffers
    BY <1>2 DEF At, Frames, Answers, Buffers
  <2>2. db' \in [Db -> Objects] /\ (\A e \in Db : e # d => db'[e] = db[e]) /\ db'[d] = db[d]
    BY <1>2, <1>3, Untouched
  <2>3. \A g \in Frames : After(frame[t], g, frame[t].answer, frame[t].buf) =>
            Goes(lang[d], db[d], db'[d], frame[t], g)
    BY <1>1, <1>2, <1>3, <2>2, RaiseGoes
  <2> QED BY <1>1, <1>2, <1>3, <2>1, <2>2, <2>3, AdvanceOn
<1>4. CASE /\ frame[t].answer = "error" /\ frame[t].op = "start" /\ Lose(t)
           /\ Enter(t, d, "rescue", RescueOf(lang[d], db[d])) /\ UNCHANGED <<lang, db>>
  <2>1. lang[d] \in Languages /\ RescueOf(lang[d], db[d]) \in Seq(Steps)
    BY <1>2, RescueForm DEF At, Form
  <2>2. db' \in [Db -> Objects] /\ (\A e \in Db : e # d => db'[e] = db[e]) /\ db'[d] = db[d]
    BY <1>2, <1>4, Untouched
  <2>3. \A g \in Frames : /\ g.op = "rescue" /\ g.todo = RescueOf(lang[d], db[d])
                          /\ g.answer = "ok" /\ g.buf = "none"
                          => Goes(lang[d], db[d], db'[d], frame[t], g)
    BY <1>1, <1>2, <1>4, <2>2, RescueGoes
  <2>4. frame[t].buf = "none" \/ (lang[d] = "node" /\ frame[t].buf = "error")
    BY <1>1, <1>2, <1>4, HoldsNone
  <2> DEFINE s == RescueOf(lang[d], db[d])
  <2>5. s \in Seq(Steps) /\ Enter(t, d, "rescue", s) /\ Lose(t) /\ lang' = lang
    BY <1>4, <2>1
  <2>6. \A g \in Frames : /\ g.op = "rescue" /\ g.todo = s /\ g.answer = "ok" /\ g.buf = "none"
                          => Goes(lang[d], db[d], db'[d], frame[t], g)
    BY <2>3
  <2> HIDE DEF s
  <2> QED BY <1>2, <2>2, <2>4, <2>5, <2>6, RescueEnters
<1>5. CASE frame[t].answer = "error" /\ frame[t].op # "start" /\ Leave(t, "error")
  <2>1. \A p \in Objects : Ended(db[d], p, frame[t], "error") => Left(lang[d], db[d], p, frame[t])
    BY <1>1, <1>2, <1>5, RaiseLeaves
  <2> QED BY <1>2, <1>5, <2>1, LeaveKeeps
<1>6. CASE frame[t].answer = "rejected" /\ Unhandled(t, "answer")
  <2>1. Meets(lang[d], frame[t], "answer")
    BY <1>1, <1>6 DEF Meets
  <2> QED BY <1>2, <1>6, <2>1, UnhandledKeeps
<1> QED BY <1>2, <1>3, <1>4, <1>5, <1>6 DEF Raise, Continue

LEMMA CallStartKeeps ==
    ASSUME BindInv, NEW t \in Thread, NEW d \in Db, NEW w \in Wanted, CallStart(t, d, w)
    PROVE  BindInv'
<1> DEFINE p == NewObject("starting", w)
           s == StartOf(lang[d], w)
<1>1. /\ Idles(t) /\ db[d].stage \in {"new", "failed"} /\ lang' = lang /\ leaked' = leaked
      /\ db' = [db EXCEPT ![d] = p] /\ Enter(t, d, "start", s)
  BY DEF CallStart
<1>2. Types /\ lang[d] \in Languages /\ Nobody(d)
      /\ leaked[d] \subseteq IF lang[d] = "node" THEN {"error"} ELSE {}
  BY <1>1 DEF BindInv, Types, EndingAt, OnlyNodeErrorsLost
<1>3. /\ Form(lang[d], "start", s) /\ Has(s, "spicedb_start")
      /\ lang[d] \in {"node", "python"} => Has(s, "openChannel")
      /\ lang[d] \in {"java", "csharp"} => Has(s, "tryChannel")
      /\ w.schema => Has(s, "WriteSchema") /\ (w.rels => Has(s, "WriteRelationships"))
  BY <1>2, StartForm
<1>4. /\ p \in Objects /\ p.stage = "starting" /\ p.want = w /\ p.handle = "none"
      /\ p.channel = "none" /\ p.flag = "clear" /\ p.written = {} /\ p.closes = {}
      /\ p.unhandled = "none"
  BY DEF NewObject, Objects
<1> HIDE DEF p, s
<1>5. db' \in [Db -> Objects] /\ db'[d] = p /\ \A e \in Db : e # d => db'[e] = db[e]
  BY <1>1, <1>2, <1>4 DEF Types
<1>6. /\ frame' \in [Thread -> Frames]
      /\ \A u \in Thread : u # t => frame'[u] = frame[u]
      /\ frame'[t].op = "start" /\ frame'[t].obj = d /\ frame'[t].todo = s
      /\ frame'[t].answer = "ok" /\ frame'[t].buf = "none"
      /\ \A u \in Thread :
             IF frame'[u].op = "none" THEN frame'[u] = Idle ELSE frame'[u].obj \in Db
  <2>1. s \in Seq(Steps)
    BY <1>3 DEF Form
  <2> QED BY <1>1, <1>2, <2>1, EnterFacts
<1>7. Types'
  BY <1>1, <1>2, <1>5, <1>6 DEF Types
<1>8. On(t, d)' /\ \A u \in Thread : u # t => ~On(u, d) /\ ~On(u, d)'
  BY <1>2, <1>6 DEF On, Nobody
<1>9. ThreadFine(lang[d], p, frame'[t])
  <2>1. StartFine(lang[d], p, frame'[t])
    BY <1>3, <1>4, <1>6 DEF StartFine, Opening, Opens
  <2>2. BufferHeld(lang[d], frame'[t])
    BY <1>6 DEF BufferHeld
  <2> QED BY <1>3, <1>4, <1>6, <2>1, <2>2 DEF ThreadFine
<1>10. ObjectFine(lang[d], p)
  BY <1>4 DEF ObjectFine
<1>11. AloneAt(d)' /\ EndingAt(d)'
  BY <1>4, <1>5, <1>8 DEF AloneAt, EndingAt
<1>12. /\ \A e \in Db : e # d => db'[e] = db[e] /\ leaked'[e] = leaked[e]
       /\ leaked'[d] \subseteq IF lang[d] = "node" THEN {"error"} ELSE {}
  BY <1>1, <1>2, <1>5
<1>13. lang' = lang /\ Idles(t)
  BY <1>1
<1>14. ObjectFine(lang[d], db'[d]) /\ ThreadFine(lang[d], db'[d], frame'[t])
  BY <1>5, <1>9, <1>10
<1> QED BY <1>6, <1>7, <1>8, <1>11, <1>12, <1>13, <1>14, StepPreserves

\* A call or a close of an object the host was given.
LEMMA EntersOn ==
    ASSUME BindInv, NEW t \in Thread, NEW d \in Db, Idles(t), MayEnter(d),
           db[d].stage \in {"ready", "dropped"},
           NEW op \in {"call", "close"}, NEW s \in Seq(Steps), Enter(t, d, op, s),
           lang' = lang, leaked' = leaked,
           db' \in [Db -> Objects], \A e \in Db : e # d => db'[e] = db[e],
           \/ db'[d] = db[d]
           \/ lang[d] = "rust" /\ db[d].stage = "ready" /\ StageSet(db[d], db'[d], "dropped"),
           lang[d] = "rust" /\ op = "close" => db[d].stage = "ready",
           \A g \in Frames : /\ g.op = op /\ g.todo = s /\ g.answer = "ok" /\ g.buf = "none"
                             /\ NodeFine(lang[d], db[d], g)
                             => ThreadFine(lang[d], db'[d], g)
    PROVE  BindInv'
<1>1. /\ Types /\ lang[d] \in Languages /\ db[d] \in Objects /\ db'[d] \in Objects
      /\ AloneAt(d) /\ EndingAt(d) /\ ObjectFine(lang[d], db[d])
      /\ \A u \in Thread : On(u, d) => ThreadFine(lang[d], db[d], frame[u])
      /\ \A u \in Thread : frame[u] \in Frames
      /\ leaked[d] \subseteq IF lang[d] = "node" THEN {"error"} ELSE {}
  BY DEF BindInv, Types, OnlyNodeErrorsLost
<1>2. /\ frame' \in [Thread -> Frames]
      /\ \A u \in Thread : u # t => frame'[u] = frame[u]
      /\ frame'[t].op = op /\ frame'[t].obj = d /\ frame'[t].todo = s
      /\ frame'[t].answer = "ok" /\ frame'[t].buf = "none"
      /\ \A u \in Thread :
             IF frame'[u].op = "none" THEN frame'[u] = Idle ELSE frame'[u].obj \in Db
  BY <1>1, EnterFacts
<1>3. Types'
  BY <1>1, <1>2 DEF Types
<1>4. On(t, d)' /\ ~On(t, d) /\ \A u \in Thread : u # t => (On(u, d)' <=> On(u, d))
  BY <1>2 DEF On, Idles
<1>5. lang[d] = "node" => Nobody(d)
  BY DEF MayEnter, Nobody, On
<1>6. /\ db'[d].handle = db[d].handle /\ db'[d].channel = db[d].channel
      /\ db'[d].stage \in {"ready", "dropped"}
      /\ db'[d].stage = db[d].stage \/ (db[d].stage = "ready" /\ db'[d].stage = "dropped" /\ lang[d] = "rust")
      /\ lang[d] = "node" => db'[d] = db[d]
  BY DEF StageSet
<1>7. lang[d] = "node" /\ db[d].stage = "ready" => NodeObject(db[d])
  BY <1>1, <1>5 DEF EndingAt, NodeCloses, Nobody
<1>8. ASSUME NEW u \in Thread, u # t, On(u, d)
      PROVE  /\ ThreadFine(lang[d], db'[d], frame[u])
             /\ lang[d] # "node"
             /\ lang[d] = "rust" => op # "close" \/ frame[u].op # "close"
  <2>1. ThreadFine(lang[d], db[d], frame[u]) /\ frame[u].op # "none" /\ lang[d] # "node"
    BY <1>1, <1>5, <1>8 DEF On, Nobody
  <2>2. ThreadFine(lang[d], db'[d], frame[u])
    BY <1>1, <1>6, <2>1, Bystander
  <2>3. lang[d] = "rust" /\ op = "close" => frame[u].op # "close"
    BY <2>1 DEF ThreadFine
  <2> QED BY <2>1, <2>2, <2>3
<1>9. AloneAt(d)'
  <2> SUFFICES ASSUME NEW u \in Thread, NEW v \in Thread, On(u, d)', On(v, d)', u # v
               PROVE  /\ db'[d].stage # "starting" /\ lang[d] # "node"
                      /\ lang[d] = "rust" => frame'[u].op # "close" \/ frame'[v].op # "close"
                      /\ frame'[u].answer # "wait" \/ frame'[v].answer # "wait"
    BY DEF AloneAt
  <2>1. CASE u = t
    BY <1>2, <1>4, <1>6, <1>8, <2>1
  <2>2. CASE v = t
    BY <1>2, <1>4, <1>6, <1>8, <2>2
  <2>3. CASE u # t /\ v # t
    BY <1>1, <1>2, <1>4, <1>6, <1>8, <2>3 DEF AloneAt
  <2> QED BY <2>1, <2>2, <2>3
<1>10. EndingAt(d)'
  <2>1. db'[d].handle = "closing" => Waits(d)'
    BY <1>1, <1>2, <1>4, <1>6 DEF EndingAt, Waits
  <2>2. db'[d].channel = "open" /\ db'[d].handle \in {"closing", "closed"} => Closing(d)'
    <3> HAVE db'[d].channel = "open" /\ db'[d].handle \in {"closing", "closed"}
    <3>1. PICK u \in Thread : Closer(u, d)
      BY <1>1, <1>6 DEF EndingAt, Closing
    <3>2. Closer(u, d)'
      BY <1>2, <1>4, <3>1 DEF Closer
    <3> QED BY <3>2 DEF Closing
  <2>3. lang[d] = "node" /\ db'[d].stage = "ready" => NodeObject(db'[d])
    BY <1>6, <1>7
  <2> QED BY <1>6, <2>1, <2>2, <2>3 DEF EndingAt
<1>11. ObjectFine(lang[d], db'[d])
  BY <1>1, <1>6 DEF ObjectFine, StageSet
<1>12. NodeFine(lang[d], db[d], frame'[t])
  BY <1>7 DEF NodeFine
<1>13. ThreadFine(lang[d], db'[d], frame'[t])
  BY <1>2, <1>12
<1>14. /\ \A e \in Db : e # d => db'[e] = db[e] /\ leaked'[e] = leaked[e]
       /\ leaked'[d] \subseteq IF lang[d] = "node" THEN {"error"} ELSE {}
  BY <1>1
<1>15. \A u \in Thread : u # t /\ On(u, d) => ThreadFine(lang[d], db'[d], frame[u])
  BY <1>8
<1> QED BY <1>2, <1>3, <1>4, <1>9, <1>10, <1>11, <1>13, <1>14, <1>15, StepPreserves

LEMMA CallMethodKeeps ==
    ASSUME BindInv, NEW t \in Thread, NEW d \in Db, NEW m \in rpcMessages, CallMethod(t, d, m)
    PROVE  BindInv'
<1> DEFINE s == CallOf(lang[d], m)
<1>1. /\ Idles(t) /\ db[d].stage \in {"ready", "dropped"} /\ MayEnter(d) /\ m \in Methods
      /\ Enter(t, d, "call", s) /\ lang' = lang /\ leaked' = leaked /\ db' = db
  BY DEF CallMethod, rpcMessages, Methods, PermissionMethods, SchemaMethods
<1>2. Types /\ lang[d] \in Languages
  BY DEF BindInv, Types
<1>3. Form(lang[d], "call", s) /\ s \in Seq(Steps)
  BY <1>1, <1>2, CallForm DEF Form
<1>4. db' \in [Db -> Objects] /\ (\A e \in Db : e # d => db'[e] = db[e]) /\ db'[d] = db[d]
  BY <1>1, <1>2, Untouched
<1> HIDE DEF s
<1>5. \A g \in Frames : g.op = "call" /\ g.todo = s /\ g.answer = "ok" /\ g.buf = "none" =>
          ThreadFine(lang[d], db'[d], g)
  BY <1>1, <1>3, <1>4 DEF ThreadFine, BufferHeld
<1> QED BY <1>1, <1>3, <1>4, <1>5, EntersOn

LEMMA CallCloseKeeps ==
    ASSUME BindInv, NEW t \in Thread, NEW d \in Db, CallClose(t, d)
    PROVE  BindInv'
<1> DEFINE s == CloseOf(lang[d])
           l == lang[d]
           o == db[d]
<1>1. /\ Idles(t) /\ o.stage = "ready" /\ MayEnter(d)
      /\ Enter(t, d, "close", s) /\ lang' = lang /\ leaked' = leaked
  BY DEF CallClose
<1>2. /\ Types /\ l \in Languages /\ o \in Objects /\ db \in [Db -> Objects] /\ ObjectFine(l, o)
  BY DEF BindInv, Types
<1>3. /\ Form(l, "close", s) /\ s \in Seq(Steps) /\ Has(s, "spicedb_dispose")
      /\ l # "rust" => Has(s, "closeChannel")
      /\ l = "node" => Has(s, "setFlag") /\ Has(s, "checkFlag")
  BY <1>2, CloseForm DEF Form
<1>4. /\ db' \in [Db -> Objects] /\ \A e \in Db : e # d => db'[e] = db[e]
      /\ IF l = "rust" THEN StageSet(o, db'[d], "dropped") ELSE db'[d] = o
  <2>1. CASE l = "rust"
    <3>1. db' = [db EXCEPT ![d].stage = "dropped"]
      BY <2>1 DEF CallClose
    <3> QED BY <1>2, <2>1, <3>1, StageSetFacts
  <2>2. CASE l # "rust"
    <3>1. db' = [db EXCEPT ![d].stage = db[d].stage]
      BY <2>2 DEF CallClose
    <3>2. [db[d] EXCEPT !.stage = db[d].stage] = db[d]
      BY <1>2 DEF Objects
    <3>3. db' = [db EXCEPT ![d] = db[d]]
      BY <3>1, <3>2
    <3> QED BY <1>2, <2>2, <3>3
  <2> QED BY <2>1, <2>2
<1> HIDE DEF s, l, o
<1>5. ASSUME NEW g \in Frames, g.op = "close", g.todo = s, g.answer = "ok", g.buf = "none",
             NodeFine(l, o, g)
      PROVE  ThreadFine(l, db'[d], g)
  <2>1. CASE l = "rust"
    <3>1. /\ db'[d].stage = "dropped" /\ db'[d].handle = o.handle /\ db'[d].channel = o.channel
          /\ db'[d].flag = o.flag
      BY <1>4, <2>1 DEF StageSet
    <3>2. o.handle = "open" /\ o.channel = "none"
      BY <1>1, <1>2, <2>1 DEF ObjectFine
    <3>3. CloseFine(l, db'[d], g)
      BY <1>3, <1>5, <2>1, <3>1, <3>2 DEF CloseFine
    <3> QED BY <1>3, <1>5, <3>1, <3>3 DEF ThreadFine, BufferHeld
  <2>2. CASE l # "rust"
    <3>1. l = "node" => NodeObject(o)
      BY <1>1, <1>3, <1>5 DEF NodeFine
    <3>2. CloseFine(l, o, g)
      BY <1>3, <1>5, <2>2, <3>1 DEF CloseFine
    <3> QED BY <1>1, <1>3, <1>4, <1>5, <2>2, <3>2 DEF ThreadFine, BufferHeld
  <2> QED BY <2>1, <2>2
<1>6. \/ db'[d] = db[d]
      \/ lang[d] = "rust" /\ db[d].stage = "ready" /\ StageSet(db[d], db'[d], "dropped")
  BY <1>1, <1>4 DEF l, o
<1>7. \A g \in Frames : /\ g.op = "close" /\ g.todo = s /\ g.answer = "ok" /\ g.buf = "none"
                        /\ NodeFine(lang[d], db[d], g)
                        => ThreadFine(lang[d], db'[d], g)
  BY <1>5 DEF l, o
<1>8. db[d].stage = "ready"
  BY <1>1 DEF o
<1> QED BY <1>1, <1>3, <1>4, <1>6, <1>7, <1>8, EntersOn

-----------------------------------------------------------------------------
\* The invariant, and what it says of the bindings.

LEMMA InitBind == Init => BindInv
<1> HAVE Init
<1>1. lang \in [Db -> Languages]
  BY BindingsAssumption DEF Init, Languages
<1>2. \A d \in Db : db[d] = NewObject("new", [schema |-> FALSE, rels |-> FALSE])
  BY DEF Init
<1>3. LET o == NewObject("new", [schema |-> FALSE, rels |-> FALSE]) IN
      /\ o \in Objects /\ o.stage = "new" /\ o.handle = "none" /\ o.channel = "none"
      /\ o.flag = "clear" /\ o.closes = {} /\ o.written = {} /\ ~o.want.schema
      /\ o.unhandled = "none"
  BY DEF NewObject, Objects, Wanted
<1>4. \A d \in Db : /\ db[d] \in Objects /\ db[d].stage = "new" /\ db[d].handle = "none"
                    /\ db[d].channel = "none" /\ db[d].flag = "clear" /\ db[d].closes = {}
                    /\ db[d].written = {} /\ ~db[d].want.schema
  BY <1>2, <1>3
<1>5. \A t \in Thread : frame[t] = Idle
  BY DEF Init
<1>6. Idle \in Frames /\ Idle.op = "none"
  <2>1. <<>> \in Seq(Steps)
    OBVIOUS
  <2> QED BY <2>1 DEF Idle, Frames
<1>7. \A t \in Thread, d \in Db : ~On(t, d)
  BY <1>5, <1>6 DEF On
<1>8. Types
  <2>1. db \in [Db -> Objects]
    BY <1>3 DEF Init
  <2>2. frame \in [Thread -> Frames]
    BY <1>6 DEF Init
  <2>3. leaked \in [Db -> SUBSET {"json", "error", "response"}]
    BY DEF Init
  <2> QED BY <1>1, <1>5, <1>6, <2>1, <2>2, <2>3 DEF Types
<1>9. \A d \in Db : ObjectFine(lang[d], db[d])
  BY <1>4 DEF ObjectFine
<1>10. \A d \in Db : AloneAt(d) /\ EndingAt(d)
  BY <1>4, <1>7 DEF AloneAt, EndingAt, Nobody
<1>11. OnlyNodeErrorsLost
  BY DEF Init, OnlyNodeErrorsLost
<1> QED BY <1>7, <1>8, <1>9, <1>10, <1>11 DEF BindInv

LEMMA NextBind == BindInv /\ [Next]_vars => BindInv'
<1> SUFFICES ASSUME BindInv, [Next]_vars PROVE BindInv'
  OBVIOUS
<1>1. CASE UNCHANGED vars
  BY <1>1 DEF vars, BindInv, Types, ObjectFine, On, AloneAt, EndingAt, Nobody, Waits, Closing,
              Closer, NodeCloses, OnlyNodeErrorsLost
<1>2. ASSUME NEW t \in Thread, HostCall(t) PROVE BindInv'
  BY <1>2, CallStartKeeps, CallMethodKeeps, CallCloseKeeps DEF HostCall
<1>3. ASSUME NEW t \in Thread, ProgramStep(t) PROVE BindInv'
  BY <1>3, SpicedbStartKeeps, SpicedbRpcKeeps, SpicedbDisposeKeeps, SpicedbDisposeReturnsKeeps,
     FreeKeeps, RaiseKeeps, OpenChannelKeeps, CloseChannelKeeps, CheckFlagKeeps, SetFlagKeeps,
     ReturnKeeps DEF ProgramStep
<1> QED BY <1>1, <1>2, <1>3 DEF Next

LEMMA BindInvariant == Spec => []BindInv
BY InitBind, NextBind, PTL DEF Spec

\* A start that raised leaves no instance running and no channel open where the
\* binding has a handler, at whichever step it failed and however the language
\* orders its clean-up (spicedb.rs 172-201 and 256-260, embedded.ts 132-137,
\* embedded.py 113-117, EmbeddedSpiceDB.java 99-101 and 138-143,
\* EmbeddedSpiceDb.cs 84-88 and 110-113); where it has none, an answer it cannot
\* read, a channel it cannot build, an Error in Java's bootstrap, what it leaves
\* is the instance and, in the last case only, the channel.
THEOREM FailedStartsCleanUp == Spec => []FailedStartCleansUp
<1>1. BindInv => FailedStartCleansUp
  <2> SUFFICES ASSUME BindInv, NEW d \in Db, db[d].stage = "failed"
               PROVE  CASE db[d].unhandled = "none" ->
                               db[d].handle \in {"none", "closed"} /\ db[d].channel # "open"
                        [] db[d].unhandled = "answer" ->
                               db[d].handle = "open" /\ db[d].channel = "none"
                        [] db[d].unhandled = "channel" ->
                               db[d].handle = "open" /\ db[d].channel = "none" /\ lang[d] # "rust"
                        [] db[d].unhandled = "request" ->
                               db[d].handle = "open" /\ db[d].channel = "open" /\ lang[d] = "java"
    BY DEF FailedStartCleansUp
  <2>1. db[d].unhandled \in {"none", "answer", "channel", "request"} /\ ObjectFine(lang[d], db[d])
    BY DEF BindInv, Types, Objects
  <2> QED BY <2>1 DEF ObjectFine, Remains
<1> QED BY <1>1, BindInvariant, PTL

\* An object the host was given has the schema and the relationships it asked
\* for, and no start writes relationships whose schema was refused (spicedb.rs
\* 174-203, embedded.ts 155-178, embedded.py 132-147, EmbeddedSpiceDB.java
\* 80-98, EmbeddedSpiceDb.cs 134-149).
THEOREM StartsBootstrap == Spec => []StartedIsBootstrapped
<1>1. BindInv => StartedIsBootstrapped
  BY DEF BindInv, ObjectFine, StartedIsBootstrapped
<1> QED BY <1>1, BindInvariant, PTL

\* A close that returned without an exception found the instance gone and the
\* channel closed, also when several threads close at once; Java, which ignores
\* the answer of dispose, is the exception (embedded.ts 477-482, embedded.py
\* 173-176, EmbeddedSpiceDb.cs 46-52, spicedb.rs 256-260).
THEOREM ClosesAreDone == Spec => []ReportedCloseIsDone
<1>1. BindInv => ReportedCloseIsDone
  BY DEF BindInv, ObjectFine, ReportedCloseIsDone
<1> QED BY <1>1, BindInvariant, PTL

\* Once everybody has left an object that somebody closed, its instance is gone
\* and its channel closed, in every language, however the closes raced
\* (EmbeddedSpiceDB.java 197-204, and the closes of the other bindings).
THEOREM ClosesRelease == Spec => []CloseReleasesAll
<1>1. BindInv => CloseReleasesAll
  <2> SUFFICES ASSUME BindInv, NEW d \in Db, Unused(d), db[d].closes # {}
               PROVE  db[d].handle = "closed" /\ db[d].channel # "open"
    BY DEF CloseReleasesAll
  <2>1. db[d] \in Objects /\ ObjectFine(lang[d], db[d]) /\ EndingAt(d)
    BY DEF BindInv, Types
  <2>2. \A t \in Thread : ~On(t, d)
    BY DEF Unused, On
  <2>3. db[d].handle \notin {"none", "open"} /\ db[d].handle # "closing"
    BY <2>1, <2>2 DEF ObjectFine, EndingAt, Waits
  <2>4. db[d].handle = "closed"
    BY <2>1, <2>3 DEF Objects
  <2>5. db[d].channel # "open"
    BY <2>1, <2>2, <2>4 DEF EndingAt, Closing, Closer
  <2> QED BY <2>4, <2>5
<1> QED BY <1>1, BindInvariant, PTL

\* Every binding but Node frees every buffer of the library, on success and on
\* every error path, and Node loses no more than the error string of a request
\* that failed (memory.rs 112-130, ffi.ts 296-302, ffi.py 166-178,
\* SpiceDBFfi.java 35-50, SpiceDbFfi.cs 51-71).
THEOREM BuffersAreFreed == Spec => []OnlyNodeErrorsLost
<1>1. BindInv => OnlyNodeErrorsLost
  BY DEF BindInv
<1> QED BY <1>1, BindInvariant, PTL
=============================================================================
