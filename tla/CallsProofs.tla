----------------------------- MODULE CallsProofs -----------------------------
(***************************************************************************)
(* What a call takes along: proofs that the trace headers arrive as they   *)
(* were meant, for any headers and contexts, and that a start does what    *)
(* its options say, whatever the binding.                                  *)
(***************************************************************************)
EXTENDS TraceContext, StartOptions, TLAPS

-----------------------------------------------------------------------------
\* The trace headers

Headers == [traceparent : {<<>>} \cup OneValue, tracestate : Seq(HeaderValue)]
Contexts == [otel : BOOLEAN, valid : BOOLEAN, parent : OneValue, state : {<<>>} \cup OneValue]

\* What the proxy is sent, and what SpiceDB gets.
Sent(r) == InterceptorOf(r.lang, r.given, Current(r.span))
Gets(r) ==
    IF r.path = "unary" THEN traceContext(Current(r.span).traceparent, Current(r.span).tracestate)
    ELSE forwardTraceContext(Sent(r))

TraceInv ==
    /\ req.lang \in Language /\ req.path \in {"stream", "unary"}
    /\ req.span \in Contexts /\ req.given \in Headers
    /\ req.path = "unary" => req.given = NoHeaders
    /\ at \in {"called", "sent", "arrived"}
    /\ at = "called" => md = req.given
    /\ at = "sent" => req.path = "stream" /\ md = Sent(req)
    /\ at = "arrived" => md = Gets(req)

LEMMA OneIsOne ==
    ASSUME NEW v \in OneValue
    PROVE  /\ v \in Seq(HeaderValue) /\ v # <<>> /\ v = <<Head(v)>> /\ <<>> \o v = v
<1>1. PICK x \in HeaderValue : v = <<x>>
  BY DEF OneValue
<1> QED
  BY <1>1

LEMMA NoneIsEmpty ==
    /\ <<>> \in Seq(HeaderValue)
    /\ \A v \in Seq(HeaderValue) : <<>> \o v = v
OBVIOUS

\* current: of a span that is valid its own headers, else none.
LEMMA CurrentIs ==
    ASSUME NEW s \in Contexts
    PROVE  /\ Current(s) \in Headers
           /\ s.otel /\ s.valid => /\ Current(s).traceparent = s.parent
                                   /\ Current(s).tracestate = s.state
           /\ ~(s.otel /\ s.valid) => Current(s) = NoHeaders
<1>1. s.parent \in OneValue /\ s.state \in Seq(HeaderValue)
  <2>1. s.parent \in OneValue /\ (s.state = <<>> \/ s.state \in OneValue)
    BY DEF Contexts
  <2> QED
    BY <2>1, OneIsOne, NoneIsEmpty
<1>2. [traceparent |-> s.parent, tracestate |-> s.state] \in Headers
  BY <1>1 DEF Headers
<1>3. NoHeaders \in Headers
  BY DEF NoHeaders, Headers
<1> QED
  BY <1>1, <1>2, <1>3 DEF Current

\* Every interceptor: headers of the caller's own are left alone; the current
\* span's are put on a stream without; and without a current span the stream
\* stays without a traceparent.
LEMMA InterceptorsAgree ==
    ASSUME NEW l \in {"rust", "node", "python", "java", "csharp"}, NEW g \in Headers, NEW s \in Headers
    PROVE  /\ Carries(g) => InterceptorOf(l, g, s) = g
           /\ ~Carries(g) => InterceptorOf(l, g, s).traceparent = s.traceparent
           /\ ~Carries(g) /\ Carries(s) /\ g = NoHeaders =>
                  InterceptorOf(l, g, s).tracestate = s.tracestate
<1> DEFINE tp == s.traceparent
           ts == s.tracestate
           i == InterceptorOf(l, g, s)
           replaced == Replacing(Replacing(g, "traceparent", tp), "tracestate", ts)
           appended == Appending(Appending(g, "traceparent", tp), "tracestate", ts)
<1>1. /\ tp \in {<<>>} \cup OneValue /\ ts \in Seq(HeaderValue)
      /\ g.traceparent \in {<<>>} \cup OneValue /\ g.tracestate \in Seq(HeaderValue)
  BY DEF Headers
<1>2. tp \in Seq(HeaderValue) /\ <<>> \o tp = tp /\ <<>> \o ts = ts
  <2>1. tp = <<>> \/ tp \in OneValue
    BY <1>1
  <2>2. tp \in Seq(HeaderValue)
    BY <2>1, OneIsOne, NoneIsEmpty
  <2> QED
    BY <1>1, <2>2, NoneIsEmpty
<1>3. CASE Carries(g)
  BY <1>3 DEF InterceptorOf, RustInterceptor, NodeInterceptor, PythonInterceptor, JavaInterceptor,
              CSharpInterceptor
<1>4. CASE ~Carries(g)
  <2>1. g.traceparent = <<>>
    BY <1>4 DEF Carries
  <2>2. \/ i = replaced
        \/ Carries(s) /\ i = appended
        \/ ~Carries(s) /\ i = g
    BY <1>4 DEF InterceptorOf, RustInterceptor, NodeInterceptor, PythonInterceptor, JavaInterceptor,
                CSharpInterceptor
  <2>3. /\ replaced.traceparent = tp
        /\ g = NoHeaders => replaced.tracestate = ts
    BY <1>1, <2>1 DEF Replacing, Headers, NoHeaders
  <2>4. /\ appended.traceparent = tp
        /\ g = NoHeaders => appended.tracestate = ts
    <3> DEFINE h == [g EXCEPT !["traceparent"] = tp]
    <3>1. Appending(g, "traceparent", tp) = h
      BY <1>2, <2>1 DEF Appending
    <3>2. h.traceparent = tp /\ h.tracestate = g.tracestate /\ DOMAIN h = {"traceparent", "tracestate"}
      BY DEF Headers
    <3> HIDE DEF h
    <3>3. appended = [h EXCEPT !["tracestate"] = @ \o ts]
      BY <3>1 DEF Appending
    <3>4. appended.traceparent = tp /\ appended.tracestate = g.tracestate \o ts
      BY <3>2, <3>3
    <3>5. g = NoHeaders => g.tracestate = <<>>
      BY DEF NoHeaders
    <3> HIDE DEF appended, tp, ts
    <3> QED
      BY <1>2, <3>4, <3>5
  <2>5. ~Carries(s) => tp = <<>>
    BY DEF Carries
  <2> HIDE DEF i, replaced, appended
  <2>6. i.traceparent = tp /\ (Carries(s) /\ g = NoHeaders => i.tracestate = ts)
    BY <2>1, <2>2, <2>3, <2>4, <2>5
  <2> QED
    BY <1>4, <2>6 DEF i
<1> QED
  BY <1>3, <1>4

\* The library passes on a traceparent with all there is of tracestate, and
\* nothing of headers without one (traceContext, forwardTraceContext).
LEMMA ForwardIs ==
    ASSUME NEW m, m.traceparent \in {<<>>} \cup OneValue
    PROVE  /\ Carries(m) => /\ forwardTraceContext(m).traceparent = m.traceparent
                            /\ forwardTraceContext(m).tracestate = m.tracestate
           /\ ~Carries(m) => forwardTraceContext(m) = NoHeaders
<1>1. CASE Carries(m)
  <2>1. m.traceparent # <<>> /\ m.traceparent = <<Head(m.traceparent)>>
    BY <1>1, OneIsOne DEF Carries
  <2> QED
    BY <1>1, <2>1 DEF forwardTraceContext, traceContext
<1>2. CASE ~Carries(m)
  BY <1>2 DEF forwardTraceContext, traceContext
<1> QED
  BY <1>1, <1>2

LEMMA HeadersEqual ==
    ASSUME NEW g \in Headers, NEW p, NEW q, p = g.traceparent, q = g.tracestate
    PROVE  [traceparent |-> p, tracestate |-> q] = g
BY DEF Headers

\* A stream with a traceparent of its own.
LEMMA OwnArrive ==
    ASSUME NEW l \in {"rust", "node", "python", "java", "csharp"}, NEW g \in Headers, NEW s \in Contexts,
           Carries(g)
    PROVE  forwardTraceContext(InterceptorOf(l, g, Current(s))) = g
<1>1. InterceptorOf(l, g, Current(s)) = g
  BY CurrentIs, InterceptorsAgree
<1>2. g.traceparent # <<>> /\ g.traceparent \in OneValue
  BY DEF Carries, Headers
<1>3. <<Head(g.traceparent)>> = g.traceparent
  BY <1>2, OneIsOne
<1>4. forwardTraceContext(g) = [traceparent |-> <<Head(g.traceparent)>>, tracestate |-> g.tracestate]
  BY <1>2 DEF forwardTraceContext, traceContext, Carries
<1> QED
  BY <1>1, <1>3, <1>4, HeadersEqual

\* And one without.
LEMMA SpanArrives ==
    ASSUME NEW l \in {"rust", "node", "python", "java", "csharp"}, NEW g \in Headers, NEW s \in Contexts,
           ~Carries(g), NEW m, m = forwardTraceContext(InterceptorOf(l, g, Current(s)))
    PROVE  IF s.otel /\ s.valid
           THEN /\ m.traceparent = s.parent
                /\ g = NoHeaders => m.tracestate = s.state
           ELSE m = NoHeaders
<1> DEFINE i == InterceptorOf(l, g, Current(s))
<1>1. /\ i.traceparent = Current(s).traceparent
      /\ Carries(Current(s)) /\ g = NoHeaders => i.tracestate = Current(s).tracestate
  BY CurrentIs, InterceptorsAgree
<1>2. i.traceparent \in {<<>>} \cup OneValue
  BY <1>1, CurrentIs DEF Headers
<1> HIDE DEF i
<1>3. m = forwardTraceContext(i)
  BY DEF i
<1>4. CASE s.otel /\ s.valid
  <2>1. Current(s).traceparent = s.parent /\ Current(s).tracestate = s.state /\ s.parent # <<>>
    BY <1>4, CurrentIs, OneIsOne DEF Contexts
  <2>2. Carries(i) /\ Carries(Current(s))
    BY <1>1, <2>1 DEF Carries
  <2>3. m.traceparent = i.traceparent /\ m.tracestate = i.tracestate
    BY <1>2, <1>3, <2>2, ForwardIs
  <2> QED
    BY <1>1, <1>4, <2>1, <2>2, <2>3
<1>5. CASE ~(s.otel /\ s.valid)
  <2>1. Current(s).traceparent = <<>>
    BY <1>5, CurrentIs DEF NoHeaders
  <2>2. ~Carries(i)
    BY <1>1, <2>1 DEF Carries
  <2> QED
    BY <1>2, <1>3, <1>5, <2>2, ForwardIs
<1> QED
  BY <1>4, <1>5

LEMMA UnaryArrives ==
    ASSUME NEW s \in Contexts, NEW m, m = traceContext(Current(s).traceparent, Current(s).tracestate)
    PROVE  IF s.otel /\ s.valid THEN m.traceparent = s.parent /\ m.tracestate = s.state
           ELSE m = NoHeaders
<1>1. CASE s.otel /\ s.valid
  <2>1. s.parent # <<>>
    BY OneIsOne DEF Contexts
  <2> QED
    BY <1>1, <2>1, CurrentIs DEF traceContext
<1>2. CASE ~(s.otel /\ s.valid)
  BY <1>2, CurrentIs DEF traceContext, NoHeaders
<1> QED
  BY <1>1, <1>2

LEMMA TraceStarts == TraceInit => TraceInv
<1> SUFFICES ASSUME TraceInit PROVE TraceInv
  OBVIOUS
<1>1. NoHeaders \in Headers
  BY NoneIsEmpty DEF NoHeaders, Headers
<1>2. Span \subseteq Contexts /\ Given \subseteq Headers
  BY TraceContextAssumption DEF Contexts, Headers
<1>3. CASE req \in [lang : Language, path : {"stream"}, span : Span, given : Given]
  BY <1>2, <1>3 DEF TraceInit, TraceInv
<1>4. CASE req \in [lang : Language, path : {"unary"}, span : Span, given : {NoHeaders}]
  BY <1>1, <1>2, <1>4 DEF TraceInit, TraceInv
<1> QED
  BY <1>3, <1>4 DEF TraceInit

LEMMA TraceStep == TraceInv /\ [TraceNext]_traceVars => TraceInv'
<1> SUFFICES ASSUME TraceInv, [TraceNext]_traceVars PROVE TraceInv'
  OBVIOUS
<1>1. CASE CallUnary
  BY <1>1 DEF CallUnary, TraceInv, Gets
<1>2. CASE Intercept
  BY <1>2 DEF Intercept, TraceInv, Sent
<1>3. CASE Forward
  <2>1. md' = forwardTraceContext(Sent(req)) /\ at' = "arrived" /\ req' = req /\ req.path = "stream"
    BY <1>3 DEF Forward, TraceInv
  <2>2. md' = Gets(req)
    BY <2>1 DEF Gets
  <2> QED
    BY <2>1, <2>2 DEF TraceInv
<1>4. CASE UNCHANGED traceVars
  BY <1>4 DEF traceVars, TraceInv
<1> QED
  BY <1>1, <1>2, <1>3, <1>4 DEF TraceNext

\* A stream that carries a traceparent of its own arrives with it and with
\* every value of its tracestate, in every binding and whatever span is
\* current: no interceptor touches it, and the proxy keeps what it gets.
THEOREM OwnHeadersArrive == TraceSpec => []OwnHeadersKept
<1>1. TraceInv => OwnHeadersKept
  <2>1. SUFFICES ASSUME TraceInv, at = "arrived", Carries(req.given) PROVE md = req.given
    BY DEF OwnHeadersKept, Arrived
  <2>2. req.path = "stream" /\ md = forwardTraceContext(Sent(req))
    BY <2>1 DEF TraceInv, Gets, Carries, NoHeaders
  <2>3. req.lang \in {"rust", "node", "python", "java", "csharp"}
    BY <2>1, TraceContextAssumption DEF TraceInv
  <2> QED
    BY <2>1, <2>2, <2>3, OwnArrive DEF TraceInv, Sent
<1> QED
  BY <1>1, TraceStarts, TraceStep, PTL DEF TraceSpec

\* A request without a traceparent joins the trace of the current span, with
\* its tracestate, over the FFI and over the proxy alike and in every binding;
\* without a valid span, or without OpenTelemetry, it carries nothing.
THEOREM SpansAreJoined == TraceSpec => []CurrentSpanJoined
<1>1. TraceInv => CurrentSpanJoined
  <2>1. SUFFICES ASSUME TraceInv, at = "arrived", ~Carries(req.given)
                 PROVE  IF req.span.otel /\ req.span.valid
                        THEN /\ md.traceparent = req.span.parent
                             /\ req.given = NoHeaders => md.tracestate = req.span.state
                        ELSE md = NoHeaders
    BY DEF CurrentSpanJoined, Arrived
  <2>2. /\ req.span \in Contexts /\ req.given \in Headers /\ md = Gets(req)
        /\ req.path \in {"stream", "unary"}
    BY <2>1 DEF TraceInv
  <2>3. CASE req.path = "unary"
    BY <2>2, <2>3, UnaryArrives DEF Gets
  <2>4. CASE req.path # "unary"
    <3>1. md = forwardTraceContext(InterceptorOf(req.lang, req.given, Current(req.span)))
      BY <2>2, <2>4 DEF Gets, Sent
    <3>2. req.lang \in {"rust", "node", "python", "java", "csharp"}
      BY <2>1, TraceContextAssumption DEF TraceInv
    <3> QED
      BY <2>1, <2>2, <3>1, <3>2, SpanArrives
  <2> QED
    BY <2>3, <2>4
<1> QED
  BY <1>1, TraceStarts, TraceStep, PTL DEF TraceSpec

-----------------------------------------------------------------------------
\* The start options

Strings == {"datastore", "datastore_uri", "spanner_emulator_host", "mysql_table_prefix", "otlp_endpoint"}

\* The options as JSON, with the fields of wrong of another type than theirs.
JsonOf(c, wrong) ==
    [f \in Fields |-> IF f \in wrong THEN Mistyped
                      ELSE IF c.given[f] = None THEN Unset(c.lang)
                      ELSE c.given[f]]

\* What spicedb_start decodes of them.
Decoded(w) ==
    [f \in Fields |-> IF w[f] = Mistyped THEN Malformed(f)
                      ELSE IF w[f].is # "some" THEN Zero[f]
                      ELSE IF f = "datastore_metrics_enabled" THEN w[f] ELSE w[f].v]

Written == \E wrong \in SUBSET Fields : wire = JsonOf(call, wrong)

\* The call is written, then read, then acted upon.
OptionsInv ==
    /\ call.given \in Options
    /\ \/ wire = <<>> /\ opts = <<>> /\ effect = <<>>
       \/ Written /\ opts = <<>> /\ effect = <<>>
       \/ Written /\ opts = Decoded(wire) /\ effect = <<>>
       \/ Written /\ opts = Decoded(wire) /\ effect = Effect(opts)

\* An option is none or some value, and those are told apart.
LEMMA OptionCases ==
    ASSUME NEW S, NEW x \in Optional(S)
    PROVE  x = None \/ \E v \in S : x = Some(v)
BY DEF Optional

LEMMA Kinds ==
    /\ None.is = "none" /\ Null.is = "null" /\ Mistyped.is = "mistyped"
    /\ \A v : Some(v).is = "some" /\ Some(v).v = v
BY DEF None, Null, Mistyped, Some

\* What is left out, null or of another type leaves the field as it was; any
\* value arrives (json.Unmarshal into the struct of pointers and values).  The
\* pointer arrives as FALSE when its value is of another type.
LEMMA FieldArrives ==
    ASSUME Written, opts = Decoded(wire), NEW f \in Fields, NEW S, call.given[f] \in Optional(S),
           f = "datastore_metrics_enabled" => FALSE \in S
    PROVE  \/ Meant(f) = None /\ opts[f] = Zero[f]
           \/ \E v \in S : /\ Meant(f) = Some(v)
                           /\ opts[f] = IF f = "datastore_metrics_enabled" THEN Some(v) ELSE v
<1>1. PICK wrong \in SUBSET Fields : wire = JsonOf(call, wrong)
  BY DEF Written
<1>2. wire[f] = IF f \in wrong THEN Mistyped
                ELSE IF call.given[f] = None THEN Unset(call.lang)
                ELSE call.given[f]
  BY <1>1 DEF JsonOf
<1>3. opts[f] = IF wire[f] = Mistyped THEN Malformed(f)
                ELSE IF wire[f].is # "some" THEN Zero[f]
                ELSE IF f = "datastore_metrics_enabled" THEN wire[f] ELSE wire[f].v
  BY DEF Decoded
<1>4. Meant(f) = IF wire[f] # Mistyped THEN call.given[f]
                 ELSE IF f = "datastore_metrics_enabled" THEN Some(FALSE) ELSE None
  BY DEF Meant
<1>5. CASE f \in wrong
  <2>1. wire[f] = Mistyped
    BY <1>2, <1>5
  <2> QED
    BY <1>3, <1>4, <2>1 DEF Malformed
<1>6. CASE f \notin wrong /\ call.given[f] = None
  <2>1. wire[f] = Null \/ wire[f] = None
    BY <1>2, <1>6 DEF Unset
  <2>2. wire[f].is # "some" /\ wire[f] # Mistyped
    BY <2>1, Kinds
  <2> QED
    BY <1>3, <1>4, <1>6, <2>2
<1>7. CASE f \notin wrong /\ call.given[f] # None
  <2>1. PICK v \in S : call.given[f] = Some(v)
    BY <1>7, OptionCases
  <2>2. wire[f] = Some(v)
    BY <1>2, <1>7, <2>1
  <2>3. wire[f].is = "some" /\ wire[f].v = v /\ wire[f] # Mistyped
    BY <2>2, Kinds
  <2> QED
    BY <1>3, <1>4, <2>1, <2>2, <2>3
<1> QED
  BY <1>5, <1>6, <1>7

\* An option that is a string: it is named when it arrives and is not empty.
LEMMA StringArrives ==
    ASSUME Written, opts = Decoded(wire), NEW f \in Strings, NEW S, call.given[f] \in Optional(S)
    PROVE  /\ Named(f) <=> opts[f] # ""
           /\ Named(f) => Meant(f).v = opts[f]
<1>1. f \in Fields /\ f # "datastore_metrics_enabled" /\ Zero[f] = ""
  <2>1. /\ Zero["datastore"] = "" /\ Zero["datastore_uri"] = "" /\ Zero["spanner_emulator_host"] = ""
        /\ Zero["mysql_table_prefix"] = "" /\ Zero["otlp_endpoint"] = ""
    BY DEF Zero
  <2>2. f \in Fields /\ f # "datastore_metrics_enabled"
    BY DEF Strings, Fields
  <2> QED
    BY <2>1, <2>2 DEF Strings
<1>2. \/ Meant(f) = None /\ opts[f] = ""
      \/ \E v \in S : Meant(f) = Some(v) /\ opts[f] = v
  BY <1>1, FieldArrives
<1> QED
  BY <1>2, Kinds DEF Named

LEMMA StringsArrive ==
    ASSUME Written, opts = Decoded(wire), call.given \in Options, NEW f \in Strings
    PROVE  /\ Named(f) <=> opts[f] # ""
           /\ Named(f) => Meant(f).v = opts[f]
<1>1. \E S : call.given[f] \in Optional(S)
  BY DEF Options, Strings
<1> QED
  BY <1>1, StringArrives

\* The switches: absent is off for the one, and on for the other.
LEMMA SwitchesArrive ==
    ASSUME Written, opts = Decoded(wire), call.given \in Options
    PROVE  /\ opts.metrics_enabled \in BOOLEAN
           /\ Meant("metrics_enabled") = Some(TRUE) <=> opts.metrics_enabled
           /\ BoolPtrOrDefault(opts.datastore_metrics_enabled, TRUE) \in BOOLEAN
           /\ Meant("datastore_metrics_enabled") # Some(FALSE)
                  <=> BoolPtrOrDefault(opts.datastore_metrics_enabled, TRUE)
<1>1. /\ "metrics_enabled" \in Fields /\ "datastore_metrics_enabled" \in Fields
      /\ Zero["metrics_enabled"] = FALSE /\ Zero["datastore_metrics_enabled"] = None
      /\ call.given["metrics_enabled"] \in Optional(BOOLEAN)
      /\ call.given["datastore_metrics_enabled"] \in Optional(BOOLEAN)
  BY DEF Fields, Zero, Options
<1>2. opts.metrics_enabled = opts["metrics_enabled"]
      /\ opts.datastore_metrics_enabled = opts["datastore_metrics_enabled"]
  BY DEF Decoded, Fields
<1>3. \/ Meant("metrics_enabled") = None /\ opts["metrics_enabled"] = FALSE
      \/ \E v \in BOOLEAN : Meant("metrics_enabled") = Some(v) /\ opts["metrics_enabled"] = v
  <2>1. "metrics_enabled" # "datastore_metrics_enabled" /\ FALSE \in BOOLEAN
    OBVIOUS
  <2> DEFINE f == "metrics_enabled"
             S == BOOLEAN
  <2>2. /\ f \in Fields /\ call.given[f] \in Optional(S) /\ f # "datastore_metrics_enabled"
        /\ FALSE \in S /\ Zero[f] = FALSE
    BY <1>1, <2>1
  <2> HIDE DEF f, S
  <2>3. \/ Meant(f) = None /\ opts[f] = Zero[f]
        \/ \E v \in S : Meant(f) = Some(v) /\ opts[f] = v
    BY <2>2, FieldArrives
  <2> QED
    BY <2>2, <2>3 DEF f, S
<1>4. \/ Meant("datastore_metrics_enabled") = None /\ opts["datastore_metrics_enabled"] = None
      \/ \E v \in BOOLEAN : Meant("datastore_metrics_enabled") = Some(v)
                            /\ opts["datastore_metrics_enabled"] = Some(v)
  <2> DEFINE f == "datastore_metrics_enabled"
             S == BOOLEAN
  <2>2. /\ f \in Fields /\ call.given[f] \in Optional(S) /\ FALSE \in S /\ Zero[f] = None
        /\ f = "datastore_metrics_enabled"
    BY <1>1
  <2> HIDE DEF f, S
  <2>3. \/ Meant(f) = None /\ opts[f] = Zero[f]
        \/ \E v \in S : Meant(f) = Some(v) /\ opts[f] = Some(v)
    BY <2>2, FieldArrives
  <2> QED
    BY <2>2, <2>3 DEF f, S
<1>5. None # Some(TRUE) /\ None # Some(FALSE) /\ Some(TRUE) # Some(FALSE)
  BY Kinds
<1>6. /\ BoolPtrOrDefault(None, TRUE) = TRUE
      /\ BoolPtrOrDefault(Some(TRUE), TRUE) = TRUE /\ BoolPtrOrDefault(Some(FALSE), TRUE) = FALSE
  BY Kinds DEF BoolPtrOrDefault
<1>7. /\ opts.metrics_enabled \in BOOLEAN
      /\ Meant("metrics_enabled") = Some(TRUE) <=> opts.metrics_enabled
  BY <1>2, <1>3, <1>5
<1>8. /\ BoolPtrOrDefault(opts.datastore_metrics_enabled, TRUE) \in BOOLEAN
      /\ Meant("datastore_metrics_enabled") # Some(FALSE)
             <=> BoolPtrOrDefault(opts.datastore_metrics_enabled, TRUE)
  BY <1>2, <1>4, <1>5, <1>6
<1> QED
  BY <1>7, <1>8

LEMMA PortArrives ==
    ASSUME Written, opts = Decoded(wire), call.given \in Options
    PROVE  Meant("metrics_port") \notin {None, Some(0)} <=> opts.metrics_port > 0
<1>1. /\ "metrics_port" \in Fields /\ Zero["metrics_port"] = 0
      /\ call.given["metrics_port"] \in Optional(Ports)
  BY DEF Fields, Zero, Options
<1>2. opts.metrics_port = opts["metrics_port"]
  BY DEF Decoded, Fields
<1>3. \/ Meant("metrics_port") = None /\ opts["metrics_port"] = 0
      \/ \E v \in Ports : Meant("metrics_port") = Some(v) /\ opts["metrics_port"] = v
  BY <1>1, FieldArrives
<1>4. None # Some(0) /\ \A v : Some(v) = Some(0) => v = 0
  BY Kinds
<1>5. \A v \in Ports : v = 0 \/ v > 0
  BY DEF Ports
<1>6. \A v \in Ports : v > 0 <=> Some(v) \notin {None, Some(0)}
  BY <1>4, <1>5, Kinds
<1> QED
  BY <1>2, <1>3, <1>6

-----------------------------------------------------------------------------
\* What the options make of a start

\* The fields that spicedb_start looks at, each as the caller named it.
LEMMA NamedFields ==
    ASSUME Written, opts = Decoded(wire), call.given \in Options
    PROVE  /\ Named("datastore") <=> opts.datastore # ""
           /\ Named("datastore") => Meant("datastore").v = opts.datastore
           /\ Named("datastore_uri") <=> opts.datastore_uri # ""
           /\ Named("spanner_emulator_host") <=> opts.spanner_emulator_host # ""
           /\ Named("mysql_table_prefix") <=> opts.mysql_table_prefix # ""
           /\ Named("otlp_endpoint") <=> opts.otlp_endpoint # ""
<1>1. /\ opts.datastore = opts["datastore"] /\ opts.datastore_uri = opts["datastore_uri"]
      /\ opts.spanner_emulator_host = opts["spanner_emulator_host"]
      /\ opts.mysql_table_prefix = opts["mysql_table_prefix"]
      /\ opts.otlp_endpoint = opts["otlp_endpoint"]
  BY DEF Decoded, Fields
<1>2. /\ "datastore" \in Strings /\ "datastore_uri" \in Strings /\ "spanner_emulator_host" \in Strings
      /\ "mysql_table_prefix" \in Strings /\ "otlp_endpoint" \in Strings
  BY DEF Strings
<1>3. ASSUME NEW f \in Strings
      PROVE  /\ Named(f) <=> opts[f] # ""
             /\ Named(f) => Meant(f).v = opts[f]
  BY StringsArrive
<1> QED
  BY <1>1, <1>2, <1>3

\* An effect is a refusal or a start, and those are told apart.
LEMMA StartRecord ==
    ASSUME NEW a, NEW b, NEW c, NEW d, NEW f, NEW g, NEW h, NEW i, NEW e,
           e = [started |-> a, engine |-> b, uri |-> c, emulator |-> d, prefix |-> f,
                dsMetrics |-> g, tracing |-> h, server |-> i]
    PROVE  /\ e.started = a /\ e.engine = b /\ e.emulator = d /\ e.prefix = f
           /\ e.dsMetrics = g /\ e.tracing = h /\ e.server = i
OBVIOUS

LEMMA StartIsThere ==
    ASSUME NEW a, NEW b, NEW c, NEW d, NEW f, NEW g, NEW h, NEW i, NEW e,
           e = [started |-> a, engine |-> b, uri |-> c, emulator |-> d, prefix |-> f,
                dsMetrics |-> g, tracing |-> h, server |-> i]
    PROVE  e # <<>>
OBVIOUS

Refuses(o) == Engine(o) \notin Engines \/ (Engine(o) # "memory" /\ o.datastore_uri = "")

LEMMA EffectCases ==
    ASSUME NEW o, NEW e, e = Effect(o)
    PROVE  /\ Refuses(o) => ~e.started /\ e # <<>>
           /\ ~Refuses(o) =>
                 /\ e # <<>> /\ e.started = TRUE /\ e.engine = Engine(o)
                 /\ e.emulator = IF Engine(o) = "spanner" THEN o.spanner_emulator_host ELSE ""
                 /\ e.prefix = IF Engine(o) = "mysql" THEN o.mysql_table_prefix ELSE ""
                 /\ e.dsMetrics = (o.metrics_enabled /\ BoolPtrOrDefault(o.datastore_metrics_enabled, TRUE))
                 /\ e.tracing = (o.metrics_enabled /\ o.otlp_endpoint # "")
                 /\ e.server = (o.metrics_enabled /\ o.metrics_port > 0)
<1>1. CASE Refuses(o)
  <2>1. e = Refused
    BY <1>1 DEF Effect, Refuses
  <2>2. ~Refused.started
    BY DEF Refused
  <2>3. Refused # <<>>
    BY DEF Refused
  <2> QED
    BY <1>1, <2>1, <2>2, <2>3
<1>2. CASE ~Refuses(o)
  <2> DEFINE emulator == IF Engine(o) = "spanner" THEN o.spanner_emulator_host ELSE ""
             prefix == IF Engine(o) = "mysql" THEN o.mysql_table_prefix ELSE ""
             dsMetrics == o.metrics_enabled /\ BoolPtrOrDefault(o.datastore_metrics_enabled, TRUE)
             tracing == o.metrics_enabled /\ o.otlp_endpoint # ""
             server == o.metrics_enabled /\ o.metrics_port > 0
  <2>1. e = [started |-> TRUE, engine |-> Engine(o), uri |-> o.datastore_uri,
             emulator |-> emulator, prefix |-> prefix, dsMetrics |-> dsMetrics,
             tracing |-> tracing, server |-> server]
    BY <1>2, Zenon DEF Effect, Refuses
  <2> HIDE DEF emulator, prefix, dsMetrics, tracing, server
  <2>2. /\ e.started = TRUE /\ e.engine = Engine(o) /\ e.emulator = emulator /\ e.prefix = prefix
        /\ e.dsMetrics = dsMetrics /\ e.tracing = tracing /\ e.server = server
    BY <2>1, StartRecord
  <2>3. e # <<>>
    BY <2>1, StartIsThere
  <2> QED
    BY <1>2, <2>2, <2>3 DEF emulator, prefix, dsMetrics, tracing, server
<1> QED
  BY <1>1, <1>2

\* The datastore, its URI and its own options.
LEMMA DatastoreIs ==
    ASSUME Written, opts = Decoded(wire), call.given \in Options, effect = Effect(opts)
    PROVE  DatastoreHonoured
<1> DEFINE engine == Engine(opts)
<1>1. /\ Refuses(opts) => ~effect.started
      /\ ~Refuses(opts) =>
            /\ effect.started = TRUE /\ effect.engine = engine
            /\ effect.emulator = IF engine = "spanner" THEN opts.spanner_emulator_host ELSE ""
            /\ effect.prefix = IF engine = "mysql" THEN opts.mysql_table_prefix ELSE ""
      /\ effect # <<>>
  BY EffectCases
<1>2. /\ Named("datastore") <=> opts.datastore # ""
      /\ Named("datastore") => Meant("datastore").v = opts.datastore
      /\ Named("datastore_uri") <=> opts.datastore_uri # ""
      /\ Named("spanner_emulator_host") <=> opts.spanner_emulator_host # ""
      /\ Named("mysql_table_prefix") <=> opts.mysql_table_prefix # ""
  BY NamedFields
<1>3. Started <=> ~Refuses(opts)
  BY <1>1 DEF Started
<1>4. "memory" \in Engines
  BY DEF Engines
<1>5. CASE ~Named("datastore")
  <2>1. engine = "memory" /\ ~Refuses(opts)
    BY <1>2, <1>4, <1>5 DEF Engine, Refuses
  <2>2. Started /\ effect.engine = "memory"
    BY <1>1, <1>3, <2>1
  <2> QED
    BY <1>5, <2>2 DEF DatastoreHonoured
<1>6. CASE Named("datastore")
  <2>1. engine = opts.datastore /\ Meant("datastore").v = engine
    BY <1>2, <1>6 DEF Engine
  <2> HIDE DEF engine
  <2>2. ASSUME Started
        PROVE  /\ effect.engine = Meant("datastore").v
               /\ Named("datastore_uri") \/ effect.engine = "memory"
               /\ effect.prefix # "" <=> effect.engine = "mysql" /\ Named("mysql_table_prefix")
               /\ effect.emulator # "" <=> effect.engine = "spanner" /\ Named("spanner_emulator_host")
    <3>1. /\ effect.engine = engine
          /\ effect.emulator = IF engine = "spanner" THEN opts.spanner_emulator_host ELSE ""
          /\ effect.prefix = IF engine = "mysql" THEN opts.mysql_table_prefix ELSE ""
      BY <1>1, <1>3, <2>2
    <3>2. engine = "memory" \/ opts.datastore_uri # ""
      BY <1>3, <2>2 DEF Refuses, engine
    <3> QED
      BY <1>2, <2>1, <3>1, <3>2
  <2>3. Meant("datastore").v \in Engines /\ Named("datastore_uri") => Started
    BY <1>2, <1>3, <2>1 DEF Refuses, engine
  <2> QED
    BY <1>6, <2>2, <2>3 DEF DatastoreHonoured
<1> QED
  BY <1>5, <1>6

\* The observability.
LEMMA MetricsAre ==
    ASSUME Written, opts = Decoded(wire), call.given \in Options, effect = Effect(opts)
    PROVE  MetricsHonoured
<1>1. SUFFICES ASSUME Started
               PROVE  IF Meant("metrics_enabled") # Some(TRUE)
                      THEN ~effect.dsMetrics /\ ~effect.tracing /\ ~effect.server
                      ELSE /\ effect.dsMetrics <=> Meant("datastore_metrics_enabled") # Some(FALSE)
                           /\ effect.tracing <=> Named("otlp_endpoint")
                           /\ effect.server <=> Meant("metrics_port") \notin {None, Some(0)}
  BY DEF MetricsHonoured
<1>2. ~Refuses(opts)
  BY <1>1, EffectCases DEF Started
<1> DEFINE on == BoolPtrOrDefault(opts.datastore_metrics_enabled, TRUE)
<1>3. /\ effect.dsMetrics = (opts.metrics_enabled /\ on)
      /\ effect.tracing = (opts.metrics_enabled /\ opts.otlp_endpoint # "")
      /\ effect.server = (opts.metrics_enabled /\ opts.metrics_port > 0)
  BY <1>2, EffectCases
<1>4. /\ opts.metrics_enabled \in BOOLEAN /\ on \in BOOLEAN
      /\ Meant("metrics_enabled") = Some(TRUE) <=> opts.metrics_enabled
      /\ Meant("datastore_metrics_enabled") # Some(FALSE) <=> on
  BY SwitchesArrive
<1>5. Named("otlp_endpoint") <=> opts.otlp_endpoint # ""
  BY NamedFields
<1>6. Meant("metrics_port") \notin {None, Some(0)} <=> opts.metrics_port > 0
  BY PortArrives
<1> HIDE DEF on
<1>7. CASE Meant("metrics_enabled") # Some(TRUE)
  <2>1. ~opts.metrics_enabled
    BY <1>4, <1>7
  <2> QED
    BY <1>3, <1>7, <2>1
<1>8. CASE Meant("metrics_enabled") = Some(TRUE)
  <2>1. opts.metrics_enabled
    BY <1>4, <1>8
  <2>2. effect.dsMetrics <=> on
    BY <1>3, <2>1
  <2>3. effect.tracing <=> opts.otlp_endpoint # ""
    BY <1>3, <2>1
  <2>4. effect.server <=> opts.metrics_port > 0
    BY <1>3, <2>1
  <2> QED
    BY <1>4, <1>5, <1>6, <1>8, <2>2, <2>3, <2>4
<1> QED
  BY <1>7, <1>8

LEMMA OptionsStart == OptionsInit => OptionsInv
<1> SUFFICES ASSUME OptionsInit PROVE OptionsInv
  OBVIOUS
<1>1. call.given \in Options /\ wire = <<>> /\ opts = <<>> /\ effect = <<>>
  BY DEF OptionsInit
<1> QED
  BY <1>1 DEF OptionsInv

LEMMA OptionsStep == OptionsInv /\ [OptionsNext]_optionsVars => OptionsInv'
<1> SUFFICES ASSUME OptionsInv, [OptionsNext]_optionsVars PROVE OptionsInv'
  OBVIOUS
<1>1. ASSUME Written PROVE wire # <<>>
  <2>1. PICK wrong \in SUBSET Fields : wire = JsonOf(call, wrong)
    BY <1>1 DEF Written
  <2>2. \A w : JsonOf(call, w) # <<>>
    BY DEF JsonOf, Fields
  <2> QED
    BY <2>1, <2>2
<1>2. CASE Encode
  <2>1. wire = <<>> /\ opts = <<>> /\ effect = <<>> /\ call' = call /\ opts' = opts /\ effect' = effect
    BY <1>1, <1>2 DEF Encode, OptionsInv
  <2>2. PICK wrong \in IF call.lang \in Untyped THEN {{}} \cup {{f} : f \in Fields} ELSE {{}} :
            wire' = [f \in Fields |-> IF f \in wrong THEN Mistyped
                                      ELSE IF call.given[f] = None THEN Unset(call.lang)
                                      ELSE call.given[f]]
    BY <1>2 DEF Encode
  <2>3. wrong \in SUBSET Fields
    BY <2>2
  <2>4. wire' = JsonOf(call', wrong)
    BY <2>1, <2>2 DEF JsonOf
  <2>5. Written'
    BY <2>3, <2>4 DEF Written
  <2> QED
    BY <2>1, <2>5 DEF OptionsInv
<1>3. CASE ParseStartOptions
  <2>1. wire # <<>> /\ opts = <<>> /\ opts' = Decoded(wire) /\ UNCHANGED <<call, wire, effect>>
    BY <1>3 DEF ParseStartOptions, Decoded
  <2>2. Written'
    BY <2>1 DEF OptionsInv, Written
  <2> QED
    BY <2>1, <2>2 DEF OptionsInv
<1>4. CASE SpicedbStart
  <2>1. opts # <<>> /\ effect' = Effect(opts) /\ UNCHANGED <<call, wire, opts>>
    BY <1>4 DEF SpicedbStart
  <2>2. Written' /\ opts' = Decoded(wire')
    BY <2>1 DEF OptionsInv, Written
  <2> QED
    BY <2>1, <2>2 DEF OptionsInv
<1>5. CASE UNCHANGED optionsVars
  BY <1>5 DEF optionsVars, OptionsInv, Written
<1> QED
  BY <1>2, <1>3, <1>4, <1>5 DEF OptionsNext

\* Whatever the binding and its way of writing what is not set, a start uses
\* the datastore, its options and the observability the caller gave; a value
\* of another type changes no other option and counts as not given, except
\* that it turns the datastore's metrics off.
THEOREM OptionsAreHonoured == OptionsSpec => []OptionsHonoured
<1>1. OptionsInv => OptionsHonoured
  <2>1. SUFFICES ASSUME OptionsInv PROVE OptionsHonoured
    OBVIOUS
  <2>2. CASE effect = <<>>
    BY <2>2 DEF OptionsHonoured, DatastoreHonoured, MetricsHonoured, Started
  <2>3. CASE effect # <<>>
    BY <2>1, <2>3, DatastoreIs, MetricsAre DEF OptionsInv, OptionsHonoured
  <2> QED
    BY <2>2, <2>3
<1> QED
  BY <1>1, OptionsStart, OptionsStep, PTL DEF OptionsSpec
=============================================================================
