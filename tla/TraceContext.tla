---------------------------- MODULE TraceContext ----------------------------
(***************************************************************************)
(* The way of the W3C trace headers from a caller to SpiceDB: over the     *)
(* FFI for unary requests, and through a binding's gRPC interceptor and    *)
(* the streaming proxy for streams.                                        *)
(*                                                                         *)
(* Metadata holds the values of traceparent and of tracestate, each a      *)
(* sequence since gRPC allows a key to repeat.                             *)
(***************************************************************************)
EXTENDS Naturals, Sequences

CONSTANTS
    Language,   \* the bindings looked at
    Span,       \* the contexts a caller may be in
    Given,      \* the headers the caller has put on a stream itself
    HeaderValue \* the values of a header

OneValue == {<<v>> : v \in HeaderValue}

\* Nothing but values of the right shape.  A context has OpenTelemetry or not,
\* a span that is valid (in C#: an activity in the W3C format) or not, and the
\* tracestate of the span, which may be empty.  A caller gives one traceparent,
\* as W3C has it, or none, and any number of values of tracestate.
ASSUME TraceContextAssumption ==
    /\ Language \subseteq {"rust", "node", "python", "java", "csharp"}
    /\ Given \subseteq [traceparent : {<<>>} \cup OneValue, tracestate : Seq(HeaderValue)]
    /\ Span \subseteq [otel : BOOLEAN, valid : BOOLEAN, parent : OneValue, state : {<<>>} \cup OneValue]

VARIABLES
    req,     \* the request: its language, path, current span, own headers
    md,      \* the metadata the request carries
    at       \* where it is: called, sent (to the proxy) or arrived (at SpiceDB)

traceVars == <<req, md, at>>

NoHeaders == [traceparent |-> <<>>, tracestate |-> <<>>]

TraceInit ==
    /\ \/ req \in [lang : Language, path : {"stream"}, span : Span, given : Given]
       \/ req \in [lang : Language, path : {"unary"}, span : Span, given : {NoHeaders}]
    /\ md = req.given
    /\ at = "called"

-----------------------------------------------------------------------------
\* current: the headers of the span the caller is in.

Current(span) ==
    IF span.otel /\ span.valid THEN [traceparent |-> span.parent, tracestate |-> span.state]
    ELSE NoHeaders

-----------------------------------------------------------------------------
\* The interceptors: what a stream with headers g is sent with.

Carries(g) == g.traceparent # <<>>

\* Insert and set replace the values of a key; put, Add and extend add one.
Replacing(g, key, v) == IF v = <<>> THEN g ELSE [g EXCEPT ![key] = v]
Appending(g, key, v) == [g EXCEPT ![key] = @ \o v]

RustInterceptor(g, span) ==
    IF Carries(g) THEN g
    ELSE Replacing(Replacing(g, "traceparent", span.traceparent), "tracestate", span.tracestate)

NodeInterceptor(g, span) ==
    IF Carries(g) THEN g
    ELSE Replacing(Replacing(g, "traceparent", span.traceparent), "tracestate", span.tracestate)

PythonInterceptor(g, span) ==
    IF Carries(g) \/ ~Carries(span) THEN g
    ELSE Appending(Appending(g, "traceparent", span.traceparent), "tracestate", span.tracestate)

JavaInterceptor(g, span) ==
    IF Carries(g) \/ ~Carries(span) THEN g
    ELSE Appending(Appending(g, "traceparent", span.traceparent), "tracestate", span.tracestate)

CSharpInterceptor(g, span) ==
    IF Carries(g) \/ ~Carries(span) THEN g
    ELSE Appending(Appending(g, "traceparent", span.traceparent), "tracestate", span.tracestate)

InterceptorOf(l, g, span) ==
    CASE l = "rust" -> RustInterceptor(g, span)
      [] l = "node" -> NodeInterceptor(g, span)
      [] l = "python" -> PythonInterceptor(g, span)
      [] l = "java" -> JavaInterceptor(g, span)
      [] l = "csharp" -> CSharpInterceptor(g, span)

-----------------------------------------------------------------------------
\* The library: the outgoing metadata replaces what was there before.

\* Mutant of traceContext: no early return.
traceContextAlways(traceparent, tracestate) ==
    [traceparent |-> traceparent, tracestate |-> tracestate]

traceContext(traceparent, tracestate) ==
    IF traceparent = <<>> THEN NoHeaders
    ELSE [traceparent |-> traceparent, tracestate |-> tracestate]

\* Mutant of forwardTraceContext: the first value of each key.
forwardTraceContextFirst(m) ==
    traceContext(IF Carries(m) THEN <<Head(m.traceparent)>> ELSE <<>>,
                 IF m.tracestate # <<>> THEN <<Head(m.tracestate)>> ELSE <<>>)

\* The first traceparent, and the values of tracestate joined in order.
forwardTraceContext(m) ==
    traceContext(IF Carries(m) THEN <<Head(m.traceparent)>> ELSE <<>>, m.tracestate)

-----------------------------------------------------------------------------
\* spicedb_rpc is given the headers of the current span as they are.
CallUnary ==
    /\ at = "called" /\ req.path = "unary"
    /\ md' = traceContext(Current(req.span).traceparent, Current(req.span).tracestate)
    /\ at' = "arrived"
    /\ UNCHANGED req

Intercept ==
    /\ at = "called" /\ req.path = "stream"
    /\ md' = InterceptorOf(req.lang, md, Current(req.span))
    /\ at' = "sent"
    /\ UNCHANGED req

Forward ==
    /\ at = "sent"
    /\ md' = forwardTraceContext(md)
    /\ at' = "arrived"
    /\ UNCHANGED req

TraceNext == CallUnary \/ Intercept \/ Forward

TraceSpec == TraceInit /\ [][TraceNext]_traceVars

-----------------------------------------------------------------------------
\* Properties.

Arrived == at = "arrived"

\* A stream that carries a traceparent of its own arrives with it and with its
\* own tracestate, every value of it, whatever span is current
\* (trace_context.rs 44-45: "A call that already carries a `traceparent` keeps
\* it"; streaming_proxy.go 39-40).
OwnHeadersKept ==
    Arrived /\ Carries(req.given) => md = req.given

\* In every language a request without a traceparent joins the trace of the
\* current span, over the FFI and over the proxy alike, with all of its
\* tracestate.  When there is no valid span or no OpenTelemetry it starts its
\* own, and a tracestate given without a traceparent is not passed on
\* (rpc.go 93-98; trace_context.rs, .ts, .py, TraceContext.java, .cs).
CurrentSpanJoined ==
    Arrived /\ ~Carries(req.given) =>
        IF req.span.otel /\ req.span.valid
        THEN /\ md.traceparent = req.span.parent
             /\ req.given = NoHeaders => md.tracestate = req.span.state
        ELSE md = NoHeaders

=============================================================================
