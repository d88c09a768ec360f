---------------------------- MODULE StartOptions ----------------------------
(***************************************************************************)
(* The start options on their way from the caller of a binding through     *)
(* JSON into spicedb_start, and what they make it do.                      *)
(*                                                                         *)
(* An option is none or some value; on the wire it is left out, null, some *)
(* value, or a value of another JSON type than the field has.              *)
(***************************************************************************)
EXTENDS Naturals

CONSTANTS
    Binding,   \* the bindings looked at
    Untyped     \* those that pass on what the caller gives, whatever its type

ASSUME StartOptionsAssumption ==
    Untyped \subseteq Binding /\ Binding \subseteq {"rust", "node", "python", "java", "csharp"}

VARIABLES
    call,   \* the call: its language, and the options it gives
    wire,   \* the options as JSON
    opts,   \* the options as spicedb_start decodes them
    effect  \* what becomes of it

optionsVars == <<call, wire, opts, effect>>

None == [is |-> "none"]
Null == [is |-> "null"]
Mistyped == [is |-> "mistyped"]
Some(v) == [is |-> "some", v |-> v]
Optional(S) == {None} \cup {Some(v) : v \in S}

Engines == {"memory", "postgres", "cockroachdb", "spanner", "mysql"}
Ports == {0, 9090}
Options == [
    datastore : Optional({"", "memory", "postgres", "spanner", "mysql", "other"}),
    datastore_uri : Optional({"uri"}),
    spanner_emulator_host : Optional({"host"}),
    mysql_table_prefix : Optional({"prefix"}),
    metrics_enabled : Optional(BOOLEAN),
    datastore_metrics_enabled : Optional(BOOLEAN),
    otlp_endpoint : Optional({"", "collector"}),
    metrics_port : Optional(Ports)]

Fields == {"datastore", "datastore_uri", "spanner_emulator_host", "mysql_table_prefix",
           "metrics_enabled", "datastore_metrics_enabled", "otlp_endpoint", "metrics_port"}

OptionsInit ==
    /\ call \in [lang : Binding, given : Options]
    /\ wire = <<>> /\ opts = <<>> /\ effect = <<>>

-----------------------------------------------------------------------------
\* The bindings

\* Fields that are not set are left out; only C# writes a null.
Unset(lang) == IF lang = "csharp" THEN Null ELSE None

Encode ==
    /\ wire = <<>>
    /\ \E wrong \in IF call.lang \in Untyped THEN {{}} \cup {{f} : f \in Fields} ELSE {{}} :
          wire' = [f \in Fields |-> IF f \in wrong THEN Mistyped
                                    ELSE IF call.given[f] = None THEN Unset(call.lang)
                                    ELSE call.given[f]]
    /\ UNCHANGED <<call, opts, effect>>

-----------------------------------------------------------------------------
\* The C library

Zero == [datastore |-> "", datastore_uri |-> "", spanner_emulator_host |-> "",
         mysql_table_prefix |-> "", metrics_enabled |-> FALSE,
         datastore_metrics_enabled |-> None, otlp_endpoint |-> "", metrics_port |-> 0]

\* Mutant of ParseStartOptions: nothing is used of options with an error.
ParseAllOrNothing ==
    /\ wire # <<>> /\ opts = <<>>
    /\ opts' = IF \E f \in Fields : wire[f] = Mistyped THEN Zero
               ELSE [f \in Fields |->
                  IF wire[f].is # "some" THEN Zero[f]
                  ELSE IF f = "datastore_metrics_enabled" THEN wire[f] ELSE wire[f].v]
    /\ UNCHANGED <<call, wire, effect>>

\* A value of another type leaves the field alone, but for the one that is a
\* pointer: that is allocated before its type is found to be wrong.
Malformed(f) == IF f = "datastore_metrics_enabled" THEN Some(FALSE) ELSE Zero[f]

\* parseStartOptions: json.Unmarshal leaves a field alone that is absent or
\* null and goes on after a value of another type; its error is dropped.
ParseStartOptions ==
    /\ wire # <<>> /\ opts = <<>>
    /\ opts' = [f \in Fields |->
          IF wire[f] = Mistyped THEN Malformed(f)
          ELSE IF wire[f].is # "some" THEN Zero[f]
          ELSE IF f = "datastore_metrics_enabled" THEN wire[f] ELSE wire[f].v]
    /\ UNCHANGED <<call, wire, effect>>

Refused == [started |-> FALSE]

BoolPtrOrDefault(b, def) == IF b.is = "some" THEN b.v ELSE def

Engine(o) == IF o.datastore = "" THEN "memory" ELSE o.datastore

\* What the options make of spicedb_start, newDatastoreFromOpts and the
\* observability that follows; an engine that SpiceDB does not know is refused.
Effect(o) ==
    LET engine == Engine(o) IN
    IF engine \notin Engines \/ (engine # "memory" /\ o.datastore_uri = "") THEN Refused
    ELSE [started |-> TRUE, engine |-> engine, uri |-> o.datastore_uri,
          emulator |-> IF engine = "spanner" THEN o.spanner_emulator_host ELSE "",
          prefix |-> IF engine = "mysql" THEN o.mysql_table_prefix ELSE "",
          dsMetrics |-> o.metrics_enabled /\ BoolPtrOrDefault(o.datastore_metrics_enabled, TRUE),
          tracing |-> o.metrics_enabled /\ o.otlp_endpoint # "",
          server |-> o.metrics_enabled /\ o.metrics_port > 0]

SpicedbStart ==
    /\ opts # <<>> /\ effect = <<>>
    /\ effect' = Effect(opts)
    /\ UNCHANGED <<call, wire, opts>>

OptionsNext == Encode \/ ParseStartOptions \/ SpicedbStart

OptionsSpec == OptionsInit /\ [][OptionsNext]_optionsVars
-----------------------------------------------------------------------------
\* Properties

Started == effect # <<>> /\ effect.started

\* What the caller gave.  A value of another type than the option has counts
\* as not given; for the datastore's metrics, which are on by default, it counts
\* as the wish to have none.
Meant(f) ==
    IF wire[f] # Mistyped THEN call.given[f]
    ELSE IF f = "datastore_metrics_enabled" THEN Some(FALSE) ELSE None
Named(f) == Meant(f).is = "some" /\ Meant(f).v # ""

\* The datastore and its own options are those named, and a call that names a
\* known datastore with its URI is not refused.
DatastoreHonoured ==
    effect # <<>> =>
        IF ~Named("datastore") THEN Started /\ effect.engine = "memory"
        ELSE /\ Started => /\ effect.engine = Meant("datastore").v
                           /\ Named("datastore_uri") \/ effect.engine = "memory"
                           /\ effect.prefix # "" <=> effect.engine = "mysql" /\ Named("mysql_table_prefix")
                           /\ effect.emulator # "" <=> effect.engine = "spanner" /\ Named("spanner_emulator_host")
             /\ Meant("datastore").v \in Engines /\ Named("datastore_uri") => Started

\* The switch turns everything on or off; what is not mentioned is on, whether
\* it was left out or sent as null; there is a server for every port but 0.
MetricsHonoured ==
    Started =>
        IF Meant("metrics_enabled") # Some(TRUE)
        THEN ~effect.dsMetrics /\ ~effect.tracing /\ ~effect.server
        ELSE /\ effect.dsMetrics <=> Meant("datastore_metrics_enabled") # Some(FALSE)
             /\ effect.tracing <=> Named("otlp_endpoint")
             /\ effect.server <=> Meant("metrics_port") \notin {None, Some(0)}

\* Whatever the binding and its way of writing what is not set, a start uses the
\* datastore, the options of that datastore and the observability which the
\* caller gave.  A value of the wrong type, whose error parseStartOptions drops
\* (main.go 263-274), does not affect the other options and counts as not given,
\* except that it turns the datastore's metrics off, whose option is a pointer
\* (main.go 136-138, where only null and absent are said to mean the default).
OptionsHonoured == DatastoreHonoured /\ MetricsHonoured
=============================================================================
