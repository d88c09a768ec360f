---------------------------- MODULE MCInstances ----------------------------
(***************************************************************************)
(* Small instances of Instances for TLC.                                   *)
(***************************************************************************)
EXTENDS Instances

\* The defaults; metrics and tracing on; a remote engine without its URI.
Plain == [remote |-> FALSE, uri |-> FALSE, metrics |-> FALSE, otlp |-> FALSE, port |-> 0]
Observed == [remote |-> TRUE, uri |-> TRUE, metrics |-> TRUE, otlp |-> TRUE, port |-> 1]
Traced == [remote |-> FALSE, uri |-> FALSE, metrics |-> TRUE, otlp |-> TRUE, port |-> 0]
Refused == [remote |-> TRUE, uri |-> FALSE, metrics |-> FALSE, otlp |-> FALSE, port |-> 0]

MCOptions == {Plain, Observed, Refused}
TracedOptions == {Traced}
AllFaults == FaultKinds
NoFaults == {}
=============================================================================
