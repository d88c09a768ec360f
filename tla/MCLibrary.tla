------------------------------ MODULE MCLibrary ------------------------------
(***************************************************************************)
(* Small instances of Library for TLC.                                     *)
(***************************************************************************)
EXTENDS Library, TLC

MCOptions ==
    {[remote |-> FALSE, uri |-> FALSE, metrics |-> FALSE, otlp |-> FALSE, port |-> 0]}
NoFaults == {}
RunFault == {"run"}

GoodRequest == {[known |-> TRUE, parses |-> TRUE]}
AnyRequest == [known : BOOLEAN, parses : BOOLEAN]

\* For safety only.
Symmetry == Permutations(Thread) \cup Permutations(Instance)
                \cup Permutations(Call) \cup Permutations(Stream)
=============================================================================
