----------------------------- MODULE MCBindings -----------------------------
(***************************************************************************)
(* Small instances of Bindings for TLC.                                    *)
(***************************************************************************)
EXTENDS Bindings, TLC

\* For safety only.
Symmetry == Permutations(Thread)
=============================================================================
