--------------------------- MODULE MCLeafRuntime ---------------------------
(* Small instances of the leaf runtime for model checking.                 *)
EXTENDS LeafRuntime, TLC

Symmetry == Permutations(Callers)
=============================================================================
