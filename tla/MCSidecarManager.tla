-------------------------- MODULE MCSidecarManager --------------------------
(* Small instances of the sidecar manager for model checking.              *)
EXTENDS SidecarManager, TLC

Symmetry == Permutations(Starts)
=============================================================================
