----------------------------- MODULE MCLeafClient -----------------------------
(* Small instances of the leaf runtime client for model checking.          *)
EXTENDS LeafClient
=============================================================================
