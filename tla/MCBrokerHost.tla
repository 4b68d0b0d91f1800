---------------------------- MODULE MCBrokerHost ----------------------------
(* Small instances of the broker's hosts for model checking.               *)
EXTENDS BrokerHost, TLC

Symmetry == Permutations(Procs)
=============================================================================
