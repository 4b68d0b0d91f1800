------------------------------ MODULE MCBroker ------------------------------
(* Small instances of the broker for model checking.                       *)
EXTENDS BrokerProofs, TLC

\* Connections that may do everything.
MCAllGrants == {Methods}

\* Clients and run ids are interchangeable; not so the request ids, some of which
\* only starts use.
Symmetry == Permutations(Clients) \cup Permutations(RunIds)
=============================================================================
