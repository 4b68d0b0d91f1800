---------------------------- MODULE MCBrokerLock ----------------------------
(* Small instances of the broker lock for model checking.                  *)
EXTENDS BrokerLock
=============================================================================
