---------------------------- MODULE MCAgentJobs ----------------------------
(* Small instances of the agent job registry for model checking.           *)
EXTENDS AgentJobs
=============================================================================
