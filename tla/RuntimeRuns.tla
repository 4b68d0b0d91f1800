---------------------------- MODULE RuntimeRuns ----------------------------
(***************************************************************************)
(* What the two ends of the runtime RPC (runtime-rpc-protocol.ts) agree on *)
(* about a run, with no request, promise, map or timer in sight: it is     *)
(* started once, it ends once, and a cancellation strikes only runs that   *)
(* are running.  The leaf runtime keeps to it; what the models of its      *)
(* client and of the broker have a runtime do is within it.                *)
(***************************************************************************)
CONSTANT Runs

VARIABLE run   \* how each run stands

Ends == {"completed", "failed", "cancelled"}

RunsInit == run = [r \in Runs |-> "none"]

Starts(r) == /\ run[r] = "none"
             /\ run' = [run EXCEPT ![r] = "running"]

Finishes(r, end) == /\ run[r] = "running"
                    /\ run' = [run EXCEPT ![r] = end]

\* One request cancels any number of runs at once.
Cancels(S) == /\ \A r \in S : run[r] = "running"
              /\ run' = [r \in Runs |-> IF r \in S THEN "cancelled" ELSE run[r]]

RunsNext == \/ \E r \in Runs : \/ Starts(r)
                               \/ \E end \in Ends : Finishes(r, end)
            \/ \E S \in SUBSET Runs : Cancels(S)

RunsSpec == RunsInit /\ [][RunsNext]_run

\* A run that is over stays as it is.
EndIsFinal == [][\A r \in Runs : run[r] \in Ends => run'[r] = run[r]]_run
=============================================================================
