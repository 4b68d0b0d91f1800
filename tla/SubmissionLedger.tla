-------------------------- MODULE SubmissionLedger --------------------------
(***************************************************************************)
(* What the Northstar broker promises the clients that submit jobs to it,  *)
(* with no process, socket, database row or handler step in sight.         *)
(*                                                                         *)
(* A mutation (a client and the request id it chose) is entered in a       *)
(* journal before anything irreversible happens, may be executed at most   *)
(* once, and can be withdrawn only while it has certainly not been         *)
(* executed.  An entry whose outcome is in doubt says so.  What was settled *)
(* without an execution is never executed afterwards, also when its entry  *)
(* is put in doubt again.                                                  *)
(***************************************************************************)
CONSTANT Mutations

VARIABLES journal,   \* what the journal says of each mutation
          executed,  \* the mutations the executor has acted on
          settled    \* the mutations that were ever settled

ledgerVars == <<journal, executed, settled>>

LedgerInit == /\ journal = [m \in Mutations |-> "none"]
              /\ executed = {}
              /\ settled = {}

Accept(m) == /\ journal[m] = "none"
             /\ m \notin executed
             /\ journal' = [journal EXCEPT ![m] = "accepted"]
             /\ UNCHANGED <<executed, settled>>

\* Nothing happened and nothing will: the id may be used again.
Withdraw(m) == /\ journal[m] = "accepted"
               /\ m \notin executed
               /\ journal' = [journal EXCEPT ![m] = "none"]
               /\ UNCHANGED <<executed, settled>>

\* The executor acts.  It may do so late, when the broker already gave up.
Execute(m) == /\ journal[m] \in {"accepted", "doubtful"}
              /\ m \notin executed \cup settled
              /\ executed' = executed \cup {m}
              /\ UNCHANGED <<journal, settled>>

\* A restart puts every open entry in doubt at once, hence a set; a cancel
\* whose reply is lost, also one that was settled.
Doubt(S) == /\ \A m \in S : journal[m] # "none"
            /\ journal' = [m \in Mutations |->
                             IF m \in S THEN "doubtful" ELSE journal[m]]
            /\ UNCHANGED <<executed, settled>>

Settle(m) == /\ journal[m] \in {"accepted", "doubtful"}
             /\ journal' = [journal EXCEPT ![m] = "settled"]
             /\ settled' = settled \cup {m}
             /\ UNCHANGED executed

LedgerNext == \/ \E m \in Mutations : \/ Accept(m)
                                      \/ Withdraw(m)
                                      \/ Execute(m)
                                      \/ Settle(m)
              \/ \E S \in SUBSET Mutations : Doubt(S)

LedgerSpec == LedgerInit /\ [][LedgerNext]_ledgerVars
=============================================================================
