---------------------------- MODULE LeafRuntime ----------------------------
(***************************************************************************)
(* The leaf runtime of the broker's host (runtime/local-leaf-runtime.ts):  *)
(* a map of model runs that callers start, look at and cancel, while the   *)
(* provider calls behind the runs end in their own time.  Everything       *)
(* between two awaits is one step.  A run is a LocalRun object: dropping   *)
(* it from the map does not end its provider call.                         *)
(***************************************************************************)
EXTENDS Integers, FiniteSets

CONSTANTS
  Callers,          \* requests that can be in progress at a time
  MaxMade,          \* bound: runs made
  MaxParallelRuns,  \* RUNTIME_RPC_BOUNDS.maxParallelRuns
  MaxRuns           \* this.maxRuns

ASSUME LeafAssumption == /\ IsFiniteSet(Callers)
                         /\ MaxMade \in Nat
                         /\ MaxParallelRuns \in Nat \ {0}
                         /\ MaxRuns \in Nat \ {0}

\* Run ids are random; a run stands here for its place in the map's order,
\* which is the order of creation.
Runs == 1..MaxMade

VARIABLES
  state,    \* LocalRun.state of each run, "none" before it is made
  going,    \* runs whose provider call has not settled
  aborted,  \* runs whose controller was aborted
  old,      \* runs whose updatedAt is more than retentionMs ago
  kept,     \* the map `runs`
  call,     \* what each caller's request is waiting for
  disposal, \* where dispose stands, and the runs it waits for
  told      \* history: the end that a caller was told each run had

leafVars == <<state, going, aborted, old, kept, call, disposal, told>>

RunStates == {"running", "completed", "failed", "cancelled"}
Terminal  == RunStates \ {"running"}
Running   == {r \in Runs : state[r] = "running"}
Made      == {r \in Runs : state[r] # "none"}

Free == [at |-> "idle", asked |-> {}]

LeafInit == /\ state = [r \in Runs |-> "none"]
            /\ going = {}
            /\ aborted = {}
            /\ old = {}
            /\ kept = {}
            /\ call = [c \in Callers |-> Free]
            /\ disposal = [at |-> "no", awaits |-> {}]
            /\ told = [r \in Runs |-> "none"]

\* Mutant of Pruned: age alone decides.
PrunedByAge == kept \ old

\* prune, which every request does first and every ending run does last.
Pruned == kept \ {r \in old : state[r] # "running"}

-----------------------------------------------------------------------------
(* Requests.  The listener that forwards them is closed before dispose.    *)

\* The caller is told the state of the runs S.
Telling(S) == [r \in Runs |-> IF r \in S /\ told[r] = "none" /\ state[r] \in Terminal
                              THEN state[r] ELSE told[r]]

\* A request arrives.
Arrives(c) == call[c] = Free /\ disposal.at = "no"

\* Mutant of BeginStart: one run too many.
BeginStartLate(c) ==
  /\ Arrives(c)
  /\ kept' = Pruned
  /\ Cardinality(kept' \cap Running) <= MaxParallelRuns
  /\ call' = [call EXCEPT ![c].at = "resolving"]
  /\ UNCHANGED <<state, going, aborted, old, disposal, told>>

\* start: below capacity, so the model is looked up, which is awaited.
BeginStart(c) ==
  /\ Arrives(c)
  /\ kept' = Pruned
  /\ Cardinality(kept' \cap Running) < MaxParallelRuns
  /\ call' = [call EXCEPT ![c].at = "resolving"]
  /\ UNCHANGED <<state, going, aborted, old, disposal, told>>

\* negotiate, a start over capacity, a run id that is unknown: this is all.
Refuse(c) == /\ Arrives(c)
             /\ kept' = Pruned
             /\ UNCHANGED <<state, going, aborted, old, call, disposal, told>>

ModelUnavailable(c) ==
  /\ call[c].at = "resolving"
  /\ call' = [call EXCEPT ![c] = Free]
  /\ UNCHANGED <<state, going, aborted, old, kept, disposal, told>>

\* enforceRunBound: the oldest runs that are over go, until maxRuns are left.
Bounded(S) ==
  LET over == S \ Running'
      excess == Cardinality(S) - MaxRuns
  IN  S \ {r \in over : Cardinality({s \in over : s < r}) < excess}

\* The run is made without a second look at the capacity.
MakeRun(c, r) ==
  /\ call[c].at = "resolving"
  /\ state[r] = "none"
  /\ r > 1 => state[r - 1] # "none"
  /\ state' = [state EXCEPT ![r] = "running"]
  /\ going' = going \cup {r}
  /\ kept' = Bounded(kept \cup {r})
  /\ call' = [call EXCEPT ![c] = Free]
  /\ UNCHANGED <<aborted, old, disposal, told>>

\* status and result: both tell the state, and result the output of a run
\* that is completed.
Report(c, r) ==
  /\ Arrives(c)
  /\ kept' = Pruned
  /\ r \in kept'
  /\ told' = Telling({r})
  /\ UNCHANGED <<state, going, aborted, old, call, disposal>>

\* cancelAndSettle marks the runs at once and then waits for their provider
\* calls, or for the settlement window.
BeginCancel(c, S) ==
  LET hit == Pruned \cap S \cap Running IN
  /\ Arrives(c)
  /\ S \subseteq Made
  /\ kept' = Pruned
  /\ state' = [r \in Runs |-> IF r \in hit THEN "cancelled" ELSE state[r]]
  /\ aborted' = aborted \cup hit
  /\ old' = old \ hit
  /\ call' = [call EXCEPT ![c] = [at |-> "settling", asked |-> S]]
  /\ UNCHANGED <<going, disposal, told>>

\* Each run settled or the window passed: the caller is told the state that
\* each run has now, "unknown" if it was dropped meanwhile.
EndCancel(c) ==
  /\ call[c].at = "settling"
  /\ told' = Telling(call[c].asked \cap kept)
  /\ call' = [call EXCEPT ![c] = Free]
  /\ UNCHANGED <<state, going, aborted, old, kept, disposal>>

-----------------------------------------------------------------------------
(* The provider calls.                                                     *)

\* The call of r settles and, unless the run was cancelled, gives it `end`.
Settle(r, end) ==
  /\ r \in going
  /\ going' = going \ {r}
  /\ state' = [state EXCEPT ![r] = IF @ = "cancelled" THEN @ ELSE end]
  /\ old' = IF state[r] = "cancelled" THEN old ELSE old \ {r}
  /\ kept' = Pruned
  /\ UNCHANGED <<aborted, call, disposal, told>>

\* Mutant of ProviderAnswers: an answer that comes after a cancel counts.
AnswerAnyway(r) ==
  /\ r \in going
  /\ going' = going \ {r}
  /\ state' = [state EXCEPT ![r] = "completed"]
  /\ kept' = Pruned
  /\ UNCHANGED <<aborted, old, call, disposal, told>>

\* A message: an error, too long, or the output.
ProviderAnswers(r) == Settle(r, "completed") \/ Settle(r, "failed")

\* An exception: the run was aborted, by dispose, or the call failed.
ProviderThrows(r) == Settle(r, IF r \in aborted THEN "cancelled" ELSE "failed")

\* retentionMs pass since the run was made, if it is running, or ended.
GrowsOld(r) == /\ r \in kept \ old
               /\ old' = old \cup {r}
               /\ UNCHANGED <<state, going, aborted, kept, call, disposal, told>>

-----------------------------------------------------------------------------
(* dispose, when the host is done.                                         *)

\* Running runs are aborted; the calls of all runs in the map are awaited.
BeginDispose ==
  /\ disposal.at = "no"
  /\ aborted' = aborted \cup (kept \cap Running)
  /\ disposal' = [at |-> "waiting", awaits |-> kept]
  /\ UNCHANGED <<state, going, old, kept, call, told>>

\* Mutant of EndDispose: the calls are not awaited.
EndDisposeAtOnce ==
  /\ disposal.at = "waiting"
  /\ disposal' = [disposal EXCEPT !.at = "done"]
  /\ kept' = {}
  /\ UNCHANGED <<state, going, aborted, old, call, told>>

EndDispose ==
  /\ disposal.at = "waiting"
  /\ disposal.awaits \cap going = {}
  /\ disposal' = [disposal EXCEPT !.at = "done"]
  /\ kept' = {}
  /\ UNCHANGED <<state, going, aborted, old, call, told>>

-----------------------------------------------------------------------------
Request(c) ==
  \/ BeginStart(c) \/ Refuse(c) \/ ModelUnavailable(c)
  \/ \E r \in Runs : MakeRun(c, r) \/ Report(c, r)
  \/ \E S \in SUBSET Runs : S # {} /\ BeginCancel(c, S)
  \/ EndCancel(c)

Provider(r) == ProviderAnswers(r) \/ ProviderThrows(r)

LeafNext == \/ \E c \in Callers : Request(c)
            \/ \E r \in Runs : Provider(r) \/ GrowsOld(r)
            \/ BeginDispose \/ EndDispose

LeafSpec == LeafInit /\ [][LeafNext]_leafVars

-----------------------------------------------------------------------------
(* Properties.                                                             *)

LeafTypeOK ==
  /\ state \in [Runs -> RunStates \cup {"none"}]
  /\ going \subseteq Made
  /\ aborted \subseteq Made
  /\ old \subseteq Made
  /\ kept \subseteq Made
  /\ call \in [Callers -> [at : {"idle", "resolving", "settling"}, asked : SUBSET Runs]]
  /\ disposal \in [at : {"no", "waiting", "done"}, awaits : SUBSET Runs]
  /\ told \in [Runs -> Terminal \cup {"none"}]

\* What a caller was told of a run that is over stays so: a run reported as
\* cancelled never turns into a completed one when its provider answers late.
ReportsStand == \A r \in Runs : told[r] # "none" => state[r] = told[r]

\* Until dispose, a run that is running can be found: no bound, no retention
\* drops it, so that it can always be cancelled.
RunningIsKept == disposal.at = "no" => Running \subseteq kept

\* A cancellation leaves none of the runs it named running, whether its wait
\* ended by settlement or by the window, and a run is cancelled only when its
\* provider call was aborted, never for a call that failed by itself.
CancelHits == /\ \A c \in Callers : call[c].at = "settling" => call[c].asked \cap Running = {}
              /\ \A r \in Runs : state[r] = "cancelled" => r \in aborted

\* Checking the capacity before the await costs at most one run for each
\* other request in progress; with one request at a time the capacity holds.
CapacityBound == Cardinality(Running) <= MaxParallelRuns + Cardinality(Callers) - 1

\* Once dispose has returned, nothing runs but what was looking up its model
\* while dispose waited: at most one run for each request in progress.
DisposalIsThorough ==
  disposal.at = "done" => /\ Running \cap disposal.awaits = {}
                          /\ Cardinality(Running) <= Cardinality(Callers)

-----------------------------------------------------------------------------
(* What the runtime is to its clients.                                     *)

Contract == INSTANCE RuntimeRuns WITH run <- state

\* The runtime implements the contract of runs: a run in whatever corner of the
\* code is started once and ends once.
ImplementsRuns == Contract!RunsSpec
=============================================================================
