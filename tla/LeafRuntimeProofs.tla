------------------------- MODULE LeafRuntimeProofs -------------------------
(***************************************************************************)
(* Proofs about the leaf runtime, for any number of callers and of runs    *)
(* and for any bounds.                                                     *)
(***************************************************************************)
EXTENDS LeafRuntime, FiniteSetTheorems, TLAPS

\* A provider call that has not settled is that of a run which is running or
\* was cancelled: no run is given its end twice.
GoingIsOpen == \A r \in going : state[r] \in {"running", "cancelled"}

\* Runs are named by a cancellation after they are made.
AskedAreMade == \A c \in Callers : call[c].asked \subseteq Made

LeafInv == /\ LeafTypeOK
           /\ GoingIsOpen
           /\ AskedAreMade
           /\ ReportsStand
           /\ RunningIsKept
           /\ CancelHits

-----------------------------------------------------------------------------
(* What the operators keep.                                                *)

\* Pruning the map drops no running run.
LEMMA PruneKeeps == ASSUME Running \subseteq kept
                    PROVE  Running \subseteq Pruned
  BY DEF Pruned, Running

\* Nor does the bound of the map.
LEMMA BoundKeeps ==
  ASSUME NEW S PROVE /\ Bounded(S) \subseteq S
                     /\ Running' \cap S \subseteq Bounded(S)
  BY DEF Bounded

\* Telling a caller about some runs adds ends only as they are.
LEMMA TellingIsTrue ==
  ASSUME LeafTypeOK, ReportsStand, NEW S
  PROVE  /\ Telling(S) \in [Runs -> Terminal \cup {"none"}]
         /\ \A r \in Runs : Telling(S)[r] # "none" => state[r] = Telling(S)[r]
  BY DEF LeafTypeOK, ReportsStand, Telling

-----------------------------------------------------------------------------
LEMMA LeafInitInv == LeafInit => LeafInv
  BY DEF LeafInit, LeafInv, LeafTypeOK, GoingIsOpen, AskedAreMade, ReportsStand,
         RunningIsKept, CancelHits, Made, Running, Terminal, RunStates, Free

\* A request that is refused, or starts to look up its model, or fails to.
LEMMA WaitingKeeps ==
  ASSUME LeafInv, NEW c \in Callers,
         BeginStart(c) \/ Refuse(c) \/ ModelUnavailable(c)
  PROVE  LeafInv'
<1>1. Running' = Running /\ Made' = Made
  BY DEF BeginStart, Refuse, ModelUnavailable, Running, Made
<1>2. kept' \in {kept, Pruned}
  BY DEF BeginStart, Refuse, ModelUnavailable
<1>3. /\ call' \in [Callers -> [at : {"idle", "resolving", "settling"}, asked : SUBSET Runs]]
      /\ \A d \in Callers : call'[d].at = "settling" => call'[d] = call[d]
      /\ \A d \in Callers : call'[d].asked \subseteq Made
  BY DEF BeginStart, Refuse, ModelUnavailable, LeafInv, LeafTypeOK, AskedAreMade, Free
<1>4. LeafTypeOK'
  BY <1>1, <1>2, <1>3 DEF BeginStart, Refuse, ModelUnavailable, LeafInv, LeafTypeOK, Pruned
<1>5. RunningIsKept'
  BY <1>1, <1>2, PruneKeeps
     DEF BeginStart, Refuse, ModelUnavailable, LeafInv, RunningIsKept
<1>6. GoingIsOpen' /\ ReportsStand'
  BY DEF BeginStart, Refuse, ModelUnavailable, LeafInv, GoingIsOpen, ReportsStand
<1>7. AskedAreMade' /\ CancelHits'
  BY <1>1, <1>3
     DEF BeginStart, Refuse, ModelUnavailable, LeafInv, AskedAreMade, CancelHits
<1> QED BY <1>4, <1>5, <1>6, <1>7 DEF LeafInv

\* The run that a start makes is new, so that no cancellation has named it.
LEMMA MakeRunKeeps ==
  ASSUME LeafInv, NEW c \in Callers, NEW r \in Runs, MakeRun(c, r)
  PROVE  LeafInv'
<1>1. /\ Made' = Made \cup {r}
      /\ Running' = Running \cup {r}
      /\ r \notin Made
  BY DEF MakeRun, Made, Running, LeafInv, LeafTypeOK
<1>2. /\ kept' \subseteq kept \cup {r}
      /\ Running' \cap (kept \cup {r}) \subseteq kept'
  BY BoundKeeps DEF MakeRun
<1>3. /\ call' \in [Callers -> [at : {"idle", "resolving", "settling"}, asked : SUBSET Runs]]
      /\ \A d \in Callers : call'[d].at = "settling" => call'[d] = call[d]
      /\ \A d \in Callers : call'[d].asked \subseteq Made
  BY DEF MakeRun, LeafInv, LeafTypeOK, AskedAreMade, Free
<1>4. state' \in [Runs -> RunStates \cup {"none"}]
  BY DEF MakeRun, LeafInv, LeafTypeOK, RunStates
<1>5. old' \subseteq Made'
  BY <1>1 DEF MakeRun, LeafInv, LeafTypeOK
<1>6. LeafTypeOK'
  BY <1>1, <1>2, <1>3, <1>4, <1>5 DEF MakeRun, LeafInv, LeafTypeOK
<1>7. GoingIsOpen' /\ ReportsStand'
  BY DEF MakeRun, LeafInv, LeafTypeOK, GoingIsOpen, ReportsStand, Terminal, RunStates
<1>8. RunningIsKept'
  BY <1>1, <1>2 DEF MakeRun, LeafInv, RunningIsKept
<1>9. AskedAreMade' /\ CancelHits'
  BY <1>1, <1>3 DEF MakeRun, LeafInv, LeafTypeOK, AskedAreMade, CancelHits
<1> QED BY <1>6, <1>7, <1>8, <1>9 DEF LeafInv

\* status and result.
LEMMA ReportKeeps ==
  ASSUME LeafInv, NEW c \in Callers, NEW r \in Runs, Report(c, r)
  PROVE  LeafInv'
<1>1. Running' = Running /\ Made' = Made
  BY DEF Report, Running, Made
<1>2. /\ told' \in [Runs -> Terminal \cup {"none"}]
      /\ ReportsStand'
  BY TellingIsTrue DEF Report, LeafInv, ReportsStand
<1>3. LeafTypeOK'
  BY <1>1, <1>2 DEF Report, LeafInv, LeafTypeOK, Pruned
<1>4. RunningIsKept'
  BY <1>1, PruneKeeps DEF Report, LeafInv, RunningIsKept
<1>5. GoingIsOpen' /\ AskedAreMade' /\ CancelHits'
  BY <1>1 DEF Report, LeafInv, GoingIsOpen, AskedAreMade, CancelHits
<1> QED BY <1>2, <1>3, <1>4, <1>5 DEF LeafInv

\* A cancellation marks every running run it names: it finds them all, since
\* running runs are kept.
LEMMA BeginCancelKeeps ==
  ASSUME LeafInv, NEW c \in Callers, NEW S \in SUBSET Runs, BeginCancel(c, S)
  PROVE  LeafInv'
<1> DEFINE hit == Pruned \cap S \cap Running
<1>1. /\ disposal.at = "no"
      /\ S \subseteq Made
      /\ kept' = Pruned
      /\ state' = [r \in Runs |-> IF r \in hit THEN "cancelled" ELSE state[r]]
      /\ aborted' = aborted \cup hit
      /\ call' = [call EXCEPT ![c] = [at |-> "settling", asked |-> S]]
      /\ old' = old \ hit
      /\ UNCHANGED <<going, disposal, told>>
  BY DEF BeginCancel, Arrives
<1>2. /\ hit \subseteq Running
      /\ Running \cap S \subseteq hit
  BY <1>1, PruneKeeps DEF LeafInv, RunningIsKept
<1>3. /\ Running' = Running \ hit
      /\ Running' \cap S = {}
      /\ Made' = Made
  BY <1>1, <1>2 DEF Running, Made
<1>4. /\ call' \in [Callers -> [at : {"idle", "resolving", "settling"}, asked : SUBSET Runs]]
      /\ \A d \in Callers : call'[d] = call[d] \/ call'[d].asked = S
  BY <1>1 DEF LeafInv, LeafTypeOK
<1>5. /\ state' \in [Runs -> RunStates \cup {"none"}]
      /\ \A r \in Runs : state[r] \in Terminal => state'[r] = state[r]
  BY <1>1, <1>2 DEF LeafInv, LeafTypeOK, RunStates, Terminal, Running
<1>6. LeafTypeOK'
  <2>1. old' \subseteq Made'
    BY <1>1, <1>3 DEF LeafInv, LeafTypeOK
  <2>2. aborted' \subseteq Made'
    BY <1>1, <1>2, <1>3 DEF LeafInv, LeafTypeOK, Running, Made
  <2> QED BY <1>1, <1>3, <1>4, <1>5, <2>1, <2>2 DEF LeafInv, LeafTypeOK, Pruned
<1>7. GoingIsOpen'
  BY <1>1 DEF LeafInv, LeafTypeOK, GoingIsOpen, Made
<1>8. ReportsStand'
  BY <1>1, <1>5 DEF LeafInv, LeafTypeOK, ReportsStand
<1>9. RunningIsKept'
  BY <1>1, <1>3, PruneKeeps DEF LeafInv, RunningIsKept
<1>10. AskedAreMade' /\ CancelHits'
  BY <1>1, <1>3, <1>4 DEF LeafInv, AskedAreMade, CancelHits
<1> QED BY <1>6, <1>7, <1>8, <1>9, <1>10 DEF LeafInv

LEMMA EndCancelKeeps ==
  ASSUME LeafInv, NEW c \in Callers, EndCancel(c)
  PROVE  LeafInv'
<1>1. Running' = Running /\ Made' = Made
  BY DEF EndCancel, Running, Made
<1>2. /\ told' \in [Runs -> Terminal \cup {"none"}]
      /\ ReportsStand'
  BY TellingIsTrue DEF EndCancel, LeafInv, ReportsStand
<1>3. /\ call' \in [Callers -> [at : {"idle", "resolving", "settling"}, asked : SUBSET Runs]]
      /\ \A d \in Callers : call'[d] = call[d] \/ call'[d] = Free
  BY DEF EndCancel, LeafInv, LeafTypeOK, Free
<1>4. LeafTypeOK'
  BY <1>1, <1>2, <1>3 DEF EndCancel, LeafInv, LeafTypeOK
<1>5. RunningIsKept' /\ GoingIsOpen'
  BY <1>1 DEF EndCancel, LeafInv, RunningIsKept, GoingIsOpen
<1>6. AskedAreMade' /\ CancelHits'
  BY <1>1, <1>3 DEF EndCancel, LeafInv, AskedAreMade, CancelHits, Free
<1> QED BY <1>2, <1>4, <1>5, <1>6 DEF LeafInv

\* A provider call ends a run that is running and leaves a cancelled one so.
LEMMA SettleKeeps ==
  ASSUME LeafInv, NEW r \in Runs, NEW end \in Terminal, Settle(r, end),
         end = "cancelled" => r \in aborted
  PROVE  LeafInv'
<1>1. state[r] \in {"running", "cancelled"}
  BY DEF Settle, LeafInv, GoingIsOpen
<1>2. /\ state' \in [Runs -> RunStates \cup {"none"}]
      /\ \A x \in Runs : state[x] \in Terminal => state'[x] = state[x]
      /\ \A x \in Runs : x # r => state'[x] = state[x]
      /\ state'[r] \in Terminal
  BY <1>1 DEF Settle, LeafInv, LeafTypeOK, Terminal, RunStates
<1>3. Running' \subseteq Running /\ Made' = Made
  BY <1>1, <1>2 DEF Running, Made, Terminal, RunStates
<1>4. LeafTypeOK'
  <2>1. old' \subseteq Made'
    BY <1>3 DEF Settle, LeafInv, LeafTypeOK
  <2> QED BY <1>2, <1>3, <2>1 DEF Settle, LeafInv, LeafTypeOK, Pruned
<1>5. GoingIsOpen'
  BY <1>2 DEF Settle, LeafInv, LeafTypeOK, GoingIsOpen, Made
<1>6. ReportsStand'
  BY <1>2 DEF Settle, LeafInv, LeafTypeOK, ReportsStand
<1>7. RunningIsKept'
  BY <1>3, PruneKeeps DEF Settle, LeafInv, RunningIsKept
<1>8. AskedAreMade' /\ CancelHits'
  BY <1>2, <1>3 DEF Settle, LeafInv, LeafTypeOK, AskedAreMade, CancelHits, Terminal, RunStates
<1> QED BY <1>4, <1>5, <1>6, <1>7, <1>8 DEF LeafInv

\* Time passes, and the host disposes of the runtime.
LEMMA OtherKeeps ==
  ASSUME LeafInv, (\E r \in Runs : GrowsOld(r)) \/ BeginDispose \/ EndDispose
  PROVE  LeafInv'
<1>1. Running' = Running /\ Made' = Made
  BY DEF GrowsOld, BeginDispose, EndDispose, Running, Made
<1>2. LeafTypeOK'
  <2>1. CASE \E r \in Runs : GrowsOld(r)
    BY <1>1, <2>1 DEF GrowsOld, LeafInv, LeafTypeOK, Made
  <2>2. CASE BeginDispose
    <3>1. kept \in SUBSET Runs /\ kept \cap Running \subseteq Made
      BY DEF LeafInv, LeafTypeOK, Made
    <3> QED BY <1>1, <2>2, <3>1 DEF BeginDispose, LeafInv, LeafTypeOK
  <2>3. CASE EndDispose
    BY <1>1, <2>3 DEF EndDispose, LeafInv, LeafTypeOK
  <2> QED BY <2>1, <2>2, <2>3
<1>3. RunningIsKept'
  BY <1>1 DEF GrowsOld, BeginDispose, EndDispose, LeafInv, LeafTypeOK, RunningIsKept
<1>4. GoingIsOpen' /\ ReportsStand'
  BY DEF GrowsOld, BeginDispose, EndDispose, LeafInv, GoingIsOpen, ReportsStand
<1>5. AskedAreMade' /\ CancelHits'
  BY <1>1 DEF GrowsOld, BeginDispose, EndDispose, LeafInv, AskedAreMade, CancelHits
<1> QED BY <1>2, <1>3, <1>4, <1>5 DEF LeafInv

-----------------------------------------------------------------------------
\* Every step of the leaf runtime keeps the invariant.
LEMMA LeafNextKeeps == ASSUME LeafInv, [LeafNext]_leafVars PROVE LeafInv'
<1>1. ASSUME NEW c \in Callers, Request(c) PROVE LeafInv'
  BY <1>1, WaitingKeeps, MakeRunKeeps, ReportKeeps, BeginCancelKeeps, EndCancelKeeps
     DEF Request
<1>2. ASSUME NEW r \in Runs, Provider(r) PROVE LeafInv'
  BY <1>2, SettleKeeps DEF Provider, ProviderAnswers, ProviderThrows, Terminal, RunStates
<1>3. CASE UNCHANGED leafVars
  BY <1>3 DEF leafVars, LeafInv, LeafTypeOK, GoingIsOpen, AskedAreMade, ReportsStand,
              RunningIsKept, CancelHits, Made, Running
<1> QED BY <1>1, <1>2, <1>3, OtherKeeps DEF LeafNext

\* The invariant of the leaf runtime, from which the next three follow.
THEOREM LeafInvariant == LeafSpec => []LeafInv
<1>1. LeafInit => LeafInv
  BY LeafInitInv
<1>2. LeafInv /\ [LeafNext]_leafVars => LeafInv'
  BY LeafNextKeeps
<1> QED BY <1>1, <1>2, PTL DEF LeafSpec

\* What a caller of status, result or cancelAndSettle was told of a run that
\* is over stays true, however late its provider answers.
THEOREM ReportsStandAlways == LeafSpec => []ReportsStand
<1>1. LeafInv => ReportsStand
  BY DEF LeafInv
<1> QED BY <1>1, LeafInvariant, PTL

\* Neither retention nor the bound of the map drops a running run.
THEOREM RunningStaysKept == LeafSpec => []RunningIsKept
<1>1. LeafInv => RunningIsKept
  BY DEF LeafInv
<1> QED BY <1>1, LeafInvariant, PTL

\* cancelAndSettle leaves none of the runs it named running, and no run is
\* cancelled, by it or by dispose, whose provider call was not aborted.
THEOREM CancelAlwaysHits == LeafSpec => []CancelHits
<1>1. LeafInv => CancelHits
  BY DEF LeafInv
<1> QED BY <1>1, LeafInvariant, PTL

-----------------------------------------------------------------------------
(* Counting runs.                                                          *)

\* The requests that have passed the check of the capacity and will make
\* their run without another look at it.
Resolving == {c \in Callers : call[c].at = "resolving"}

\* Each of them has its run counted as if it were there.
Counted == Cardinality(Running) + Cardinality(Resolving)
             <= MaxParallelRuns + Cardinality(Callers) - 1

\* Whatever runs has a provider call that dispose can wait for.
RunningIsGoing == Running \subseteq going

\* Once dispose has begun, what runs without being waited for was made since,
\* by requests that were resolving their model at the time.
Disposing ==
  /\ disposal.awaits \subseteq Made
  /\ disposal.at # "no" =>
       Cardinality(Running \ disposal.awaits) + Cardinality(Resolving) <= Cardinality(Callers)
  /\ disposal.at = "done" => Running \cap disposal.awaits = {}

CountInv == LeafInv /\ Counted /\ RunningIsGoing /\ Disposing

\* The sets that are counted are finite.
LEMMA CountedAreFinite ==
  /\ IsFiniteSet(Running) /\ Cardinality(Running) \in Nat
  /\ IsFiniteSet(Resolving) /\ Cardinality(Resolving) \in Nat
  /\ Cardinality(Resolving) <= Cardinality(Callers)
  /\ IsFiniteSet(Callers) /\ Cardinality(Callers) \in Nat
  /\ MaxParallelRuns \in Nat \ {0}
<1>1. IsFiniteSet(Runs)
  BY LeafAssumption, FS_Interval DEF Runs
<1>2. Running \in SUBSET Runs /\ Resolving \in SUBSET Callers
  BY DEF Running, Resolving
<1>3. IsFiniteSet(Running) /\ IsFiniteSet(Resolving)
      /\ Cardinality(Resolving) <= Cardinality(Callers)
  BY <1>1, <1>2, LeafAssumption, FS_Subset
<1> QED BY <1>3, LeafAssumption, FS_CardinalityType

\* The same after a step.
LEMMA StillFinite ==
  /\ IsFiniteSet(Running') /\ Cardinality(Running') \in Nat
  /\ IsFiniteSet(Resolving') /\ Cardinality(Resolving') \in Nat
<1>1. IsFiniteSet(Runs)
  BY LeafAssumption, FS_Interval DEF Runs
<1>2. Running' \in SUBSET Runs /\ Resolving' \in SUBSET Callers
  BY DEF Running, Resolving
<1>3. IsFiniteSet(Running') /\ IsFiniteSet(Resolving')
  BY <1>1, <1>2, LeafAssumption, FS_Subset
<1> QED BY <1>3, FS_CardinalityType

\* A step after which fewer runs run and fewer requests resolve, if any, and
\* which leaves dispose where it is.
LEMMA FewerKeep ==
  ASSUME CountInv, Running' \subseteq Running, Resolving' \subseteq Resolving,
         Made \subseteq Made', disposal' = disposal
  PROVE  Counted' /\ Disposing'
<1> DEFINE fresh == Running \ disposal.awaits
<1>1. /\ Cardinality(Running') <= Cardinality(Running)
      /\ Cardinality(Resolving') <= Cardinality(Resolving)
  BY CountedAreFinite, FS_Subset
<1>2. /\ IsFiniteSet(fresh) /\ Cardinality(fresh) \in Nat
      /\ IsFiniteSet(fresh') /\ Cardinality(fresh') \in Nat
  BY CountedAreFinite, StillFinite, FS_Difference, FS_CardinalityType
<1>3. Cardinality(fresh') <= Cardinality(fresh)
  <2>1. fresh' \in SUBSET fresh
    OBVIOUS
  <2> QED BY <1>2, <2>1, FS_Subset
<1>4. Counted'
  BY <1>1, CountedAreFinite, StillFinite DEF CountInv, Counted
<1>5. Disposing'
  BY <1>1, <1>2, <1>3, CountedAreFinite, StillFinite DEF CountInv, Disposing
<1> QED BY <1>4, <1>5

LEMMA CountInit == LeafInit => CountInv
<1> SUFFICES ASSUME LeafInit PROVE CountInv
  OBVIOUS
<1>1. Running = {} /\ Resolving = {} /\ disposal = [at |-> "no", awaits |-> {}]
  BY DEF LeafInit, Running, Resolving, Free
<1>2. Cardinality(Running) = 0 /\ Cardinality(Resolving) = 0
  BY <1>1, FS_EmptySet
<1>3. Counted
  BY <1>2, CountedAreFinite DEF Counted
<1>4. RunningIsGoing /\ Disposing
  BY <1>1 DEF RunningIsGoing, Disposing
<1> QED BY <1>3, <1>4, LeafInitInv DEF CountInv

\* The request that passes the check finds room for its run, and every other
\* request has at most one.
LEMMA BeginStartCounts ==
  ASSUME CountInv, NEW c \in Callers, BeginStart(c)
  PROVE  Counted' /\ RunningIsGoing' /\ Disposing'
<1>1. /\ call[c] = Free /\ disposal.at = "no"
      /\ kept' = Pruned
      /\ Cardinality(kept' \cap Running) < MaxParallelRuns
      /\ call' = [call EXCEPT ![c].at = "resolving"]
      /\ UNCHANGED <<state, going, aborted, old, disposal, told>>
  BY DEF BeginStart, Arrives
<1>2. Running' = Running /\ Made' = Made
  BY <1>1 DEF Running, Made
<1>3. kept' \cap Running = Running
  BY <1>1, PruneKeeps DEF CountInv, LeafInv, RunningIsKept
<1>4. Cardinality(Running') < MaxParallelRuns
  BY <1>1, <1>2, <1>3
<1>5. Cardinality(Resolving') <= Cardinality(Callers)
  <2>1. Resolving' \in SUBSET Callers
    BY DEF Resolving
  <2> QED BY <2>1, LeafAssumption, FS_Subset
<1>6. Counted'
  BY <1>4, <1>5, CountedAreFinite, StillFinite DEF Counted
<1>7. RunningIsGoing'
  BY <1>1, <1>2 DEF CountInv, RunningIsGoing
<1>8. Disposing'
  BY <1>1, <1>2 DEF CountInv, Disposing
<1> QED BY <1>6, <1>7, <1>8

\* A run takes the place of the request that makes it.
LEMMA MakeRunCounts ==
  ASSUME CountInv, NEW c \in Callers, NEW r \in Runs, MakeRun(c, r)
  PROVE  Counted' /\ RunningIsGoing' /\ Disposing'
<1> DEFINE fresh == Running \ disposal.awaits
<1>1. /\ Running' = Running \cup {r} /\ Made' = Made \cup {r}
      /\ r \notin Made /\ r \notin Running
      /\ going' = going \cup {r} /\ disposal' = disposal
  BY DEF MakeRun, Made, Running, CountInv, LeafInv, LeafTypeOK
<1>2. /\ c \in Resolving
      /\ Resolving' = Resolving \ {c}
  BY DEF MakeRun, Resolving, Free, CountInv, LeafInv, LeafTypeOK
<1>3. /\ Cardinality(Running') = Cardinality(Running) + 1
      /\ Cardinality(Resolving') = Cardinality(Resolving) - 1
  BY <1>1, <1>2, CountedAreFinite, FS_AddElement, FS_RemoveElement
<1>4. Counted'
  BY <1>3, CountedAreFinite, StillFinite DEF CountInv, Counted
<1>5. RunningIsGoing'
  BY <1>1 DEF CountInv, RunningIsGoing
<1>6. r \notin disposal.awaits
  BY <1>1 DEF CountInv, Disposing
<1>7. IsFiniteSet(fresh) /\ Cardinality(fresh) \in Nat
  BY CountedAreFinite, FS_Difference, FS_CardinalityType
<1>8. fresh' = fresh \cup {r} /\ r \notin fresh
  BY <1>1, <1>6
<1>9. Cardinality(fresh') = Cardinality(fresh) + 1
  BY <1>7, <1>8, FS_AddElement
<1>10. Disposing'
  BY <1>1, <1>3, <1>6, <1>7, <1>9, CountedAreFinite, StillFinite DEF CountInv, Disposing
<1> QED BY <1>4, <1>5, <1>10

\* The other requests, and the provider calls, start nothing.
LEMMA EndingCounts ==
  ASSUME CountInv,
         \/ \E c \in Callers : \/ Refuse(c) \/ ModelUnavailable(c) \/ EndCancel(c)
                               \/ \E r \in Runs : Report(c, r)
                               \/ \E S \in SUBSET Runs : BeginCancel(c, S)
         \/ \E r \in Runs : Provider(r) \/ GrowsOld(r)
  PROVE  Counted' /\ RunningIsGoing' /\ Disposing'
<1> USE DEF CountInv
<1>1. ASSUME NEW c \in Callers,
             \/ Refuse(c) \/ ModelUnavailable(c) \/ EndCancel(c)
             \/ \E r \in Runs : Report(c, r)
      PROVE  /\ Running' = Running /\ Made' = Made
             /\ Resolving' \subseteq Resolving
             /\ disposal' = disposal /\ going' = going
  <2>1. UNCHANGED <<state, going, disposal>>
    BY <1>1 DEF Refuse, ModelUnavailable, EndCancel, Report
  <2>2. call' = call \/ call' = [call EXCEPT ![c] = Free]
    BY <1>1 DEF Refuse, ModelUnavailable, EndCancel, Report
  <2>3. \A d \in Callers : call'[d] = call[d] \/ call'[d] = Free
    BY <2>2 DEF LeafInv, LeafTypeOK
  <2>4. Resolving' \subseteq Resolving
    BY <2>3 DEF Resolving, Free
  <2> QED BY <2>1, <2>4 DEF Running, Made
<1>2. ASSUME NEW c \in Callers, NEW S \in SUBSET Runs, BeginCancel(c, S)
      PROVE  /\ Running' \subseteq Running /\ Made' = Made
             /\ Resolving' \subseteq Resolving
             /\ disposal' = disposal /\ going' = going
  <2> DEFINE hit == Pruned \cap S \cap Running
  <2>1. /\ state' = [r \in Runs |-> IF r \in hit THEN "cancelled" ELSE state[r]]
        /\ UNCHANGED <<going, disposal>>
    BY <1>2 DEF BeginCancel
  <2>2. Running' \subseteq Running /\ Made' = Made
    BY <2>1 DEF Running, Made
  <2>3. /\ call' = [call EXCEPT ![c] = [at |-> "settling", asked |-> S]]
        /\ \A d \in Callers : call'[d] = call[d] \/ call'[d] = [at |-> "settling", asked |-> S]
    BY <1>2 DEF BeginCancel, LeafInv, LeafTypeOK
  <2>4. Resolving' \subseteq Resolving
    BY <2>3 DEF Resolving
  <2> QED BY <2>1, <2>2, <2>4
<1>3. ASSUME NEW r \in Runs, NEW end \in Terminal, Settle(r, end)
      PROVE  /\ Running' = Running \ {r} /\ Made' = Made
             /\ Resolving' = Resolving
             /\ disposal' = disposal /\ going' = going \ {r}
  <2>1. /\ state' = [state EXCEPT ![r] = IF @ = "cancelled" THEN @ ELSE end]
        /\ going' = going \ {r} /\ UNCHANGED <<call, disposal>>
        /\ state[r] \in {"running", "cancelled"}
    BY <1>3 DEF Settle, LeafInv, GoingIsOpen
  <2>2. Running' = Running \ {r} /\ Made' = Made
    BY <2>1 DEF Running, Made, Terminal, RunStates, LeafInv, LeafTypeOK
  <2> QED BY <2>1, <2>2 DEF Resolving
<1>4. ASSUME NEW r \in Runs, Provider(r)
      PROVE  /\ Running' = Running \ {r} /\ Made' = Made
             /\ Resolving' = Resolving
             /\ disposal' = disposal /\ going' = going \ {r}
  BY <1>3, <1>4 DEF Provider, ProviderAnswers, ProviderThrows, Terminal, RunStates
<1>5. ASSUME NEW r \in Runs, GrowsOld(r)
      PROVE  /\ Running' = Running /\ Made' = Made
             /\ Resolving' = Resolving
             /\ disposal' = disposal /\ going' = going
  BY <1>5 DEF GrowsOld, Running, Made, Resolving
<1> QED BY <1>1, <1>2, <1>4, <1>5, FewerKeep DEF RunningIsGoing

\* dispose waits for whatever runs, and is done when it has ended.
LEMMA DisposeCounts ==
  ASSUME CountInv, BeginDispose \/ EndDispose
  PROVE  Counted' /\ RunningIsGoing' /\ Disposing'
<1>1. Running' = Running /\ Made' = Made /\ Resolving' = Resolving /\ going' = going
  BY DEF BeginDispose, EndDispose, Running, Made, Resolving
<1>2. Counted' /\ RunningIsGoing'
  BY <1>1 DEF CountInv, Counted, RunningIsGoing
<1>3. CASE BeginDispose
  <2>1. disposal' = [at |-> "waiting", awaits |-> kept]
    BY <1>3 DEF BeginDispose
  <2>2. Running \subseteq kept /\ kept \subseteq Made
    BY <1>3 DEF BeginDispose, CountInv, LeafInv, LeafTypeOK, RunningIsKept
  <2>3. Cardinality(Running' \ disposal'.awaits) = 0
    <3>1. Running' \ disposal'.awaits = {}
      BY <1>1, <2>1, <2>2
    <3> QED BY <3>1, FS_EmptySet
  <2> QED BY <1>1, <1>2, <2>1, <2>2, <2>3, CountedAreFinite DEF Disposing
<1>4. CASE EndDispose
  <2>1. disposal.at = "waiting" /\ disposal.awaits \cap going = {}
        /\ disposal' = [disposal EXCEPT !.at = "done"]
    BY <1>4 DEF EndDispose
  <2>2. disposal'.at = "done" /\ disposal'.awaits = disposal.awaits
    BY <2>1 DEF CountInv, LeafInv, LeafTypeOK
  <2>3. Running \cap disposal.awaits = {}
    BY <2>1 DEF CountInv, RunningIsGoing
  <2> QED BY <1>1, <1>2, <2>1, <2>2, <2>3 DEF CountInv, Disposing
<1> QED BY <1>3, <1>4

\* The invariant about numbers, on top of the one about states.
THEOREM CountInvariant == LeafSpec => []CountInv
<1>1. ASSUME CountInv, [LeafNext]_leafVars PROVE CountInv'
  <2>1. LeafInv'
    BY <1>1, LeafNextKeeps DEF CountInv
  <2>2. ASSUME NEW c \in Callers, Request(c)
        PROVE  Counted' /\ RunningIsGoing' /\ Disposing'
    BY <1>1, <2>2, BeginStartCounts, MakeRunCounts, EndingCounts DEF Request
  <2>3. ASSUME NEW r \in Runs, Provider(r) \/ GrowsOld(r)
        PROVE  Counted' /\ RunningIsGoing' /\ Disposing'
    BY <1>1, <2>3, EndingCounts
  <2>4. ASSUME UNCHANGED leafVars PROVE Counted' /\ RunningIsGoing' /\ Disposing'
    <3>1. Running' = Running /\ Made' = Made /\ Resolving' = Resolving
          /\ going' = going /\ disposal' = disposal
      BY <2>4 DEF leafVars, Running, Made, Resolving
    <3> QED BY <1>1, <3>1 DEF CountInv, Counted, RunningIsGoing, Disposing
  <2>5. Counted' /\ RunningIsGoing' /\ Disposing'
    BY <1>1, <2>2, <2>3, <2>4, DisposeCounts DEF LeafNext
  <2> QED BY <2>1, <2>5 DEF CountInv
<1> QED BY <1>1, CountInit, PTL DEF LeafSpec

\* The capacity that start checks before it awaits its model is overrun by
\* one run for each other request, at most.
THEOREM CapacityIsBounded == LeafSpec => []CapacityBound
<1>1. CountInv => CapacityBound
  BY CountedAreFinite DEF CountInv, Counted, CapacityBound
<1> QED BY <1>1, CountInvariant, PTL

\* When dispose returns, the runs it found have ended, and what was made
\* behind its back is bounded by the requests that were in progress.
THEOREM DisposalAlwaysThorough == LeafSpec => []DisposalIsThorough
<1>1. CountInv => DisposalIsThorough
  <2> SUFFICES ASSUME CountInv, disposal.at = "done" PROVE DisposalIsThorough
    BY DEF DisposalIsThorough
  <2>1. Running \cap disposal.awaits = {} /\ Running \ disposal.awaits = Running
    BY DEF CountInv, Disposing
  <2>2. Cardinality(Running) + Cardinality(Resolving) <= Cardinality(Callers)
    BY <2>1 DEF CountInv, Disposing
  <2> QED BY <2>1, <2>2, CountedAreFinite DEF DisposalIsThorough
<1> QED BY <1>1, CountInvariant, PTL

-----------------------------------------------------------------------------
(* The contract of runs.                                                   *)

LEMMA StepsImplementRuns ==
  ASSUME LeafInv, [LeafNext]_leafVars
  PROVE  [Contract!RunsNext]_state
<1> USE DEF LeafInv, LeafTypeOK
<1>1. ASSUME NEW c \in Callers, NEW r \in Runs, MakeRun(c, r) PROVE Contract!RunsNext
  BY <1>1 DEF MakeRun, Contract!RunsNext, Contract!Starts
<1>2. ASSUME NEW c \in Callers, NEW S \in SUBSET Runs, BeginCancel(c, S) PROVE Contract!RunsNext
  <2> DEFINE hit == Pruned \cap S \cap Running
  <2>1. hit \in SUBSET Runs /\ \A r \in hit : state[r] = "running"
    BY DEF Running
  <2>2. state' = [r \in Runs |-> IF r \in hit THEN "cancelled" ELSE state[r]]
    BY <1>2 DEF BeginCancel
  <2>3. Contract!Cancels(hit)
    BY <2>1, <2>2 DEF Contract!Cancels
  <2> QED BY <2>1, <2>3 DEF Contract!RunsNext
<1>3. ASSUME NEW r \in Runs, NEW end \in Terminal, Settle(r, end)
      PROVE  Contract!RunsNext \/ UNCHANGED state
  <2>1. state[r] \in {"running", "cancelled"}
    BY <1>3 DEF Settle, GoingIsOpen
  <2>2. CASE state[r] = "cancelled"
    BY <1>3, <2>2 DEF Settle
  <2>3. CASE state[r] = "running"
    <3>1. end \in Contract!Ends
      BY DEF Terminal, RunStates, Contract!Ends
    <3>2. Contract!Finishes(r, end)
      BY <1>3, <2>3 DEF Settle, Contract!Finishes
    <3> QED BY <3>1, <3>2 DEF Contract!RunsNext
  <2> QED BY <2>1, <2>2, <2>3
<1>4. ASSUME NEW r \in Runs, Provider(r) PROVE Contract!RunsNext \/ UNCHANGED state
  BY <1>3, <1>4 DEF Provider, ProviderAnswers, ProviderThrows, Terminal, RunStates
<1>5. ASSUME NEW c \in Callers,
             \/ BeginStart(c) \/ Refuse(c) \/ ModelUnavailable(c) \/ EndCancel(c)
             \/ \E r \in Runs : Report(c, r)
      PROVE  UNCHANGED state
  BY <1>5 DEF BeginStart, Refuse, ModelUnavailable, EndCancel, Report
<1>6. ASSUME (\E r \in Runs : GrowsOld(r)) \/ BeginDispose \/ EndDispose PROVE UNCHANGED state
  BY <1>6 DEF GrowsOld, BeginDispose, EndDispose
<1> QED BY <1>1, <1>2, <1>4, <1>5, <1>6 DEF LeafNext, Request, leafVars

\* The leaf runtime implements the contract of runs: start, cancelAndSettle, the
\* provider's late answers and dispose start each run once and end it once.
THEOREM RuntimeImplementsRuns == LeafSpec => ImplementsRuns
<1>1. LeafInit => Contract!RunsInit
  BY DEF LeafInit, Contract!RunsInit
<1>2. LeafInv /\ [LeafNext]_leafVars => [Contract!RunsNext]_state
  BY StepsImplementRuns
<1> QED BY <1>1, <1>2, LeafInvariant, PTL DEF LeafSpec, ImplementsRuns, Contract!RunsSpec

\* By the contract, and so for the runtime, an end is final.
THEOREM EndsAreFinal == LeafSpec => Contract!EndIsFinal
<1> DEFINE Final == \A r \in Runs : state[r] \in Contract!Ends => state'[r] = state[r]
<1>1. ASSUME Contract!RunsNext PROVE Final
  <2>1. ASSUME NEW r \in Runs, Contract!Starts(r) PROVE Final
    BY <2>1 DEF Contract!Starts, Contract!Ends
  <2>2. ASSUME NEW r \in Runs, NEW end \in Contract!Ends, Contract!Finishes(r, end) PROVE Final
    BY <2>2 DEF Contract!Finishes, Contract!Ends
  <2>3. ASSUME NEW S \in SUBSET Runs, Contract!Cancels(S) PROVE Final
    BY <2>3 DEF Contract!Cancels, Contract!Ends
  <2> QED BY <1>1, <2>1, <2>2, <2>3 DEF Contract!RunsNext
<1>2. [Contract!RunsNext]_state => [Final]_state
  BY <1>1
<1> QED
  BY <1>2, RuntimeImplementsRuns, PTL DEF ImplementsRuns, Contract!RunsSpec, Contract!EndIsFinal
=============================================================================
