-------------------------- MODULE AgentJobsProofs --------------------------
(***************************************************************************)
(* Proofs about the registry of agent jobs, for any set of jobs and any    *)
(* number of drives and rounds.                                            *)
(***************************************************************************)
EXTENDS AgentJobs, TLAPS

Working(d) == drive[d].at \in {"negotiating", "core"}

\* The shape of the state, the journals aside, and of what only grows.
Shape == /\ entry \in [Jobs -> {"none", "kept", "orphan", "dropped"}]
         /\ record \in [Jobs -> Records]
         /\ slot \in [Jobs -> Drives \cup {None}]
         /\ drive \in [Drives -> [at : DriveStages, round : 0..MaxRounds]]
         /\ overlapped \subseteq Jobs

Marks == late \subseteq Jobs /\ aged \subseteq Jobs /\ shown \in [Jobs -> {"none"} \cup Final]

\* A job whose drives never overlapped has one drive at work at most, and
\* none once it is over.
OneDrive ==
  \A d \in Drives : Working(d) /\ JobOf(d) \notin overlapped =>
    /\ record[JobOf(d)].status = "running"
    /\ \A e \in Drives : Working(e) /\ JobOf(e) = JobOf(d) => e = d

\* A job that is not created yet has run nothing.
Untouched == /\ \A j \in Jobs : entry[j] = "none" => record[j] = Fresh
             /\ \A d \in Drives : Working(d) => entry[JobOf(d)] # "none"

\* The drive that callers share is at work for a job they can find.
SlotWorks ==
  \A j \in Jobs : \A d \in Drives : slot[j] = d =>
    entry[j] = "kept" /\ JobOf(d) = j /\ Working(d)

JobsInv == Shape /\ OneDrive /\ Untouched /\ SlotWorks /\ ReadyHasResult

-----------------------------------------------------------------------------
LEMMA DriveFacts == /\ None \notin Drives
                    /\ \A d \in Drives : JobOf(d) \in Jobs
  BY JobsAssumption DEF Drives, JobOf

LEMMA JobsInitInv == JobsInit => JobsInv
  BY DriveFacts, JobsAssumption
     DEF JobsInit, JobsInv, Shape, OneDrive, Untouched, SlotWorks, ReadyHasResult,
         Fresh, Records, NoDrive, DriveStages, Final, Working, JobOf

\* A drive that begins either is alone or makes its job an overlapped one.
LEMMA BeginAlone ==
  ASSUME JobsInv, NEW d \in Drives, NEW slots \in [Jobs -> Drives \cup {None}],
         Begin(d, slots)
  PROVE  /\ drive' \in [Drives -> [at : DriveStages, round : 0..MaxRounds]]
         /\ slot' \in [Jobs -> Drives \cup {None}]
         /\ slot' = [slots EXCEPT ![JobOf(d)] = d]
         /\ overlapped' \subseteq Jobs
         /\ \A e \in Drives : Working(e)' <=> (Working(e) \/ e = d)
         /\ \A e \in Drives : Working(e)' /\ JobOf(e) \notin overlapped' =>
              /\ JobOf(e) \notin overlapped
              /\ \A f \in Drives : Working(f)' /\ JobOf(f) = JobOf(e) => f = e
<1>1. drive' = [drive EXCEPT ![d] = [at |-> "negotiating", round |-> 0]]
  BY DEF Begin
<1>2. /\ drive' \in [Drives -> [at : DriveStages, round : 0..MaxRounds]]
      /\ \A e \in Drives : Working(e)' <=> (Working(e) \/ e = d)
  BY <1>1, JobsAssumption DEF JobsInv, Shape, DriveStages, Working
<1>3. /\ slot' = [slots EXCEPT ![JobOf(d)] = d]
      /\ slot' \in [Jobs -> Drives \cup {None}]
      /\ overlapped' \subseteq Jobs
      /\ overlapped \subseteq overlapped'
  BY DriveFacts DEF Begin, JobsInv, Shape
<1>4. ASSUME NEW e \in Drives, Working(e)', JobOf(e) \notin overlapped',
             NEW f \in Drives, Working(f)', JobOf(f) = JobOf(e)
      PROVE  f = e
  <2>1. CASE JobOf(e) = JobOf(d)
    <3>1. AtWork(JobOf(d)) = {}
      BY <1>4, <2>1, DriveFacts DEF Begin
    <3>2. ~Working(e) /\ ~Working(f)
      BY <1>4, <2>1, <3>1 DEF AtWork, Working
    <3> QED BY <1>2, <1>4, <3>2
  <2>2. CASE JobOf(e) # JobOf(d)
    <3>1. Working(e) /\ Working(f) /\ JobOf(e) \notin overlapped
      BY <1>2, <1>3, <1>4, <2>2
    <3> QED BY <1>4, <3>1 DEF JobsInv, OneDrive
  <2> QED BY <2>1, <2>2
<1> QED BY <1>2, <1>3, <1>4

\* What expiry leaves of the slots.
LEMMA PruneSlots ==
  ASSUME JobsInv
  PROVE  /\ Unexpired(slot, None) \in [Jobs -> Drives \cup {None}]
         /\ \A j \in Jobs : Unexpired(slot, None)[j] # None =>
              Unexpired(slot, None)[j] = slot[j] /\ ~Expired(j)
  BY DEF Unexpired, JobsInv, Shape

LEMMA CreateKeeps == ASSUME JobsInv, NEW j \in Jobs, Create(j) PROVE JobsInv'
<1> DEFINE d == <<j, 1>>
           slots == Unexpired(slot, None)
<1>1. d \in Drives /\ JobOf(d) = j
  BY JobsAssumption DEF Drives, JobOf
<1>2. /\ Begin(d, slots)
      /\ entry[j] = "none"
      /\ entry' = [Unexpired(entry, "dropped") EXCEPT ![j] = "kept"]
      /\ record' = record
  BY DEF Create
<1>3. entry' \in [Jobs -> {"none", "kept", "orphan", "dropped"}]
  BY <1>2 DEF Unexpired, JobsInv, Shape
<1>4. Shape'
  BY <1>1, <1>2, <1>3, BeginAlone, PruneSlots DEF JobsInv, Shape
<1>5. OneDrive'
  BY <1>1, <1>2, BeginAlone, PruneSlots, DriveFacts DEF JobsInv, OneDrive, Untouched, Fresh
<1>6. SlotWorks'
  <2> SUFFICES ASSUME NEW i \in Jobs, NEW e \in Drives, slot'[i] = e
               PROVE  entry'[i] = "kept" /\ JobOf(e) = i /\ Working(e)'
    BY DEF SlotWorks
  <2>1. CASE i = j
    BY <1>1, <1>2, <1>3, <2>1, BeginAlone, PruneSlots DEF Unexpired, JobsInv, Shape
  <2>2. CASE i # j
    <3>1. slots[i] = e
      BY <1>1, <1>2, <2>2, BeginAlone, PruneSlots
    <3>2. slot[i] = e /\ ~Expired(i)
      BY <3>1, PruneSlots, DriveFacts
    <3>3. entry'[i] = entry[i]
      BY <1>2, <2>2, <3>2 DEF Unexpired, JobsInv, Shape
    <3> QED BY <1>1, <1>2, <3>2, <3>3, BeginAlone, PruneSlots DEF JobsInv, SlotWorks
  <2> QED BY <2>1, <2>2
<1>7. Untouched' /\ ReadyHasResult'
  <2>1. \A i \in Jobs : entry'[i] = "none" => i # j /\ entry[i] = "none"
    BY <1>2 DEF Unexpired, JobsInv, Shape
  <2>2. \A e \in Drives : Working(e)' => Working(e) \/ JobOf(e) = j
    BY <1>1, <1>2, BeginAlone, PruneSlots
  <2> QED BY <1>2, <2>1, <2>2, DriveFacts DEF JobsInv, Untouched, ReadyHasResult
<1> QED BY <1>4, <1>5, <1>6, <1>7 DEF JobsInv

LEMMA ExecuteKeeps ==
  ASSUME JobsInv, NEW d \in Drives, NEW extends \in BOOLEAN, Execute(d, extends)
  PROVE  JobsInv'
<1>1. /\ Begin(d, slot)
      /\ entry[JobOf(d)] = "kept"
      /\ record[JobOf(d)].status = "running"
      /\ UNCHANGED <<entry, record>>
  BY DEF Execute
<1>2. slot \in [Jobs -> Drives \cup {None}]
  BY DEF JobsInv, Shape
<1>3. Shape'
  BY <1>1, <1>2, BeginAlone DEF JobsInv, Shape
<1>4. OneDrive'
  BY <1>1, <1>2, BeginAlone, DriveFacts DEF JobsInv, OneDrive
<1>5. SlotWorks'
  BY <1>1, <1>2, BeginAlone, DriveFacts DEF JobsInv, SlotWorks
<1>6. Untouched' /\ ReadyHasResult'
  BY <1>1, <1>2, BeginAlone DEF JobsInv, Untouched, ReadyHasResult
<1> QED BY <1>3, <1>4, <1>5, <1>6 DEF JobsInv

\* Expiry, whichever handler asks for it, and a creation that throws.
LEMMA ExpiryKeeps ==
  ASSUME JobsInv, NEW j \in Jobs, CreateThrows(j) \/ Snapshot(j)
  PROVE  JobsInv'
<1>1. /\ slot' = Unexpired(slot, None)
      /\ UNCHANGED <<record, drive, overlapped>>
      /\ \/ entry' = Unexpired(entry, "dropped")
         \/ /\ entry[j] = "none"
            /\ entry' = [Unexpired(entry, "dropped") EXCEPT ![j] = "orphan"]
  BY DEF CreateThrows, Snapshot, Prune
<1>2. /\ entry' \in [Jobs -> {"none", "kept", "orphan", "dropped"}]
      /\ \A i \in Jobs : entry'[i] = "none" => entry[i] = "none"
      /\ \A i \in Jobs : entry[i] = "kept" /\ ~Expired(i) => entry'[i] = "kept"
  BY <1>1 DEF Unexpired, JobsInv, Shape
<1>3. Shape'
  BY <1>1, <1>2, PruneSlots DEF JobsInv, Shape
<1>4. OneDrive' /\ ReadyHasResult'
  BY <1>1 DEF JobsInv, OneDrive, ReadyHasResult, Working
<1>5. Untouched'
  BY <1>1, <1>2, DriveFacts DEF JobsInv, Untouched, Working
<1>6. SlotWorks'
  BY <1>1, <1>2, PruneSlots, DriveFacts DEF JobsInv, SlotWorks, Working
<1> QED BY <1>3, <1>4, <1>5, <1>6 DEF JobsInv

\* The clock moves, or the timer of a drive fires.
LEMMA TimeKeeps ==
  ASSUME JobsInv,
         \/ \E j \in Jobs : DeadlinePasses(j) \/ RetentionPasses(j)
         \/ \E d \in Drives : TimerFires(d)
  PROVE  JobsInv'
<1>1. /\ UNCHANGED <<entry, record, drive, overlapped>>
      /\ slot' = slot \/ \E d \in Drives : slot' = Cleared(d)
  BY DEF DeadlinePasses, RetentionPasses, TimerFires
<1>2. /\ slot' \in [Jobs -> Drives \cup {None}]
      /\ \A j \in Jobs : slot'[j] # None => slot'[j] = slot[j]
  BY <1>1, DriveFacts DEF Cleared, JobsInv, Shape
<1>3. Shape'
  BY <1>1, <1>2 DEF JobsInv, Shape
<1>4. OneDrive' /\ Untouched' /\ ReadyHasResult'
  BY <1>1 DEF JobsInv, OneDrive, Untouched, ReadyHasResult, Working
<1>5. SlotWorks'
  BY <1>1, <1>2, DriveFacts DEF JobsInv, SlotWorks, Working
<1> QED BY <1>3, <1>4, <1>5 DEF JobsInv

\* The drive d goes on with its work.
LEMMA WorkKeeps ==
  ASSUME JobsInv, NEW d \in Drives,
         \/ Progress(d)
         \/ \E t \in {record[JobOf(d)].transport, "standalone", "leaf-runtime"} :
              Negotiated(d, t)
  PROVE  JobsInv'
<1>1. /\ UNCHANGED <<entry, slot, overlapped>>
      /\ Working(d)
      /\ drive' \in [Drives -> [at : DriveStages, round : 0..MaxRounds]]
      /\ \A e \in Drives : Working(e)' <=> Working(e)
  <2>1. CASE Progress(d)
    BY <2>1, JobsAssumption DEF Progress, JobsInv, Shape, Working, DriveStages
  <2>2. CASE \E t \in {record[JobOf(d)].transport, "standalone", "leaf-runtime"} : Negotiated(d, t)
    BY <2>2 DEF Negotiated, JobsInv, Shape, Working, DriveStages
  <2> QED BY <2>1, <2>2
<1>2. /\ record' \in [Jobs -> Records]
      /\ \A j \in Jobs : record'[j].status = record[j].status /\ record'[j].result = record[j].result
      /\ \A j \in Jobs : j # JobOf(d) => record'[j] = record[j]
  <2>1. CASE Progress(d)
    BY <2>1 DEF Progress, JobsInv, Shape
  <2>2. CASE \E t \in {record[JobOf(d)].transport, "standalone", "leaf-runtime"} : Negotiated(d, t)
    <3>1. PICK t \in {record[JobOf(d)].transport, "standalone", "leaf-runtime"} : Negotiated(d, t)
      BY <2>2
    <3>2. record[JobOf(d)] \in Records
      BY DriveFacts DEF JobsInv, Shape
    <3>3. t \in {"standalone", "leaf-runtime"}
      BY <3>1, <3>2 DEF Records
    <3>4. record' = [record EXCEPT ![JobOf(d)] = [record[JobOf(d)] EXCEPT !.transport = t]]
      BY <3>1 DEF Negotiated
    <3>5. [record[JobOf(d)] EXCEPT !.transport = t] \in Records
      BY <3>2, <3>3 DEF Records
    <3>6. /\ [record[JobOf(d)] EXCEPT !.transport = t].status = record[JobOf(d)].status
          /\ [record[JobOf(d)] EXCEPT !.transport = t].result = record[JobOf(d)].result
      BY <3>2 DEF Records
    <3> QED BY <3>4, <3>5, <3>6, DriveFacts DEF JobsInv, Shape
  <2> QED BY <2>1, <2>2
<1>3. Shape'
  BY <1>1, <1>2 DEF JobsInv, Shape
<1>4. OneDrive' /\ ReadyHasResult'
  BY <1>1, <1>2, DriveFacts DEF JobsInv, OneDrive, ReadyHasResult
<1>5. Untouched'
  BY <1>1, <1>2, DriveFacts DEF JobsInv, Untouched
<1>6. SlotWorks'
  BY <1>1, DriveFacts DEF JobsInv, SlotWorks
<1> QED BY <1>3, <1>4, <1>5, <1>6 DEF JobsInv

\* The three ways of driveAgentJob to its end.
Ends(d) == \/ Succeeds(d) \/ ResultThrows(d)
           \/ \E error \in {"failed", "deadline"} : Fails(d, error)

LEMMA EndSettles == ASSUME NEW d, Ends(d) PROVE Settles(d) /\ Working(d)
  BY DEF Ends, Succeeds, ResultThrows, Fails, Working

\* The drive d settles: the job is over, and was not before unless two drives
\* of it were at work.
LEMMA SettleKeeps ==
  ASSUME JobsInv, NEW d \in Drives, Ends(d)
  PROVE  /\ JobsInv'
         /\ record'[JobOf(d)].status \in Final
         /\ record[JobOf(d)].status \in Final => JobOf(d) \in overlapped'
         /\ \A j \in Jobs : j # JobOf(d) => record'[j] = record[j]
<1>1. /\ Working(d)
      /\ drive' = [drive EXCEPT ![d].at = "settled"]
      /\ slot' = Cleared(d)
      /\ UNCHANGED <<entry, overlapped>>
  BY EndSettles DEF Settles
<1>2. /\ drive' \in [Drives -> [at : DriveStages, round : 0..MaxRounds]]
      /\ \A e \in Drives : Working(e)' <=> (Working(e) /\ e # d)
  BY <1>1 DEF JobsInv, Shape, Working, DriveStages
<1>3. /\ slot' \in [Jobs -> Drives \cup {None}]
      /\ \A j \in Jobs : \A e \in Drives : slot'[j] = e => slot[j] = e /\ (j = JobOf(d) => e # d)
  BY <1>1, DriveFacts DEF Cleared, JobsInv, Shape
<1>4. /\ record' \in [Jobs -> Records]
      /\ \A j \in Jobs : j # JobOf(d) => record'[j] = record[j]
      /\ record'[JobOf(d)].status = "ready" => record'[JobOf(d)].result = "full"
      /\ record'[JobOf(d)].status \in Final
  <2>1. CASE Succeeds(d)
    <3> DEFINE new == [record[JobOf(d)] EXCEPT !.result = "full", !.status = "ready"]
    <3>1. record[JobOf(d)] \in Records
      BY DriveFacts DEF JobsInv, Shape
    <3>2. new \in Records /\ new.result = "full" /\ new.status \in Final
      BY <3>1 DEF Records, Final
    <3>3. record' = [record EXCEPT ![JobOf(d)] = new]
      BY <2>1 DEF Succeeds
    <3> HIDE DEF new
    <3> QED BY <3>2, <3>3, DriveFacts DEF JobsInv, Shape
  <2>3. CASE ResultThrows(d)
    <3> DEFINE new == [record[JobOf(d)] EXCEPT !.result = "full", !.status = "failed",
                                               !.error = "failed"]
    <3>1. record[JobOf(d)] \in Records
      BY DriveFacts DEF JobsInv, Shape
    <3>2. new \in Records /\ new.result = "full" /\ new.status \in Final
      BY <3>1 DEF Records, Final
    <3>3. record' = [record EXCEPT ![JobOf(d)] = new]
      BY <2>3 DEF ResultThrows
    <3> HIDE DEF new
    <3> QED BY <3>2, <3>3, DriveFacts DEF JobsInv, Shape
  <2>2. CASE \E error \in {"failed", "deadline"} : Fails(d, error)
    <3>1. PICK error \in {"failed", "deadline"} : Fails(d, error)
      BY <2>2
    <3> DEFINE old == record[JobOf(d)]
               new == [status    |-> "failed",
                       error     |-> error,
                       result    |-> IF error = "deadline" THEN "degraded" ELSE old.result,
                       transport |-> IF error = "failed" /\ old.result = "none"
                                     THEN "standalone" ELSE old.transport]
    <3>2. old \in Records
      BY DriveFacts DEF JobsInv, Shape
    <3>3. new \in Records /\ new.status # "ready" /\ new.status \in Final
      BY <3>1, <3>2 DEF Records, Final
    <3>4. record' = [record EXCEPT ![JobOf(d)] = new]
      BY <3>1 DEF Fails
    <3> HIDE DEF new
    <3> QED BY <3>3, <3>4, DriveFacts DEF JobsInv, Shape
  <2> QED BY <2>1, <2>2, <2>3 DEF Ends
<1>5. Shape'
  BY <1>1, <1>2, <1>3, <1>4 DEF JobsInv, Shape
<1>6. OneDrive'
  BY <1>1, <1>2, <1>4, DriveFacts DEF JobsInv, OneDrive
<1>7. Untouched' /\ ReadyHasResult'
  BY <1>1, <1>2, <1>4, DriveFacts DEF JobsInv, Untouched, ReadyHasResult
<1>8. SlotWorks'
  BY <1>1, <1>2, <1>3, DriveFacts DEF JobsInv, SlotWorks
<1>9. record[JobOf(d)].status \in Final => JobOf(d) \in overlapped'
  BY <1>1, DriveFacts DEF JobsInv, OneDrive, Final
<1> QED BY <1>4, <1>5, <1>6, <1>7, <1>8, <1>9 DEF JobsInv

-----------------------------------------------------------------------------
LEMMA JobsNextKeeps == ASSUME JobsInv, [JobsNext]_jobVars PROVE JobsInv'
<1>1. ASSUME NEW d \in Drives, Drive(d) PROVE JobsInv'
  BY <1>1, WorkKeeps, SettleKeeps, TimeKeeps DEF Drive, Ends
<1>2. ASSUME NEW d \in Drives, NEW extends \in BOOLEAN, Execute(d, extends) PROVE JobsInv'
  BY <1>2, ExecuteKeeps
<1>3. ASSUME NEW j \in Jobs,
             \/ Create(j) \/ CreateThrows(j) \/ Snapshot(j)
             \/ DeadlinePasses(j) \/ RetentionPasses(j)
      PROVE  JobsInv'
  BY <1>3, CreateKeeps, ExpiryKeeps, TimeKeeps
<1>4. CASE UNCHANGED jobVars
  BY <1>4 DEF jobVars, JobsInv, Shape, OneDrive, Untouched, SlotWorks, ReadyHasResult, Working
<1> QED BY <1>1, <1>2, <1>3, <1>4 DEF JobsNext

\* The invariant of the registry.
THEOREM JobsInvariant == JobsSpec => []JobsInv
<1>1. JobsInv /\ [JobsNext]_jobVars => JobsInv'
  BY JobsNextKeeps
<1> QED BY <1>1, JobsInitInv, PTL DEF JobsSpec

\* A ready job has the result of a whole run, however its drives overlapped.
THEOREM ReadyAlwaysHasResult == JobsSpec => []ReadyHasResult
<1>1. JobsInv => ReadyHasResult
  BY DEF JobsInv
<1> QED BY <1>1, JobsInvariant, PTL

\* The registry's variables have their types.
THEOREM JobsTypeCorrect == JobsSpec => []JobsTypeOK
<1>1. JobsInit => Marks
  BY DEF JobsInit, Marks
<1>2. JobsInv /\ Marks /\ [JobsNext]_jobVars => Marks'
  <2> SUFFICES ASSUME JobsInv, Marks, [JobsNext]_jobVars PROVE Marks'
    OBVIOUS
  <2>1. ASSUME NEW d \in Drives, Drive(d) PROVE Marks'
    <3>1. ASSUME NEW t, Negotiated(d, t) PROVE UNCHANGED <<late, aged, shown>>
      BY <3>1 DEF Negotiated
    <3>2. CASE Ends(d)
      BY <3>2, EndSettles DEF Settles, Renewed, Marks
    <3>3. CASE Progress(d) \/ TimerFires(d)
      BY <3>3 DEF Progress, TimerFires, Marks
    <3> QED
      BY <2>1, <3>1, <3>2, <3>3 DEF Drive, Ends, Marks
  <2>2. ASSUME NEW d \in Drives, NEW extends \in BOOLEAN, Execute(d, extends) PROVE Marks'
    BY <2>2 DEF Execute, Marks
  <2>3. ASSUME NEW j \in Jobs, Snapshot(j) PROVE Marks'
    BY <2>3 DEF Snapshot, Marks
  <2>4. ASSUME NEW j \in Jobs, DeadlinePasses(j) \/ RetentionPasses(j) PROVE Marks'
    BY <2>4 DEF DeadlinePasses, RetentionPasses, Marks
  <2>5. ASSUME NEW j \in Jobs, Create(j) \/ CreateThrows(j) PROVE UNCHANGED <<late, aged, shown>>
    BY <2>5 DEF Create, CreateThrows
  <2>6. CASE UNCHANGED <<late, aged, shown>>
    BY <2>6 DEF Marks
  <2> QED
    BY <2>1, <2>2, <2>3, <2>4, <2>5, <2>6 DEF JobsNext, jobVars
<1>3. JobsInv /\ Marks => JobsTypeOK
  BY DEF JobsInv, Shape, Marks, JobsTypeOK
<1> QED
  BY <1>1, <1>2, <1>3, JobsInvariant, PTL DEF JobsSpec

\* The slot of executeAgentJob holds drives that are at work for a job that
\* callers can find.
THEOREM SlotAlwaysLive == JobsSpec => []SlotIsLive
<1>1. JobsInv => SlotIsLive
  BY DriveFacts DEF JobsInv, Shape, SlotWorks, SlotIsLive, AtWork, Working
<1> QED BY <1>1, JobsInvariant, PTL

\* A job that is over stays as it is unless its drives overlapped.
THEOREM EndAlwaysStands == JobsSpec => EndStands
<1> DEFINE Stands == \A j \in Jobs : record[j].status \in Final /\ j \notin overlapped'
                                      => record'[j] = record[j]
<1>1. ASSUME JobsInv, [JobsNext]_jobVars PROVE Stands
  <2>1. ASSUME NEW d \in Drives, Ends(d)
        PROVE  Stands
    BY <1>1, <2>1, SettleKeeps, DriveFacts
  <2>2. ASSUME NEW d \in Drives, NEW t, Negotiated(d, t) PROVE Stands
    <3>1. Working(d) /\ overlapped' = overlapped
      BY <2>2 DEF Negotiated, Working
    <3>2. record[JobOf(d)].status \in Final => JobOf(d) \in overlapped
      BY <1>1, <3>1 DEF JobsInv, OneDrive, Final
    <3>3. \A j \in Jobs : j # JobOf(d) => record'[j] = record[j]
      BY <1>1, <2>2 DEF Negotiated, JobsInv, Shape
    <3> QED BY <3>1, <3>2, <3>3
  <2>3. record' = record \/ Stands
    BY <1>1, <2>1, <2>2
       DEF JobsNext, Drive, Ends, Create, CreateThrows, Snapshot, DeadlinePasses, RetentionPasses,
           Execute, TimerFires, Progress, jobVars
  <2> QED BY <2>3
<1>2. JobsInv /\ [JobsNext]_jobVars => [Stands]_jobVars
  BY <1>1
<1> QED BY <1>2, JobsInvariant, PTL DEF JobsSpec, EndStands

-----------------------------------------------------------------------------
(* The journals, and what a snapshot showed.                               *)

Rises(s) == \A k, l \in 1..Len(s) : k < l => s[k] < s[l]
UpTo(s, n) == \A k \in 1..Len(s) : s[k] <= n

\* A drive is at work for j that has reached every round in the journal.
Driven(j) == \E d \in Drives : JobOf(d) = j /\ Working(d) /\ UpTo(journal[j], drive[d].round)

\* The journal of a job whose drives never overlapped: as long as the job runs,
\* its one drive is ahead of the journal.
JournalFine(j) ==
  /\ journal[j] # NoJournal
  /\ Rises(journal[j])
  /\ IF record[j].status = "running" THEN Driven(j)
     ELSE journal[j][Len(journal[j])] = Ready => record[j].status = "ready"

JournalInv ==
  /\ journal \in [Jobs -> Seq(0..Ready)]
  /\ \A j \in Jobs \ overlapped : entry[j] = "kept" => JournalFine(j)

\* Who was shown an end finds it in the record from then on.
EndShown ==
  \A j \in Jobs : shown[j] \in Final => /\ record[j].status \in Final
                                        /\ entry[j] # "none"
                                        /\ entry[j] = "kept" \/ j \in aged

LEMMA JournalTypes ==
  /\ NoJournal \in Seq(0..Ready)
  /\ <<Created>> \in Seq(0..Ready)
  /\ \A s \in Seq(0..Ready) : \A m \in 0..Ready : Append(s, m) \in Seq(0..Ready)
<1>1. Created \in 0..Ready
  BY JobsAssumption DEF Created, Ready
<1> QED BY <1>1 DEF NoJournal

LEMMA AppendRises ==
  ASSUME NEW s \in Seq(0..Ready), NEW n \in 0..MaxRounds, NEW m \in 0..Ready,
         Rises(s), UpTo(s, n), n < m
  PROVE  LET t == Append(s, m)
         IN  /\ t \in Seq(0..Ready) /\ t # NoJournal /\ t[Len(t)] = m
             /\ Rises(t) /\ UpTo(t, m)
<1> DEFINE t == Append(s, m)
<1>1. /\ t \in Seq(0..Ready)
      /\ Len(s) \in Nat
      /\ Len(t) = Len(s) + 1
      /\ t[Len(t)] = m
      /\ \A k \in 1..Len(s) : t[k] = s[k] /\ s[k] \in 0..Ready /\ s[k] <= n
  BY JobsAssumption DEF UpTo, Ready
<1>2. t # NoJournal
  BY <1>1 DEF NoJournal
<1>3. UpTo(t, m)
  BY <1>1, JobsAssumption DEF UpTo, Ready
<1>4. Rises(t)
  BY <1>1, JobsAssumption DEF Rises, Ready
<1> QED BY <1>1, <1>2, <1>3, <1>4

\* A journal stays fine while nothing happens to it, its job and its drives.
LEMMA FineStays ==
  ASSUME NEW j \in Jobs, JournalFine(j),
         journal'[j] = journal[j], record'[j].status = record[j].status,
         \A d \in Drives : JobOf(d) = j /\ Working(d) =>
           Working(d)' /\ drive'[d].round = drive[d].round
  PROVE  JournalFine(j)'
<1>1. Driven(j) => Driven(j)'
  BY DEF Driven, UpTo
<1> QED BY <1>1 DEF JournalFine, Rises

LEMMA JournalBegins ==
  ASSUME JobsInv, JournalInv, NEW j \in Jobs, Create(j)
  PROVE  JournalInv'
<1> DEFINE d == <<j, 1>>
           slots == Unexpired(slot, None)
<1>1. d \in Drives /\ JobOf(d) = j
  BY JobsAssumption DEF Drives, JobOf
<1>2. /\ Begin(d, slots)
      /\ drive' = [drive EXCEPT ![d] = [at |-> "negotiating", round |-> 0]]
      /\ entry' = [Unexpired(entry, "dropped") EXCEPT ![j] = "kept"]
      /\ journal' = [Unexpired(journal, NoJournal) EXCEPT ![j] = <<Created>>]
      /\ record' = record
  BY DEF Create, Begin
<1>3. journal' \in [Jobs -> Seq(0..Ready)] /\ journal'[j] = <<Created>>
  <2>1. Unexpired(journal, NoJournal) \in [Jobs -> Seq(0..Ready)]
    BY JournalTypes DEF JournalInv, Unexpired
  <2> QED BY <1>2, <2>1, JournalTypes
<1>4. overlapped \subseteq overlapped'
  BY <1>2 DEF Begin
<1>5. record'[j].status = "running"
  BY <1>2 DEF Create, JobsInv, Untouched, Fresh
<1>6. Working(d)' /\ drive'[d].round = 0
  BY <1>1, <1>2 DEF JobsInv, Shape, Working
<1>7. JournalFine(j)'
  BY <1>1, <1>3, <1>5, <1>6 DEF JournalFine, Driven, Rises, UpTo, Created, NoJournal
<1>8. ASSUME NEW i \in Jobs \ overlapped', i # j, entry'[i] = "kept" PROVE JournalFine(i)'
  <2>1. entry[i] = "kept" /\ journal'[i] = journal[i]
    BY <1>2, <1>8 DEF Unexpired, JobsInv, Shape, JournalInv
  <2>2. \A e \in Drives : JobOf(e) = i => drive'[e] = drive[e]
    BY <1>1, <1>2, <1>8 DEF JobsInv, Shape
  <2>3. JournalFine(i)
    BY <1>4, <1>8, <2>1 DEF JournalInv
  <2> QED BY <1>2, <2>1, <2>2, <2>3, FineStays DEF Working
<1> QED BY <1>3, <1>7, <1>8 DEF JournalInv

\* A job that runs has a drive, so that another one overlaps with it.
LEMMA JournalExecuted ==
  ASSUME JobsInv, JournalInv, NEW d \in Drives, NEW extends \in BOOLEAN, Execute(d, extends)
  PROVE  JournalInv'
<1>1. /\ Begin(d, slot)
      /\ record[JobOf(d)].status = "running"
      /\ UNCHANGED <<entry, record, journal>>
  BY DEF Execute
<1>2. /\ drive' = [drive EXCEPT ![d] = [at |-> "negotiating", round |-> 0]]
      /\ overlapped' = IF AtWork(JobOf(d)) = {} THEN overlapped ELSE overlapped \cup {JobOf(d)}
  BY <1>1 DEF Begin
<1>3. ASSUME NEW i \in Jobs \ overlapped', entry'[i] = "kept" PROVE JournalFine(i)'
  <2>1. JournalFine(i)
    BY <1>1, <1>2, <1>3 DEF JournalInv
  <2>2. i # JobOf(d)
    BY <1>1, <1>2, <1>3, <2>1 DEF JournalFine, Driven, AtWork, Working
  <2>3. \A e \in Drives : JobOf(e) = i => drive'[e] = drive[e]
    BY <1>2, <2>2 DEF JobsInv, Shape
  <2> QED BY <1>1, <2>1, <2>3, FineStays DEF Working
<1> QED BY <1>1, <1>3 DEF JournalInv

LEMMA JournalPruned ==
  ASSUME JobsInv, JournalInv, NEW j \in Jobs, CreateThrows(j) \/ Snapshot(j)
  PROVE  JournalInv'
<1>1. /\ journal' = Unexpired(journal, NoJournal)
      /\ UNCHANGED <<record, drive, overlapped>>
      /\ \/ entry' = Unexpired(entry, "dropped")
         \/ entry' = [Unexpired(entry, "dropped") EXCEPT ![j] = "orphan"]
  BY DEF CreateThrows, Snapshot, Prune
<1>2. journal' \in [Jobs -> Seq(0..Ready)]
  BY <1>1, JournalTypes DEF JournalInv, Unexpired
<1>3. \A i \in Jobs : entry'[i] = "kept" => entry[i] = "kept" /\ journal'[i] = journal[i]
  BY <1>1 DEF Unexpired, JobsInv, Shape
<1>4. ASSUME NEW i \in Jobs \ overlapped', entry'[i] = "kept" PROVE JournalFine(i)'
  BY <1>1, <1>3, <1>4, FineStays DEF JournalInv, Working
<1> QED BY <1>2, <1>4 DEF JournalInv

\* What leaves the journals alone, and the jobs in their stages.
LEMMA JournalAlone ==
  ASSUME JobsInv, JournalInv,
         UNCHANGED <<entry, journal, overlapped>>,
         \A j \in Jobs : record'[j].status = record[j].status,
         \A d \in Drives : (Working(d) => Working(d)') /\ drive'[d].round = drive[d].round
  PROVE  JournalInv'
<1>1. ASSUME NEW i \in Jobs \ overlapped', entry'[i] = "kept" PROVE JournalFine(i)'
  BY <1>1, FineStays DEF JournalInv
<1> QED BY <1>1 DEF JournalInv

LEMMA JournalGrows ==
  ASSUME JobsInv, JournalInv, NEW d \in Drives, Progress(d)
  PROVE  JournalInv'
<1> DEFINE j == JobOf(d)
           n == drive[d].round
<1>1. /\ drive[d].at = "core" /\ n < MaxRounds
      /\ drive' = [drive EXCEPT ![d].round = n + 1]
      /\ UNCHANGED <<entry, record, overlapped>>
  BY DEF Progress
<1>2. PICK s \in Offered(journal[j], n + 1) : journal' = [journal EXCEPT ![j] = s]
  BY DEF Progress
<1>3. j \in Jobs /\ n \in 0..MaxRounds /\ n + 1 \in 0..Ready /\ n + 1 \in 0..MaxRounds
  BY <1>1, DriveFacts, JobsAssumption DEF JobsInv, Shape, Ready
<1>4. s \in Seq(0..Ready)
  <2>1. journal[j] \in Seq(0..Ready)
    BY <1>3 DEF JournalInv
  <2> QED BY <1>2, <1>3, <2>1, JournalTypes DEF Offered
<1>5. ASSUME j \notin overlapped, entry[j] = "kept" PROVE JournalFine(j)'
  <2>1. JournalFine(j) /\ record[j].status = "running"
    BY <1>1, <1>3, <1>5 DEF JournalInv, JobsInv, OneDrive, Working
  <2>2. UpTo(journal[j], n)
    BY <1>1, <1>5, <2>1 DEF JournalFine, Driven, JobsInv, OneDrive, Working
  <2>3. s # NoJournal /\ Rises(s) /\ UpTo(s, n + 1)
    <3>1. CASE s = journal[j]
      <4>1. \A k \in 1..Len(s) : s[k] \in Int
        BY <1>4, JobsAssumption DEF Ready
      <4> QED BY <1>3, <2>1, <2>2, <3>1, <4>1 DEF JournalFine, UpTo
    <3>2. CASE s = Append(journal[j], n + 1)
      <4>1. journal[j] \in Seq(0..Ready)
        BY <1>3 DEF JournalInv
      <4> QED BY <1>3, <2>1, <2>2, <3>2, <4>1, AppendRises, JobsAssumption DEF JournalFine
    <3> QED BY <1>2, <3>1, <3>2 DEF Offered
  <2>4. Working(d)' /\ drive'[d].round = n + 1
    BY <1>1 DEF JobsInv, Shape, Working
  <2>5. journal'[j] = s /\ record'[j].status = "running"
    BY <1>1, <1>2, <1>3, <2>1 DEF JournalInv
  <2>6. Driven(j)'
    BY <2>3, <2>4, <2>5 DEF Driven
  <2> QED BY <2>3, <2>5, <2>6 DEF JournalFine
<1>6. ASSUME NEW i \in Jobs \ overlapped', i # j, entry'[i] = "kept" PROVE JournalFine(i)'
  <2>1. entry[i] = "kept" /\ journal'[i] = journal[i] /\ JournalFine(i) /\ record'[i] = record[i]
    BY <1>1, <1>2, <1>6 DEF JournalInv
  <2>2. \A e \in Drives : JobOf(e) = i => drive'[e] = drive[e]
    BY <1>1, <1>6 DEF JobsInv, Shape
  <2> QED BY <2>1, <2>2, FineStays DEF Working
<1>7. journal' \in [Jobs -> Seq(0..Ready)]
  BY <1>2, <1>4 DEF JournalInv
<1> QED BY <1>1, <1>5, <1>6, <1>7 DEF JournalInv

\* The drive d settles.  The journal is closed only if the job is ready.
LEMMA JournalEnds ==
  ASSUME JobsInv, JournalInv, NEW d \in Drives, Ends(d)
  PROVE  JournalInv'
<1> DEFINE j == JobOf(d)
           n == drive[d].round
           s == journal'[j]
<1>1. /\ Working(d)
      /\ drive' = [drive EXCEPT ![d].at = "settled"]
      /\ UNCHANGED <<entry, overlapped>>
  BY EndSettles DEF Settles
<1>2. j \in Jobs /\ n \in 0..MaxRounds /\ n < Ready /\ Ready \in 0..Ready
  BY DriveFacts, JobsAssumption DEF JobsInv, Shape, Ready
<1>3. /\ journal' \in [Jobs -> Seq(0..Ready)]
      /\ \A i \in Jobs : i # j => journal'[i] = journal[i]
      /\ \/ s = journal[j] /\ record'[j].status \in Final
         \/ s = Append(journal[j], Ready) /\ record'[j].status = "ready"
  <2>1. CASE Succeeds(d)
    <3>1. PICK t \in IF journal[j] = NoJournal THEN {NoJournal} ELSE Offered(journal[j], Ready) :
            journal' = [journal EXCEPT ![j] = t]
      BY <2>1 DEF Succeeds
    <3>2. t = journal[j] \/ t = Append(journal[j], Ready)
      BY <3>1 DEF Offered
    <3>3. t \in Seq(0..Ready)
      <4>1. journal[j] \in Seq(0..Ready)
        BY <1>2 DEF JournalInv
      <4> QED BY <1>2, <3>2, <4>1, JournalTypes
    <3>4. record'[j].status = "ready"
      <4>1. record[j] \in Records
        BY <1>2 DEF JobsInv, Shape
      <4>2. record'[j] = [record[j] EXCEPT !.result = "full", !.status = "ready"]
        BY <1>2, <2>1 DEF Succeeds, JobsInv, Shape
      <4> QED BY <4>1, <4>2 DEF Records
    <3> QED BY <1>2, <3>1, <3>2, <3>3, <3>4 DEF JournalInv, Final
  <2>2. CASE ResultThrows(d) \/ \E error \in {"failed", "deadline"} : Fails(d, error)
    <3>1. journal' = journal
      BY <2>2 DEF ResultThrows, Fails
    <3> QED BY <1>2, <3>1, SettleKeeps DEF JournalInv
  <2> QED BY <2>1, <2>2 DEF Ends
<1>4. ASSUME j \notin overlapped, entry[j] = "kept" PROVE JournalFine(j)'
  <2>1. JournalFine(j) /\ record[j].status = "running"
    BY <1>1, <1>2, <1>4 DEF JournalInv, JobsInv, OneDrive
  <2>2. UpTo(journal[j], n)
    BY <1>1, <1>4, <2>1 DEF JournalFine, Driven, JobsInv, OneDrive
  <2>3. journal[j] \in Seq(0..Ready) /\ journal[j] # NoJournal /\ Rises(journal[j])
    BY <1>2, <2>1 DEF JournalInv, JournalFine
  <2>4. CASE s = journal[j] /\ record'[j].status \in Final
    <3>1. s[Len(s)] # Ready
      BY <1>2, <2>2, <2>3, <2>4, JobsAssumption DEF UpTo, NoJournal, Ready
    <3> QED BY <2>3, <2>4, <3>1 DEF JournalFine, Final
  <2>5. CASE s = Append(journal[j], Ready) /\ record'[j].status = "ready"
    BY <1>2, <2>2, <2>3, <2>5, AppendRises DEF JournalFine
  <2> QED BY <1>3, <2>4, <2>5
<1>5. ASSUME NEW i \in Jobs \ overlapped', i # j, entry'[i] = "kept" PROVE JournalFine(i)'
  <2>1. JournalFine(i) /\ journal'[i] = journal[i] /\ record'[i] = record[i]
    BY <1>1, <1>3, <1>5, SettleKeeps DEF JournalInv
  <2>2. \A e \in Drives : JobOf(e) = i => drive'[e] = drive[e]
    BY <1>1, <1>5 DEF JobsInv, Shape
  <2> QED BY <2>1, <2>2, FineStays DEF Working
<1> QED BY <1>1, <1>3, <1>4, <1>5 DEF JournalInv

LEMMA JournalKept == ASSUME JobsInv, JournalInv, [JobsNext]_jobVars PROVE JournalInv'
<1>1. ASSUME NEW d \in Drives, NEW t, Negotiated(d, t) PROVE JournalInv'
  <2>1. \A j \in Jobs : record'[j].status = record[j].status
    BY <1>1, DriveFacts DEF Negotiated, JobsInv, Shape, Records
  <2>2. \A e \in Drives : (Working(e) => Working(e)') /\ drive'[e].round = drive[e].round
    BY <1>1 DEF Negotiated, JobsInv, Shape, Working
  <2> QED BY <1>1, <2>1, <2>2, JournalAlone DEF Negotiated
<1>2. ASSUME NEW d \in Drives, TimerFires(d) PROVE JournalInv'
  BY <1>2, JournalAlone DEF TimerFires, Working
<1>3. ASSUME NEW d \in Drives, Drive(d) PROVE JournalInv'
  BY <1>1, <1>2, <1>3, JournalGrows, JournalEnds DEF Drive, Ends
<1>4. ASSUME NEW j \in Jobs, DeadlinePasses(j) \/ RetentionPasses(j) PROVE JournalInv'
  BY <1>4, JournalAlone DEF DeadlinePasses, RetentionPasses, Working
<1>5. CASE UNCHANGED jobVars
  BY <1>5, JournalAlone DEF jobVars, Working
<1>6. ASSUME NEW d \in Drives, NEW extends \in BOOLEAN, Execute(d, extends) PROVE JournalInv'
  BY <1>6, JournalExecuted
<1>7. ASSUME NEW j \in Jobs, Create(j) \/ CreateThrows(j) \/ Snapshot(j) PROVE JournalInv'
  BY <1>7, JournalBegins, JournalPruned
<1> QED BY <1>3, <1>4, <1>5, <1>6, <1>7 DEF JobsNext

\* The journal of a job that callers can find replays, unless two of its drives
\* were at work at a time: recordProgress and completeJournal write to it only
\* from the one drive, whose rounds go up and which ends with the job.
THEOREM JournalAlwaysReplays == JobsSpec => []JournalReplays
<1>1. JobsInit => JournalInv
  BY JobsAssumption DEF JobsInit, JournalInv, NoJournal
<1>2. JobsInv /\ JournalInv /\ [JobsNext]_jobVars => JournalInv'
  BY JournalKept
<1>3. ASSUME JobsInv, JournalInv PROVE JournalReplays
  <2> SUFFICES ASSUME NEW j \in Jobs \ overlapped, entry[j] = "kept"
               PROVE  /\ Rises(journal[j])
                      /\ journal[j][Len(journal[j])] = Ready => record[j].status = "ready"
    BY DEF JournalReplays, Rises
  <2>1. JournalFine(j) /\ journal[j] \in Seq(0..Ready)
    BY <1>3 DEF JournalInv
  <2>2. CASE record[j].status = "running"
    <3>1. PICK d \in Drives : UpTo(journal[j], drive[d].round)
      BY <2>1, <2>2 DEF JournalFine, Driven
    <3>2. drive[d].round \in 0..MaxRounds
      BY <1>3 DEF JobsInv, Shape
    <3>3. Len(journal[j]) \in 1..Len(journal[j])
      BY <2>1 DEF JournalFine, NoJournal
    <3>4. journal[j][Len(journal[j])] # Ready
      BY <2>1, <3>1, <3>2, <3>3, JobsAssumption DEF UpTo, Ready
    <3> QED BY <2>1, <3>4 DEF JournalFine
  <2> QED BY <2>1, <2>2 DEF JournalFine
<1> QED BY <1>1, <1>2, <1>3, JobsInvariant, PTL DEF JobsSpec

\* An end that a snapshot showed is in the registry until the retention of the
\* result is over: expiry never applies the run deadline to a job that ended.
THEOREM EndAlwaysReadable == JobsSpec => []EndIsReadable
<1>1. JobsInit => EndShown
  BY DEF JobsInit, EndShown, Final
<1>2. ASSUME JobsInv, EndShown, [JobsNext]_jobVars PROVE EndShown'
  <2>1. ASSUME UNCHANGED <<entry, shown>>, aged \subseteq aged',
               \A j \in Jobs : record[j].status \in Final => record'[j].status \in Final
        PROVE  EndShown'
    BY <1>2, <2>1 DEF EndShown
  <2>2. ASSUME NEW d \in Drives, NEW t, Negotiated(d, t) PROVE EndShown'
    <3>1. \A j \in Jobs : record'[j].status = record[j].status
      BY <1>2, <2>2, DriveFacts DEF Negotiated, JobsInv, Shape, Records
    <3> QED BY <2>1, <2>2, <3>1 DEF Negotiated
  <2>3. ASSUME NEW d \in Drives, Ends(d)
        PROVE  EndShown'
    <3>1. record'[JobOf(d)].status \in Final
      BY <1>2, <2>3, SettleKeeps
    <3>2. \A j \in Jobs : j # JobOf(d) => record'[j] = record[j]
      BY <1>2, <2>3, SettleKeeps
    <3>3. /\ UNCHANGED <<entry, shown>>
          /\ \A j \in Jobs : j \in aged => entry[j] = "kept" \/ j \in aged'
      BY <2>3, EndSettles DEF Settles, Renewed
    <3> QED BY <1>2, <3>1, <3>2, <3>3 DEF EndShown
  <2>4. ASSUME NEW d \in Drives, Drive(d) PROVE EndShown'
    <3>1. CASE Progress(d) \/ TimerFires(d)
      BY <2>1, <3>1 DEF Progress, TimerFires
    <3> QED BY <2>2, <2>3, <2>4, <3>1 DEF Drive, Ends
  <2>5. ASSUME NEW d \in Drives, NEW extends \in BOOLEAN, Execute(d, extends) PROVE EndShown'
    BY <2>1, <2>5 DEF Execute
  <2>6. ASSUME NEW j \in Jobs, DeadlinePasses(j) \/ RetentionPasses(j) PROVE EndShown'
    BY <2>1, <2>6 DEF DeadlinePasses, RetentionPasses
  <2>7. ASSUME NEW j \in Jobs, Create(j) \/ CreateThrows(j) PROVE EndShown'
    <3>1. /\ UNCHANGED <<record, aged, shown>>
          /\ entry[j] = "none"
          /\ \/ entry' = [Unexpired(entry, "dropped") EXCEPT ![j] = "kept"]
             \/ entry' = [Unexpired(entry, "dropped") EXCEPT ![j] = "orphan"]
      BY <2>7 DEF Create, CreateThrows
    <3>2. \A i \in Jobs : i # j => entry'[i] = IF Expired(i) THEN "dropped" ELSE entry[i]
      BY <1>2, <3>1 DEF Unexpired, JobsInv, Shape
    <3> QED BY <1>2, <3>1, <3>2 DEF EndShown, Expired, Final
  <2>8. ASSUME NEW j \in Jobs, Snapshot(j) PROVE EndShown'
    <3>1. /\ UNCHANGED <<record, aged>>
          /\ entry' = Unexpired(entry, "dropped")
          /\ shown' = IF entry'[j] = "kept" /\ record[j].status \in Final
                      THEN [shown EXCEPT ![j] = record[j].status] ELSE shown
      BY <2>8 DEF Snapshot, Prune
    <3>2. \A i \in Jobs : entry'[i] = IF Expired(i) THEN "dropped" ELSE entry[i]
      BY <3>1 DEF Unexpired
    <3>3. \A i \in Jobs : shown'[i] = shown[i]
                          \/ (i = j /\ entry'[j] = "kept" /\ record[j].status \in Final)
      BY <3>1
    <3> QED BY <1>2, <3>1, <3>2, <3>3 DEF EndShown, Expired, Final
  <2>9. CASE UNCHANGED jobVars
    BY <2>1, <2>9 DEF jobVars
  <2> QED BY <1>2, <2>4, <2>5, <2>6, <2>7, <2>8, <2>9 DEF JobsNext
<1>3. EndShown => EndIsReadable
  BY DEF EndShown, EndIsReadable
<1> QED BY <1>1, <1>2, <1>3, JobsInvariant, PTL DEF JobsSpec
=============================================================================
