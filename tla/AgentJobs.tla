----------------------------- MODULE AgentJobs -----------------------------
(***************************************************************************)
(* The registry of agent jobs (web/agent/agent-jobs.ts): jobs that are     *)
(* driven in the background, polled, and dropped when they expire.  A      *)
(* drive races a timer; losing the race rejects the callers but does not   *)
(* stop the drive.  Everything between two awaits is one step.  A job's    *)
(* record is an object that its drives hold, in the registry or not.       *)
(***************************************************************************)
EXTENDS Integers, FiniteSets, Sequences

CONSTANTS
  Jobs,       \* the jobs that are created
  MaxDrives,  \* bound: drives that a job can have
  MaxRounds,  \* bound: rounds of the agent core in a drive
  None        \* no drive

ASSUME JobsAssumption == /\ MaxDrives \in Nat \ {0}
                         /\ MaxRounds \in Nat
                         /\ None \notin Jobs \X (1..MaxDrives)

Drives == Jobs \X (1..MaxDrives)
JobOf(d) == d[1]

VARIABLES
  entry,     \* store.jobs: is the job's record in it, and known to a caller
  record,    \* the record of each job
  late,      \* jobs created longer ago than their run deadline
  aged,      \* jobs that ended longer ago than the retention of results
  slot,      \* inFlight: the drive that callers of executeAgentJob share
  drive,     \* each drive: how far it is, and the round the core is in
  journal,   \* jobJournals: the journal of each job, if it has one
  shown,     \* history: the last end that a snapshot showed
  overlapped \* history: jobs with two drives at work at a time

jobVars == <<entry, record, late, aged, slot, drive, journal, shown, overlapped>>

Final == {"ready", "failed"}

\* A record as createAgentJobEntry makes it: no RPC endpoint, so standalone.
Fresh == [status |-> "running", result |-> "none", error |-> "none",
          transport |-> "standalone"]

\* driveAgentJob between its awaits: not begun, negotiating the leaf
\* transport, in the agent core, settled.
DriveStages == {"unused", "negotiating", "core", "settled"}

NoDrive   == [at |-> "unused", round |-> 0]

\* A journal is what replayable looks at: the creation, the rounds of the
\* other events, and JobReady.
NoJournal == <<>>
Created   == 0
Ready     == MaxRounds + 1

AtWork(j) == {d \in Drives : JobOf(d) = j /\ drive[d].at \in {"negotiating", "core"}}

JobsInit == /\ entry = [j \in Jobs |-> "none"]
            /\ record = [j \in Jobs |-> Fresh]
            /\ late = {}
            /\ aged = {}
            /\ slot = [j \in Jobs |-> None]
            /\ drive = [d \in Drives |-> NoDrive]
            /\ journal = [j \in Jobs |-> NoJournal]
            /\ shown = [j \in Jobs |-> "none"]
            /\ overlapped = {}

-----------------------------------------------------------------------------
(* Expiry.                                                                 *)

\* Mutant of Expired: one time to live for running and for finished jobs.
ExpiredLate(j) == entry[j] = "kept" /\ j \in late

\* expired: a running job after its deadline, a finished one after retention.
Expired(j) == /\ entry[j] \in {"kept", "orphan"}
              /\ IF record[j].status = "running" THEN j \in late ELSE j \in aged

\* What of the map m is left when expired jobs have gone.
Unexpired(m, nothing) == [j \in Jobs |-> IF Expired(j) THEN nothing ELSE m[j]]

\* prune: whatever is kept under the id of an expired job goes.
Prune == /\ entry' = Unexpired(entry, "dropped")
         /\ journal' = Unexpired(journal, NoJournal)
         /\ slot' = Unexpired(slot, None)

-----------------------------------------------------------------------------
(* Callers.                                                                *)

\* The drive d of a running job begins; callers share it from here on.
Begin(d, slots) ==
  /\ drive[d].at = "unused"
  /\ d[2] > 1 => drive[<<d[1], d[2] - 1>>].at # "unused"
  /\ drive' = [drive EXCEPT ![d] = [at |-> "negotiating", round |-> 0]]
  /\ slot' = [slots EXCEPT ![JobOf(d)] = d]
  /\ overlapped' = IF AtWork(JobOf(d)) = {} THEN overlapped
                   ELSE overlapped \cup {JobOf(d)}

\* A deadline out of range is rejected after the registration: the record
\* stays, though its id was handed to nobody and nothing drives it.
CreateThrows(j) ==
  /\ entry[j] = "none"
  /\ entry' = [Unexpired(entry, "dropped") EXCEPT ![j] = "orphan"]
  /\ journal' = Unexpired(journal, NoJournal)
  /\ slot' = Unexpired(slot, None)
  /\ UNCHANGED <<record, late, aged, drive, shown, overlapped>>

\* createAgentJobEntry: expired jobs go; the job is registered, its journal
\* opened, and its first drive begun.
Create(j) ==
  /\ entry[j] = "none"
  /\ entry' = [Unexpired(entry, "dropped") EXCEPT ![j] = "kept"]
  /\ journal' = [Unexpired(journal, NoJournal) EXCEPT ![j] = <<Created>>]
  /\ Begin(<<j, 1>>, Unexpired(slot, None))
  /\ UNCHANGED <<record, late, aged, shown>>

\* Mutant of Execute: a job that is over is driven once more.
ExecuteAgain(d, extends) ==
  LET j == JobOf(d) IN
  /\ entry[j] = "kept"
  /\ slot[j] = None
  /\ late' = IF extends THEN late \ {j} ELSE late
  /\ Begin(d, slot)
  /\ UNCHANGED <<entry, record, aged, journal, shown>>

\* executeAgentJob with no drive to share: nothing is pruned first, a later
\* deadline may be given, and a job that is running gets another drive.  (For
\* a job that is over it answers the record, for one that is gone it throws.)
Execute(d, extends) ==
  LET j == JobOf(d) IN
  /\ entry[j] = "kept"
  /\ slot[j] = None
  /\ late' = IF extends THEN late \ {j} ELSE late
  /\ record[j].status = "running"
  /\ Begin(d, slot)
  /\ UNCHANGED <<entry, record, aged, journal, shown>>

\* getAgentJobSnapshot, hasUnexpiredJob: expired jobs go, then j is shown.
Snapshot(j) ==
  /\ Prune
  /\ shown' = IF entry'[j] = "kept" /\ record[j].status \in Final
              THEN [shown EXCEPT ![j] = record[j].status] ELSE shown
  /\ UNCHANGED <<record, late, aged, drive, overlapped>>

\* Only the clock: the deadline counts from the creation of the job, the
\* retention from its end.
DeadlinePasses(j) == /\ entry[j] \in {"kept", "orphan"}
                     /\ late' = late \cup {j}
                     /\ UNCHANGED <<entry, record, aged, slot, drive, journal, shown, overlapped>>

RetentionPasses(j) == /\ entry[j] = "kept"
                      /\ record[j].status \in Final
                      /\ aged' = aged \cup {j}
                      /\ UNCHANGED <<entry, record, late, slot, drive, journal, shown, overlapped>>

-----------------------------------------------------------------------------
(* The drive, and the timer it races.                                      *)

\* The promise of d settles: the slot is cleared if it is still d's.
Cleared(d) == [slot EXCEPT ![JobOf(d)] = IF @ = d THEN None ELSE @]

\* Mutant of TimerFires: the callers are rejected, the slot stays taken.
TimerFiresOnly(d) == /\ slot[JobOf(d)] = d
                     /\ UNCHANGED jobVars

\* driveWithTimeout: the deadline of the drive comes first; the drive goes on.
TimerFires(d) ==
  /\ slot[JobOf(d)] = d
  /\ slot' = Cleared(d)
  /\ UNCHANGED <<entry, record, late, aged, drive, journal, shown, overlapped>>

\* negotiateLeafTransport: with no provider the transport stays as it is.
Negotiated(d, transport) ==
  /\ drive[d].at = "negotiating"
  /\ record' = [record EXCEPT ![JobOf(d)].transport = transport]
  /\ drive' = [drive EXCEPT ![d].at = "core"]
  /\ UNCHANGED <<entry, late, aged, slot, journal, shown, overlapped>>

\* What the journal s can be after an event is offered: it may be full.
Offered(s, event) == {Append(s, event)} \cup ({s} \ {NoJournal})

\* onProgress: the rounds go into the journal, which is made if there is none.
Progress(d) ==
  LET j == JobOf(d) IN
  /\ drive[d].at = "core"
  /\ drive[d].round < MaxRounds
  /\ drive' = [drive EXCEPT ![d].round = @ + 1]
  /\ \E s \in Offered(journal[j], drive[d].round + 1) :
       journal' = [journal EXCEPT ![j] = s]
  /\ UNCHANGED <<entry, record, late, aged, slot, shown, overlapped>>

\* updatedAt is renewed, whether or not the job was over already.  (For a job
\* that expiry has dropped it makes no difference.)
Renewed(j) == IF entry[j] = "kept" THEN aged \ {j} ELSE aged

\* The drive is over, one way or the other.
Settles(d) == /\ drive' = [drive EXCEPT ![d].at = "settled"]
              /\ slot' = Cleared(d)
              /\ aged' = Renewed(JobOf(d))
              /\ UNCHANGED <<entry, late, shown, overlapped>>

\* The core returns: the job is ready and its journal, if any, is closed.
Succeeds(d) ==
  LET j == JobOf(d) IN
  /\ drive[d].at = "core"
  /\ record' = [record EXCEPT ![j] = [@ EXCEPT !.result = "full", !.status = "ready"]]
  /\ \E s \in IF journal[j] = NoJournal THEN {NoJournal} ELSE Offered(journal[j], Ready) :
       journal' = [journal EXCEPT ![j] = s]
  /\ Settles(d)

\* The core returns what cannot be encoded for JobReady: the job was ready, and
\* fails with its result.
ResultThrows(d) ==
  /\ drive[d].at = "core"
  /\ record' = [record EXCEPT ![JobOf(d)] =
       [@ EXCEPT !.result = "full", !.status = "failed", !.error = "failed"]]
  /\ Settles(d)
  /\ UNCHANGED journal

\* Mutant of Fails: the journal of a failed job is closed too.
FailsClosed(d, error) ==
  LET j == JobOf(d) IN
  /\ drive[d].at \in {"negotiating", "core"}
  /\ record' = [record EXCEPT ![j].status = "failed", ![j].error = error]
  /\ journal' = [journal EXCEPT ![j] = IF @ = NoJournal THEN @ ELSE Append(@, Ready)]
  /\ Settles(d)

\* The drive throws: past the deadline the job keeps the warnings so far as
\* its result; otherwise a job with no result names no transport.
Fails(d, error) ==
  LET j == JobOf(d) IN
  /\ drive[d].at \in {"negotiating", "core"}
  /\ error = "deadline" => drive[d].at = "core"
  /\ record' = [record EXCEPT ![j] =
       [status    |-> "failed",
        error     |-> error,
        result    |-> IF error = "deadline" THEN "degraded" ELSE @.result,
        transport |-> IF error = "failed" /\ @.result = "none"
                      THEN "standalone" ELSE @.transport]]
  /\ Settles(d)
  /\ UNCHANGED journal

-----------------------------------------------------------------------------
Drive(d) == \/ \E t \in {record[JobOf(d)].transport, "standalone", "leaf-runtime"} :
                 Negotiated(d, t)
            \/ Progress(d)
            \/ Succeeds(d)
            \/ ResultThrows(d)
            \/ \E error \in {"failed", "deadline"} : Fails(d, error)
            \/ TimerFires(d)

JobsNext == \/ \E j \in Jobs : \/ Create(j) \/ CreateThrows(j) \/ Snapshot(j)
                               \/ DeadlinePasses(j) \/ RetentionPasses(j)
            \/ \E d \in Drives : Drive(d) \/ \E extends \in BOOLEAN : Execute(d, extends)

JobsSpec == JobsInit /\ [][JobsNext]_jobVars

\* Timers fire; the drives themselves may hang.
JobsFairSpec == JobsSpec /\ \A d \in Drives : WF_jobVars(TimerFires(d))

-----------------------------------------------------------------------------
(* Properties.                                                             *)

Records == [status : {"running"} \cup Final,
            result : {"none", "full", "degraded"},
            error : {"none", "failed", "deadline"},
            transport : {"standalone", "leaf-runtime"}]

\* Each variable has its kind of value.
JobsTypeOK ==
  /\ entry \in [Jobs -> {"none", "kept", "orphan", "dropped"}]
  /\ record \in [Jobs -> Records]
  /\ late \subseteq Jobs /\ aged \subseteq Jobs /\ overlapped \subseteq Jobs
  /\ slot \in [Jobs -> Drives \cup {None}]
  /\ drive \in [Drives -> [at : DriveStages, round : 0..MaxRounds]]
  /\ shown \in [Jobs -> {"none"} \cup Final]

\* A job that is over stays as it is, unless two drives of it were at work at
\* a time: neither the timer, nor expiry, nor a later executeAgentJob, nor
\* what a drive does after its timer fired changes its record.
EndStands ==
  [][\A j \in Jobs : record[j].status \in Final /\ j \notin overlapped'
                     => record'[j] = record[j]]_jobVars

\* A journal that can be read replays: rounds go up, and it is closed once,
\* at its end, and only for a job that is ready.  Two drives at work at a
\* time break this, too.
JournalReplays ==
  \A j \in Jobs \ overlapped :
    entry[j] = "kept" =>
      LET s == journal[j] IN
      /\ \A k, l \in 1..Len(s) : k < l => s[k] < s[l]
      /\ s[Len(s)] = Ready => record[j].status = "ready"

\* A ready job has the result of a whole run, whatever other drives did.
ReadyHasResult == \A j \in Jobs : record[j].status = "ready" => record[j].result = "full"

\* An end that a snapshot showed can be read until its retention is over,
\* even if the job was past its run deadline when it ended.
EndIsReadable ==
  \A j \in Jobs : shown[j] \in Final => entry[j] = "kept" \/ j \in aged

\* A drive that callers share is at work for a job that they can find:
\* expiry drops the handle with the record.
SlotIsLive == \A j \in Jobs : slot[j] # None => entry[j] = "kept" /\ slot[j] \in AtWork(j)

\* A hung drive does not hold the slot of its job: whoever waits is answered.
SlotIsFreed == \A j \in Jobs : slot[j] # None ~> slot[j] = None

=============================================================================
