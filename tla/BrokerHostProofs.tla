-------------------------- MODULE BrokerHostProofs --------------------------
(***************************************************************************)
(* Until the first process exits, the lock excludes, for any number of     *)
(* contending processes (afterwards it may not: RemovesOnlyDeadLocks); and *)
(* so one broker at most is meant to run.  A host that stops leaves nothing *)
(* behind, whoever was killed, unless the file system fails it.            *)
(***************************************************************************)
EXTENDS BrokerHost, TLAPS

-----------------------------------------------------------------------------
(* The lock by itself.                                                     *)

\* Nobody exited, so no record is ever taken for stale and nothing is removed
\* but by its owner.
Quiet == /\ \A p \in Procs : pc[p] \in Owning => file.by = p
         /\ file.written => file.by \in Procs
         /\ \A p \in Procs : pc[p] \notin {"remove", "retake"}
         /\ \A p \in Procs : pc[p] = "check" => saw[p] \in Procs

LockInv == /\ LockTypeOK
           /\ \A p \in Procs : pc[p] \in {"idle", "open", "read"} => tries[p] < MaxAttempts
           /\ NobodyExited => Quiet

LEMMA OwnersAgree == LockInv => SingleOwner /\ OwnerKeepsFile
  BY LockAssumption DEF LockInv, Quiet, OwnerKeepsFile, SingleOwner

LEMMA LockInvInit == LockInit => LockInv
  BY DEF LockInit, LockInv, Quiet, LockTypeOK, NoFile, Files, Steps, Owning,
         Recovering, Refused, Failed, Released, MaxAttempts

LEMMA LockTypeStep == LockInv /\ [LockNext]_lockVars => LockTypeOK'
<1> SUFFICES ASSUME LockInv, [LockNext]_lockVars PROVE LockTypeOK'
  OBVIOUS
<1> USE DEF LockInv, LockTypeOK
<1>1. CASE UNCHANGED lockVars
  BY <1>1 DEF lockVars
<1>2. ASSUME NEW p \in Procs, NEW step \in Steps, Goto(p, step),
             file' \in Files, saw' \in [Procs -> Procs \cup {NoProc}],
             tries' \in [Procs -> 0..MaxAttempts]
      PROVE  LockTypeOK'
  BY <1>2 DEF Goto
<1>3. /\ Owning \cup Recovering \cup Refused \cup Released \subseteq Steps
      /\ {"open", "read", "exited"} \subseteq Steps
  BY DEF Steps
<1> USE DEF Owning, Recovering, Refused, Failed, Released
<1>4. ASSUME NEW p \in Procs, Acquire(p) \/ Collide(p) \/ CallFailed(p) \/ ReadGarbage(p)
                              \/ CheckOwner(p) \/ BeginRelease(p) \/ ReleaseFailed(p)
                              \/ Exit(p)
      PROVE  LockTypeOK'
  <2>1. \E step \in Steps : Goto(p, step)
    BY <1>3, <1>4 DEF Acquire, Collide, CallFailed, ReadGarbage, CheckOwner, BeginRelease,
                      ReleaseFailed, Exit
  <2>2. UNCHANGED <<file, saw, tries>>
    BY <1>4 DEF Acquire, Collide, CallFailed, ReadGarbage, CheckOwner, BeginRelease,
                ReleaseFailed, Exit
  <2> QED
    BY <1>2, <2>1, <2>2
<1>5. ASSUME NEW p \in Procs,
             Create(p) \/ Write(p) \/ WriteFailed(p) \/ Remove(p) \/ EndRelease(p)
      PROVE  LockTypeOK'
  <2>1. \E step \in Steps : Goto(p, step)
    BY <1>3, <1>5 DEF Create, Write, WriteFailed, Remove, EndRelease
  <2>2. file' \in Files /\ UNCHANGED <<saw, tries>>
    <3>1. CASE Write(p) \/ WriteFailed(p)
      BY <3>1 DEF Write, WriteFailed, Files
    <3>2. CASE Create(p)
      BY <3>2 DEF Create, Files
    <3>3. CASE Remove(p) \/ EndRelease(p)
      <4>1. NoFile \in Files
        BY DEF NoFile, Files
      <4> QED
        BY <3>3, <4>1 DEF Remove, EndRelease
    <3> QED
      BY <1>5, <3>1, <3>2, <3>3
  <2> QED
    BY <1>2, <2>1, <2>2
<1>6. ASSUME NEW p \in Procs, ReadRecord(p) PROVE LockTypeOK'
  BY <1>2, <1>3, <1>6 DEF ReadRecord, Files
<1>7. ASSUME NEW p \in Procs, ReadGone(p) PROVE LockTypeOK'
  <2>1. \E step \in Steps : Goto(p, step)
    BY <1>3, <1>7 DEF ReadGone
  <2>2. tries' \in [Procs -> 0..MaxAttempts]
    BY <1>7 DEF ReadGone, MaxAttempts
  <2> QED
    BY <1>2, <1>7, <2>1, <2>2 DEF ReadGone
<1> QED
  BY <1>1, <1>4, <1>5, <1>6, <1>7
     DEF LockNext, AcquireStep, AcquireFailed, ReleaseStep

\* An exited process stays exited.
LEMMA ExitIsFinal ==
  ASSUME LockTypeOK, [LockNext]_lockVars, NobodyExited'
  PROVE  NobodyExited
<1> USE DEF LockTypeOK, NobodyExited, Exited, Goto
<1>1. CASE UNCHANGED lockVars
  BY <1>1 DEF lockVars
<1>2. ASSUME NEW p \in Procs, AcquireStep(p) \/ AcquireFailed(p) PROVE NobodyExited
  BY <1>2 DEF AcquireStep, AcquireFailed, Create, Collide, Write, WriteFailed,
              CallFailed, ReadGone, ReadGarbage, ReadRecord, CheckOwner, Remove
<1>3. ASSUME NEW p \in Procs,
             Acquire(p) \/ ReleaseStep(p) \/ ReleaseFailed(p) \/ Exit(p)
      PROVE  NobodyExited
  BY <1>3 DEF Acquire, ReleaseStep, BeginRelease, EndRelease, ReleaseFailed, Exit
<1> QED
  BY <1>1, <1>2, <1>3 DEF LockNext

LEMMA AttemptsStep ==
  ASSUME LockInv, [LockNext]_lockVars
  PROVE  \A p \in Procs : pc'[p] \in {"idle", "open", "read"} => tries'[p] < MaxAttempts
<1> USE DEF LockInv, LockTypeOK, Goto
<1>1. CASE UNCHANGED lockVars
  BY <1>1 DEF lockVars
<1>2. ASSUME NEW p \in Procs, AcquireStep(p) \/ AcquireFailed(p)
      PROVE  \A q \in Procs : pc'[q] \in {"idle", "open", "read"} => tries'[q] < MaxAttempts
  BY <1>2 DEF AcquireStep, AcquireFailed, Create, Collide, Write, WriteFailed,
              CallFailed, ReadGone, ReadGarbage, ReadRecord, CheckOwner, Remove
<1>3. ASSUME NEW p \in Procs, Acquire(p) \/ ReleaseStep(p) \/ ReleaseFailed(p) \/ Exit(p)
      PROVE  \A q \in Procs : pc'[q] \in {"idle", "open", "read"} => tries'[q] < MaxAttempts
  BY <1>3 DEF Acquire, ReleaseStep, BeginRelease, EndRelease, ReleaseFailed, Exit
<1> QED
  BY <1>1, <1>2, <1>3 DEF LockNext

LEMMA QuietStep ==
  ASSUME LockTypeOK, NobodyExited, NobodyExited', Quiet, [LockNext]_lockVars
  PROVE  Quiet'
<1> USE LockAssumption DEF LockTypeOK, Quiet, NobodyExited, Owning, Goto, Exited
<1>1. CASE UNCHANGED lockVars
  BY <1>1 DEF lockVars
<1>2. ASSUME NEW p \in Procs, Acquire(p) \/ Collide(p) PROVE Quiet'
  BY <1>2 DEF Acquire, Collide
<1>3. ASSUME NEW p \in Procs, Create(p) PROVE Quiet'
  BY <1>3 DEF Create, NoFile
<1>4. ASSUME NEW p \in Procs, Write(p) \/ WriteFailed(p) \/ CallFailed(p) PROVE Quiet'
  BY <1>4 DEF Write, WriteFailed, CallFailed, Files
<1>5. ASSUME NEW p \in Procs, ReadGone(p) \/ ReadGarbage(p) PROVE Quiet'
  BY <1>5 DEF ReadGone, ReadGarbage, MaxAttempts
<1>6. ASSUME NEW p \in Procs, ReadRecord(p) PROVE Quiet'
  BY <1>6 DEF ReadRecord, Files
<1>7. ASSUME NEW p \in Procs, CheckOwner(p) \/ Remove(p) PROVE Quiet'
  BY <1>7 DEF CheckOwner, Remove
<1>8. ASSUME NEW p \in Procs, ReleaseStep(p) \/ ReleaseFailed(p) PROVE Quiet'
  BY <1>8 DEF ReleaseStep, BeginRelease, EndRelease, ReleaseFailed, NoFile
<1>9. ASSUME NEW p \in Procs, Exit(p) PROVE Quiet'
  BY <1>9 DEF Exit
<1> QED
  BY <1>1, <1>2, <1>3, <1>4, <1>5, <1>6, <1>7, <1>8, <1>9
     DEF LockNext, AcquireStep, AcquireFailed

\* The inductive invariant, of acquireBrokerLock and releaseBrokerLock.
THEOREM LockInvariant == LockSpec => []LockInv
<1>1. LockInv /\ [LockNext]_lockVars => LockInv'
  BY LockTypeStep, AttemptsStep, ExitIsFinal, QuietStep DEF LockInv
<1> QED
  BY LockInvInit, <1>1, PTL DEF LockSpec

\* At most one process hosts the broker, until the first process exits.
THEOREM LockExcludes == LockSpec => []SingleOwner
  BY LockInvariant, OwnersAgree, PTL

\* An owner's lock file is removed by nobody else, until the first process
\* exits.
THEOREM LockIsKept == LockSpec => []OwnerKeepsFile
  BY LockInvariant, OwnersAgree, PTL

\* The file is that of a process which has not given it up, and has a record as
\* soon as that process has the lock.
FileIsOwn ==
  \A p \in Procs : file.by = p =>
    /\ pc[p] \in Owning \cup {"lock_io_error", "unremoved", "exited"}
    /\ pc[p] \in {"held", "unlink"} => file.written

LEMMA FileStaysOwn ==
  ASSUME LockTypeOK, FileIsOwn, [LockNext]_lockVars
  PROVE  FileIsOwn'
<1> USE LockAssumption DEF LockTypeOK, FileIsOwn, Owning, Goto, Exited
<1>1. CASE UNCHANGED lockVars
  BY <1>1 DEF lockVars
<1>2. ASSUME NEW p \in Procs,
             Acquire(p) \/ Collide(p) \/ CallFailed(p) \/ ReadGarbage(p) \/ ReadRecord(p)
      PROVE  FileIsOwn'
  BY <1>2 DEF Acquire, Collide, CallFailed, ReadGarbage, ReadRecord
<1>3. ASSUME NEW p \in Procs, Create(p) PROVE FileIsOwn'
  BY <1>3 DEF Create
<1>4. ASSUME NEW p \in Procs, Write(p) \/ WriteFailed(p) PROVE FileIsOwn'
  BY <1>4 DEF Write, WriteFailed, Files
<1>5. ASSUME NEW p \in Procs, Remove(p) \/ EndRelease(p) PROVE FileIsOwn'
  BY <1>5 DEF Remove, EndRelease, NoFile
<1>6. ASSUME NEW p \in Procs, ReadGone(p) \/ CheckOwner(p) PROVE FileIsOwn'
  BY <1>6 DEF ReadGone, CheckOwner, NoFile
<1>7. ASSUME NEW p \in Procs, BeginRelease(p) \/ ReleaseFailed(p) \/ Exit(p)
      PROVE  FileIsOwn'
  BY <1>7 DEF BeginRelease, ReleaseFailed, Exit
<1> QED
  BY <1>1, <1>2, <1>3, <1>4, <1>5, <1>6, <1>7
     DEF LockNext, AcquireStep, AcquireFailed, ReleaseStep

\* releaseBrokerLock leaves no file of its process behind, unless a call fails,
\* nor does an acquire that is refused, however many processes were killed.
THEOREM LockLeavesNothing == LockSpec => []NoLockLeftBehind
<1>1. LockInit => FileIsOwn
  BY LockAssumption DEF LockInit, FileIsOwn, NoFile
<1>2. LockInv /\ FileIsOwn /\ [LockNext]_lockVars => FileIsOwn'
  BY FileStaysOwn DEF LockInv
<1>3. FileIsOwn => NoLockLeftBehind
  BY DEF FileIsOwn, NoLockLeftBehind
<1> QED
  BY <1>1, <1>2, <1>3, LockInvariant, PTL DEF LockSpec

-----------------------------------------------------------------------------
(* The hosts.                                                              *)

\* A host keeps its lock from before it listens until it has closed.
HoldsLock ==
  \A p \in Procs :
    /\ host[p] \in {"listening", "running", "closing"} => pc[p] \in {"held", "exited"}
    /\ pc[p] \in {"unlink"} \cup Released => host[p] = "closed"

\* A broker that was not told to stop has a host that was not, either.
WantedIsHosted == \A p \in Procs : Alive(p) /\ p \notin term => host[p] = "running"

HostInv == LockInv /\ HostTypeOK /\ HoldsLock /\ WantedIsHosted

LEMMA HostInitInv == HostInit => HostInv
<1> SUFFICES ASSUME HostInit PROVE HostTypeOK /\ HoldsLock /\ WantedIsHosted
  BY LockInvInit DEF HostInit, HostInv
<1> QED
  BY HostAssumption
     DEF HostInit, LockInit, HostTypeOK, HoldsLock, WantedIsHosted, HostStates, ChildStates, Alive,
         Released

LockMoves(p) == Lock(p) \/ LockStep(p) \/ Unlock(p) \/ UnlockFails(p) \/ HostExits(p)

\* What one process does moves the lock as BrokerLock says, or not at all.
LEMMA HostMovesLock == [HostNext]_allVars => [LockNext]_lockVars
<1>1. ASSUME NEW p \in Procs, LockMoves(p) PROVE LockNext
  BY <1>1 DEF LockMoves, Lock, LockStep, Unlock, UnlockFails, HostExits, LockNext
<1>2. ASSUME NEW p \in Procs,
             \/ Listen(p) \/ GiveUpEarly(p) \/ Spawn(p) \/ Cleanup(p) \/ CloseListener(p)
             \/ Accept(p) \/ Finish(p) \/ ChildStep(p) \/ Dies(p)
      PROVE  UNCHANGED lockVars
  BY <1>2 DEF Listen, GiveUpEarly, Spawn, Cleanup, CloseListener, Accept, ChildStep, Dies,
              RemoveStaleSocket, Bind, BindTaken, Finish, LeaveLoop, RemoveSocket
<1> QED
  BY <1>1, <1>2 DEF HostNext, ClosingStep, LockMoves, allVars

\* The lock moves: only before the listener or after it is closed, or because
\* the process ends.
LEMMA LockMovesKeep ==
  ASSUME HostInv, NEW p \in Procs, LockMoves(p)
  PROVE  HostTypeOK' /\ HoldsLock' /\ WantedIsHosted'
<1> USE DEF HostInv, LockInv, LockTypeOK
<1>1. UNCHANGED hostVars
  BY DEF LockMoves, Lock, LockStep, Unlock, UnlockFails, HostExits
<1>2. /\ \A q \in Procs : q # p => pc'[q] = pc[q]
      /\ \/ host[p] = "none" /\ pc'[p] \notin {"unlink"} \cup Released
         \/ host[p] = "closed" /\ pc'[p] \in {"unlink"} \cup Released
         \/ pc'[p] = "exited"
  <2>1. CASE Lock(p) \/ LockStep(p)
    <3>1. \E step : Goto(p, step) /\ step \notin {"unlink"} \cup Released
      BY <2>1 DEF Lock, LockStep, Acquire, AcquireStep, AcquireFailed, Create, Collide,
                  Write, WriteFailed, CallFailed, ReadGone, ReadGarbage, ReadRecord, CheckOwner, Remove, Released
    <3> QED BY <2>1, <3>1 DEF Lock, LockStep, Goto
  <2>2. CASE Unlock(p) \/ UnlockFails(p)
    BY <2>2 DEF Unlock, UnlockFails, ReleaseStep, BeginRelease, EndRelease,
                ReleaseFailed, Goto, Released
  <2>3. CASE HostExits(p)
    BY <2>3 DEF HostExits, Exit, Goto, Released
  <2> QED BY <2>1, <2>2, <2>3 DEF LockMoves
<1>3. HoldsLock' /\ WantedIsHosted'
  BY <1>1, <1>2 DEF HoldsLock, WantedIsHosted, Alive, hostVars, Released
<1>4. HostTypeOK'
  BY <1>1, <1>2 DEF HostTypeOK, hostVars, Released
<1> QED BY <1>3, <1>4

\* A host goes from one stage to the next.
LEMMA HostGoesKeep ==
  ASSUME HostInv, NEW p \in Procs,
         Listen(p) \/ GiveUpEarly(p) \/ Spawn(p) \/ Cleanup(p) \/ CloseListener(p)
  PROVE  HostTypeOK' /\ HoldsLock' /\ WantedIsHosted'
<1> USE DEF HostInv, HostTypeOK, HoldsLock, WantedIsHosted, HostGoes, Alive,
            HostStates, ChildStates, lockVars, Released
<1>1. CASE Listen(p)
  BY <1>1 DEF Listen
<1>2. CASE GiveUpEarly(p)
  BY <1>2 DEF GiveUpEarly
<1>3. CASE Spawn(p)
  BY <1>3 DEF Spawn
<1>4. CASE Cleanup(p)
  BY <1>4 DEF Cleanup
<1>5. CASE CloseListener(p)
  BY <1>5 DEF CloseListener
<1> QED BY <1>1, <1>2, <1>3, <1>4, <1>5

\* A broker that is gone stays gone, and serves only in its loop.
LEMMA ChildGoesKeep ==
  ASSUME HostInv, NEW p \in Procs, Accept(p) \/ Finish(p) \/ ChildStep(p) \/ Dies(p)
  PROVE  HostTypeOK' /\ HoldsLock' /\ WantedIsHosted'
<1> USE DEF HostInv, HostTypeOK, HoldsLock, WantedIsHosted, ChildGoes, Alive,
            HostStates, ChildStates, lockVars, Released
<1>1. CASE RemoveStaleSocket(p)
  BY <1>1 DEF RemoveStaleSocket
<1>2. CASE Bind(p)
  BY <1>2 DEF Bind
<1>3. CASE BindTaken(p)
  BY <1>3 DEF BindTaken
<1>4. CASE Finish(p)
  BY <1>4 DEF Finish
<1>5. CASE LeaveLoop(p)
  BY <1>5 DEF LeaveLoop
<1>6. CASE RemoveSocket(p)
  BY <1>6 DEF RemoveSocket
<1>7. CASE Dies(p)
  BY <1>7 DEF Dies
<1>8. CASE Accept(p)
  <2>1. served' \in [Procs -> 0..MaxServed]
    BY <1>8, HostAssumption DEF Accept
  <2> QED BY <1>8, <2>1 DEF Accept
<1> QED BY <1>1, <1>2, <1>3, <1>4, <1>5, <1>6, <1>7, <1>8 DEF ChildStep

\* The steps of a host are composed of those of its lock and of steps that leave
\* the lock alone, so what is proved of the lock holds for hosts.
LEMMA HostImplementsLock == HostSpec => LockSpec
<1>1. HostInit => LockInit
  BY DEF HostInit
<1> QED BY <1>1, HostMovesLock, PTL DEF HostSpec, LockSpec

\* The inductive invariant of the hosts and their brokers.
THEOREM HostInvariant == HostSpec => []HostInv
<1>1. HostInv /\ [HostNext]_allVars => HostInv'
  <2> SUFFICES ASSUME HostInv, [HostNext]_allVars PROVE HostInv'
    OBVIOUS
  <2>1. LockInv'
    BY HostMovesLock, LockTypeStep, AttemptsStep, ExitIsFinal, QuietStep DEF LockInv, HostInv
  <2>2. HostTypeOK' /\ HoldsLock' /\ WantedIsHosted'
    <3>1. CASE UNCHANGED allVars
      BY <3>1 DEF HostInv, HostTypeOK, HoldsLock, WantedIsHosted, Alive,
                  allVars, lockVars, hostVars, Released
    <3> QED
      BY <3>1, LockMovesKeep, HostGoesKeep, ChildGoesKeep
         DEF HostNext, ClosingStep, LockMoves
  <2> QED BY <2>1, <2>2 DEF HostInv
<1> QED BY HostInitInv, <1>1, PTL DEF HostSpec

\* The variables of hosts and brokers have their types, and their stages agree.
THEOREM HostTypeCorrect == HostSpec => []HostTypeOK
<1>1. HostInv => HostTypeOK
  BY DEF HostInv
<1> QED BY <1>1, HostInvariant, PTL

\* Until the first host is killed, at most one broker runs that was not told to
\* stop: cleanup tells the broker before the lock is released.
THEOREM OneBrokerWanted == HostSpec => []OneWantedBroker
<1>1. ASSUME HostInv, NobodyExited, NEW p \in Procs, Alive(p), p \notin term
      PROVE  pc[p] \in Owning
  BY <1>1 DEF HostInv, HoldsLock, WantedIsHosted, NobodyExited, Exited, Owning
<1>2. HostInv => OneWantedBroker
  BY <1>1, OwnersAgree DEF HostInv, OneWantedBroker, SingleOwner
<1> QED BY <1>2, HostInvariant, PTL

\* Who stops by himself leaves no lock file that he could remove, and no broker
\* that was not told to stop: the safety half of StopsClean, whoever was killed.
THEOREM StopAlwaysLeavesNothing == HostSpec => []StopLeavesNothing
<1>1. HostInv /\ NoLockLeftBehind => StopLeavesNothing
  BY DEF HostInv, HoldsLock, WantedIsHosted, NoLockLeftBehind, Owning, StopLeavesNothing,
         Released
<1> QED BY <1>1, HostInvariant, HostImplementsLock, LockLeavesNothing, PTL
=============================================================================
