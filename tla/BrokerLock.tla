----------------------------- MODULE BrokerLock -----------------------------
(***************************************************************************)
(* The advisory lock that decides which process hosts the broker           *)
(* (runtime/broker-lock.ts): a file made with O_CREAT|O_EXCL that holds    *)
(* the pid of its owner.  Every file system call is a step of its own.  A  *)
(* process takes part once; its exit leaves the file as it is.             *)
(***************************************************************************)
EXTENDS Naturals

CONSTANTS
  Procs,      \* processes, each with its own pid
  Mortal,     \* those that may exit, at any point
  NoProc,     \* no process
  IoFails     \* may a file system call fail other than by EEXIST or ENOENT?

ASSUME LockAssumption == /\ Mortal \subseteq Procs
                         /\ NoProc \notin Procs
                         /\ IoFails \in BOOLEAN

VARIABLES
  file,   \* the lock file: who created it and whether its record is in it
  pc,     \* where each process stands in acquire or release
  saw,    \* the pid each process read from the file
  tries   \* attempts of the acquire loop that ended without a file to read

lockVars == <<file, pc, saw, tries>>

MaxAttempts == 3
NoFile == [by |-> NoProc, written |-> FALSE]
Files == [by : Procs \cup {NoProc}, written : BOOLEAN]

Recovering == {"check", "remove", "retake"}
Owning     == {"write", "held", "unlink"}
Failed     == {"lock_io_error", "stale_lock_removal_failed"}
Refused    == {"lock_held"} \cup Failed
Released   == {"done", "unremoved"}
Steps      == {"idle", "open", "read", "exited"}
                \cup Recovering \cup Owning \cup Refused \cup Released

Exited(p) == pc[p] = "exited"
Goto(p, step) == pc' = [pc EXCEPT ![p] = step]

LockInit == /\ file = NoFile
            /\ pc = [p \in Procs |-> "idle"]
            /\ saw = [p \in Procs |-> NoProc]
            /\ tries = [p \in Procs |-> 0]

Acquire(p) == /\ pc[p] = "idle"
              /\ Goto(p, "open")
              /\ UNCHANGED <<file, saw, tries>>

\* Mutant of Create: without O_EXCL an existing file is opened as well.
CreateShared(p) == /\ pc[p] \in {"open", "retake"}
                   /\ file' = [by |-> p, written |-> FALSE]
                   /\ Goto(p, "write")
                   /\ UNCHANGED <<saw, tries>>

\* open with O_EXCL, on the first attempt or after removing a stale file.
Create(p) == /\ pc[p] \in {"open", "retake"}
             /\ file = NoFile
             /\ file' = [by |-> p, written |-> FALSE]
             /\ Goto(p, "write")
             /\ UNCHANGED <<saw, tries>>

\* EEXIST.
Collide(p) == /\ file # NoFile
              /\ \/ pc[p] = "open" /\ Goto(p, "read")
                 \/ pc[p] = "retake" /\ Goto(p, "lock_held")
              /\ UNCHANGED <<file, saw, tries>>

\* writeFile goes to the file that p opened, which may have been removed.
Write(p) == /\ pc[p] = "write"
            /\ file' = IF file.by = p THEN [file EXCEPT !.written = TRUE] ELSE file
            /\ Goto(p, "held")
            /\ UNCHANGED <<saw, tries>>

\* The write or the close fails: the error is thrown and the file stays, with
\* its record or without.
WriteFailed(p) == /\ pc[p] = "write"
                  /\ IoFails
                  /\ file' \in {file, [file EXCEPT !.written = @ \/ file.by = p]}
                  /\ Goto(p, "lock_io_error")
                  /\ UNCHANGED <<saw, tries>>

\* Any other call of the acquire fails: open, readFile, kill or rm.
CallFailed(p) == /\ IoFails
                 /\ \/ /\ pc[p] \in {"open", "read", "check", "retake"}
                       /\ Goto(p, "lock_io_error")
                    \/ /\ pc[p] = "remove"
                       /\ Goto(p, "stale_lock_removal_failed")
                 /\ UNCHANGED <<file, saw, tries>>

\* Mutant of ReadGone: the read is repeated, the open is not.
ReadGoneAgain(p) == /\ pc[p] = "read"
                    /\ file = NoFile
                    /\ UNCHANGED lockVars

\* ENOENT: someone removed the file since; the loop starts over, three times.
ReadGone(p) == /\ pc[p] = "read"
               /\ file = NoFile
               /\ tries' = [tries EXCEPT ![p] = @ + 1]
               /\ Goto(p, IF tries'[p] < MaxAttempts THEN "open" ELSE "lock_held")
               /\ UNCHANGED <<file, saw>>

\* A file without a record is no JSON.
ReadGarbage(p) == /\ pc[p] = "read"
                  /\ file # NoFile
                  /\ ~file.written
                  /\ Goto(p, "lock_io_error")
                  /\ UNCHANGED <<file, saw, tries>>

ReadRecord(p) == /\ pc[p] = "read"
                 /\ file.written
                 /\ saw' = [saw EXCEPT ![p] = file.by]
                 /\ Goto(p, "check")
                 /\ UNCHANGED <<file, tries>>

\* Mutant of CheckOwner: a record is always taken for a live owner's.
CheckNever(p) == /\ pc[p] = "check"
                 /\ Goto(p, "lock_held")
                 /\ UNCHANGED <<file, saw, tries>>

\* kill(pid, 0) of the pid that was read.
CheckOwner(p) == /\ pc[p] = "check"
                 /\ Goto(p, IF Exited(saw[p]) THEN "remove" ELSE "lock_held")
                 /\ UNCHANGED <<file, saw, tries>>

\* rm with force: whatever file is there now, or none.
Remove(p) == /\ pc[p] = "remove"
             /\ file' = NoFile
             /\ Goto(p, "retake")
             /\ UNCHANGED <<saw, tries>>

\* releaseBrokerLock: read the record, and remove the file if it is p's own.
BeginRelease(p) ==
  /\ pc[p] = "held"
  /\ Goto(p, IF file.written /\ file.by = p THEN "unlink" ELSE "done")
  /\ UNCHANGED <<file, saw, tries>>

EndRelease(p) == /\ pc[p] = "unlink"
                 /\ file' = NoFile
                 /\ Goto(p, "done")
                 /\ UNCHANGED <<saw, tries>>

\* The read or the removal fails, which is ignored: the file stays.
ReleaseFailed(p) == /\ pc[p] \in {"held", "unlink"}
                    /\ IoFails
                    /\ Goto(p, "unremoved")
                    /\ UNCHANGED <<file, saw, tries>>

\* The process ends: normally, or killed in the middle of anything.
Exit(p) == /\ p \in Mortal
           /\ ~Exited(p)
           /\ Goto(p, "exited")
           /\ UNCHANGED <<file, saw, tries>>

AcquireStep(p) ==
  \/ Create(p) \/ Collide(p) \/ Write(p)
  \/ ReadGone(p) \/ ReadGarbage(p) \/ ReadRecord(p)
  \/ CheckOwner(p) \/ Remove(p)

AcquireFailed(p) == WriteFailed(p) \/ CallFailed(p)

ReleaseStep(p) == BeginRelease(p) \/ EndRelease(p)

LockNext == \E p \in Procs : \/ Acquire(p) \/ AcquireStep(p) \/ AcquireFailed(p)
                             \/ ReleaseStep(p) \/ ReleaseFailed(p) \/ Exit(p)

LockSpec == LockInit /\ [][LockNext]_lockVars

-----------------------------------------------------------------------------
(* Properties.                                                             *)

LockTypeOK == /\ file \in Files
              /\ pc \in [Procs -> Steps]
              /\ saw \in [Procs -> Procs \cup {NoProc}]
              /\ tries \in [Procs -> 0..MaxAttempts]

NobodyExited == \A p \in Procs : ~Exited(p)

\* Until the first process exits, one at a time hosts the broker, however the
\* contenders' opens, reads and removals interleave with its release.
SingleOwner ==
  NobodyExited => \A p, q \in Procs : pc[p] \in Owning /\ pc[q] \in Owning => p = q

\* Until the first process exits, the file names its owner until the owner
\* removes it: nobody's lock is taken away.
OwnerKeepsFile == NobodyExited => \A p \in Procs : pc[p] \in Owning => file.by = p

\* A process that is killed, or whose write or removal fails, may leave its lock
\* file; one that was refused or has released its lock leaves none.
NoLockLeftBehind ==
  \A p \in Procs : file.by = p =>
    pc[p] \in Owning \cup {"lock_io_error", "unremoved", "exited"}

\* acquireBrokerLock always comes to a verdict.
AcquireDecides ==
  \A p \in Procs :
    (pc[p] = "open") ~> (pc[p] \in Owning \cup Refused \cup Released \cup {"exited"})

\* A lock file left behind with its record by a process that is gone is no
\* obstacle: the one contender there is becomes the owner, unless the file
\* system fails it.
Orphaned(p) == /\ pc[p] = "open"
               /\ file # NoFile
               /\ \A q \in Procs \ {p} : Exited(q)
StaleRecordIsRetaken ==
  \A p \in Procs : (Orphaned(p) /\ file.written)
                     ~> (pc[p] \in Owning \cup Failed \cup Released \cup {"exited"})

-----------------------------------------------------------------------------
(* What the comment on acquireBrokerLock says, and the code does not do.   *)

\* broker-lock.ts:54, "Never blindly removes a lock without confirming owner
\* is dead."
RemovesOnlyDeadLocks ==
  [][\A p \in Procs : pc[p] = "remove" /\ pc'[p] = "retake" /\ file # NoFile
                      => Exited(file.by)]_lockVars
=============================================================================
