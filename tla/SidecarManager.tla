--------------------------- MODULE SidecarManager ---------------------------
(***************************************************************************)
(* The manager of the embedding sidecar (sidecar/sidecar-manager.ts): one  *)
(* Python child that is started on demand, restarted when it crashes, and  *)
(* stopped.  A start is a sequence of awaits; a stop or a later start may  *)
(* come between any two of them and supersedes it.  Everything between two *)
(* awaits is one step.  The port is the default one, a free port that is   *)
(* looked up.                                                              *)
(***************************************************************************)
EXTENDS Naturals

CONSTANTS
  Starts,      \* starts, and their children, that exist at a time
  MaxFailures, \* MAX_CONSECUTIVE_FAILURES
  None         \* no start

ASSUME SidecarAssumption == None \notin Starts /\ MaxFailures \in Nat \ {0}

VARIABLES
  status,     \* _status
  generation, \* the start that has the current generation, if a start has it
  promise,    \* _startPromise: the start that later callers share
  process,    \* process: the start whose child it is
  token,      \* _authToken: the start that minted it
  port,       \* _port: the start that picked it
  backoff,    \* is backoffTimer pending?
  failures,   \* consecutiveFailures
  at,         \* the await that each start is in, "over" when it is none
  child,      \* the child of each start: "none" before it is spawned and when
              \* its exit was reported, "signalled" once it was told to go
  heard,      \* starts whose child has its exit listener
  stopping,   \* for each child a stop waits for: is the stop the latest?
  wanted      \* history: was the last call from outside a start?

sidecarVars == <<status, generation, promise, process, token, port, backoff,
                 failures, at, child, heard, stopping, wanted>>

SidecarInit == /\ status = "stopped"
               /\ generation = None
               /\ promise = None
               /\ process = None
               /\ token = None
               /\ port = None
               /\ backoff = FALSE
               /\ failures = 0
               /\ at = [s \in Starts |-> "over"]
               /\ child = [s \in Starts |-> "none"]
               /\ heard = {}
               /\ stopping = [s \in Starts |-> "no"]
               /\ wanted = FALSE

Cleared(ref, s) == IF ref = s THEN None ELSE ref

\* kill: a child that is gone stays so, and s may be None.
Killed(s) == [c \in Starts |-> IF c = s /\ child[c] = "alive" THEN "signalled" ELSE child[c]]

\* A stop that waits is no longer the latest when the generation goes up.
Superseded == [s \in Starts |-> IF stopping[s] = "latest" THEN "superseded" ELSE stopping[s]]

\* cancelled, of a start in progress.
Cancelled(s) == generation # s \/ status = "stopped"

\* Nothing refers to the start s any more, so that its name can be used again.
Forgotten(s) == /\ at[s] = "over"
                /\ child[s] = "none"
                /\ stopping[s] = "no"
                /\ s \notin {promise, process, token, port}

-----------------------------------------------------------------------------
(* The calls.                                                              *)

\* A start that is neither needed nor under way already.
StartIsDue == status # "running" /\ ~(status = "starting" /\ promise # None)

\* start up to its first await: a child that is left over is killed.
Begin(s) ==
  /\ Forgotten(s)
  /\ status' = "starting"
  /\ generation' = s
  /\ promise' = s
  /\ process' = None
  /\ child' = Killed(process)
  /\ backoff' = FALSE
  /\ at' = [at EXCEPT ![s] = "port"]
  /\ stopping' = Superseded
  /\ UNCHANGED <<token, port, failures, heard>>

\* start or ensureRunning is called.
Start(s) == /\ StartIsDue
            /\ Begin(s)
            /\ wanted' = TRUE

\* The restart that a crash has scheduled.
BackoffFires(s) == /\ backoff
                   /\ StartIsDue
                   /\ Begin(s)
                   /\ UNCHANGED wanted

\* It finds the manager running, or starting already.
BackoffFiresLate == /\ backoff
                    /\ ~StartIsDue
                    /\ backoff' = FALSE
                    /\ UNCHANGED <<status, generation, promise, process, token, port,
                                   failures, at, child, heard, stopping, wanted>>

\* stop up to its await: the child gets a SIGTERM, and later a SIGKILL, and
\* its exit is no crash any more.
Stop ==
  /\ status' = "stopped"
  /\ token' = None
  /\ generation' = None
  /\ failures' = 0
  /\ backoff' = FALSE
  /\ process' = None
  /\ child' = Killed(process)
  /\ heard' = heard \ {process}
  /\ port' = IF process = None THEN None ELSE port
  /\ stopping' = [s \in Starts |-> IF s = process THEN "latest" ELSE Superseded[s]]
  /\ wanted' = FALSE
  /\ UNCHANGED <<promise, at>>

\* Mutant of StopEnds: whatever port there is goes.
StopEndsBlindly(s) ==
  /\ stopping[s] # "no"
  /\ port' = None
  /\ stopping' = [stopping EXCEPT ![s] = "no"]
  /\ UNCHANGED <<status, generation, promise, process, token, backoff, failures,
                 at, child, heard, wanted>>

\* The child's exit, or the safety timer, ends the wait.
StopEnds(s) ==
  /\ stopping[s] # "no"
  /\ port' = IF stopping[s] = "latest" THEN None ELSE port
  /\ stopping' = [stopping EXCEPT ![s] = "no"]
  /\ UNCHANGED <<status, generation, promise, process, token, backoff, failures,
                 at, child, heard, wanted>>

-----------------------------------------------------------------------------
(* The steps of a start.                                                   *)

\* The async function returns or throws; finally, its promise is forgotten.
Ends(s) == /\ at' = [at EXCEPT ![s] = "over"]
           /\ promise' = Cleared(promise, s)

\* killStaleChild: a superseded start may touch its own child only.
KillStaleChild(s) == /\ child' = Killed(s)
                     /\ heard' = heard \ {s}
                     /\ process' = Cleared(process, s)

\* The catch block, for a start that was superseded or not.
Catch(s, superseded) ==
  /\ Ends(s)
  /\ token' = Cleared(token, s)
  /\ \/ /\ superseded
        /\ KillStaleChild(s)
     \/ /\ ~superseded
        /\ child' = IF process = s THEN Killed(s) ELSE child
        /\ process' = Cleared(process, s)
        /\ UNCHANGED heard

\* An await rejects: no port, no pipe, no port line in time, the wrong port.
Throws(s) ==
  /\ at[s] \in {"port", "booting"}
  /\ Catch(s, Cancelled(s))
  /\ status' = IF Cancelled(s) THEN status ELSE "error"
  /\ UNCHANGED <<generation, port, backoff, failures, stopping, wanted>>

\* A start that finds itself superseded before it has a child just returns.
FindsItselfStale(s) ==
  /\ at[s] = "port"
  /\ Cancelled(s)
  /\ Ends(s)
  /\ UNCHANGED <<status, generation, process, token, port, backoff, failures,
                 child, heard, stopping, wanted>>

\* Mutant of Spawn: a stop while the port was looked up goes unnoticed.
SpawnAnyway(s) ==
  /\ at[s] = "port"
  /\ \A other \in Starts : at[other] # "spawned"
  /\ port' = s
  /\ process' = s
  /\ child' = [child EXCEPT ![s] = "alive"]
  /\ heard' = heard \cup {s}
  /\ at' = [at EXCEPT ![s] = "spawned"]
  /\ UNCHANGED <<status, generation, promise, token, backoff, failures, stopping, wanted>>

\* The port is known and the child is spawned.  (The next await is a
\* setImmediate, over before another start can get its port.)
Spawn(s) ==
  /\ at[s] = "port"
  /\ ~Cancelled(s)
  /\ \A other \in Starts : at[other] # "spawned"
  /\ port' = s
  /\ process' = s
  /\ child' = [child EXCEPT ![s] = "alive"]
  /\ heard' = heard \cup {s}
  /\ at' = [at EXCEPT ![s] = "spawned"]
  /\ UNCHANGED <<status, generation, promise, token, backoff, failures, stopping, wanted>>

\* There is no such program, or the like: no child came to be.
SpawnFails(s) ==
  /\ at[s] = "spawned"
  /\ Ends(s)
  /\ child' = [child EXCEPT ![s] = "none"]
  /\ process' = IF Cancelled(s) THEN Cleared(process, s) ELSE None
  /\ heard' = heard \ {s}
  /\ status' = IF Cancelled(s) THEN status ELSE "error"
  /\ UNCHANGED <<generation, token, port, backoff, failures, stopping, wanted>>

\* The token is minted, without a look at the generation, and sent.
SendToken(s) ==
  /\ at[s] = "spawned"
  /\ token' = s
  /\ at' = [at EXCEPT ![s] = "booting"]
  /\ UNCHANGED <<status, generation, promise, process, port, backoff, failures,
                 child, heard, stopping, wanted>>

\* The child has printed its port, or has answered that it is healthy, and
\* the start that waited for it finds itself superseded.
StaleChildAnswers(s) ==
  /\ \/ at[s] = "booting" /\ child[s] # "none"
     \/ at[s] = "answered"
  /\ Cancelled(s)
  /\ Ends(s)
  /\ KillStaleChild(s)
  /\ UNCHANGED <<status, generation, token, port, backoff, failures, stopping, wanted>>

PortLine(s) ==
  /\ at[s] = "booting"
  /\ child[s] # "none"
  /\ ~Cancelled(s)
  /\ at' = [at EXCEPT ![s] = "polling"]
  /\ UNCHANGED <<status, generation, promise, process, token, port, backoff,
                 failures, child, heard, stopping, wanted>>

\* pollHealth: the response has arrived, its body has not been read yet.
HealthAnswers(s) ==
  /\ at[s] = "polling"
  /\ child[s] # "none"
  /\ at' = [at EXCEPT ![s] = "answered"]
  /\ UNCHANGED <<status, generation, promise, process, token, port, backoff,
                 failures, child, heard, stopping, wanted>>

\* pollHealth looks whether there is a process, not whose it is.
PollFindsNoProcess(s) ==
  /\ at[s] = "polling"
  /\ process = None
  /\ Catch(s, Cancelled(s))
  /\ status' = IF Cancelled(s) THEN status ELSE "error"
  /\ UNCHANGED <<generation, port, backoff, failures, stopping, wanted>>

\* The startup time is over: pollHealth writes the status, whoever has the
\* current generation.
PollTimesOut(s) ==
  /\ at[s] = "polling"
  /\ status' = "error"
  /\ Catch(s, generation # s)
  /\ UNCHANGED <<generation, port, backoff, failures, stopping, wanted>>

Healthy(s) ==
  /\ at[s] = "answered"
  /\ ~Cancelled(s)
  /\ Ends(s)
  /\ failures' = 0
  /\ status' = "running"
  /\ UNCHANGED <<generation, process, token, port, backoff, child, heard, stopping, wanted>>

-----------------------------------------------------------------------------
(* The child.                                                              *)

\* The exit of a child that is not, or no longer, listened to or the
\* manager's.
ExitUnheard(s) ==
  /\ child[s] # "none"
  /\ s \notin heard \/ process # s
  /\ child' = [child EXCEPT ![s] = "none"]
  /\ UNCHANGED <<status, generation, promise, process, token, port, backoff,
                 failures, at, heard, stopping, wanted>>

\* handleExit after too many crashes in a row.  (What is counted beyond the
\* maximum makes no difference.)
GivesUp ==
  /\ failures + 1 >= MaxFailures
  /\ status' = "error"
  /\ failures' = MaxFailures
  /\ UNCHANGED <<promise, backoff>>

\* Mutant of SchedulesRestart: the crash is not counted.
SchedulesUncounted ==
  /\ failures + 1 < MaxFailures
  /\ status' = "starting"
  /\ promise' = None
  /\ backoff' = TRUE
  /\ UNCHANGED failures

\* handleExit otherwise: a restart is scheduled, for which start is free.
SchedulesRestart ==
  /\ failures + 1 < MaxFailures
  /\ status' = "starting"
  /\ failures' = failures + 1
  /\ promise' = None
  /\ backoff' = TRUE

\* handleExit: the manager's child crashed, whatever the start of it waits
\* for.
Crashes(s) ==
  /\ child[s] # "none"
  /\ s \in heard /\ process = s
  /\ child' = [child EXCEPT ![s] = "none"]
  /\ process' = None
  /\ token' = None
  /\ GivesUp \/ SchedulesRestart
  /\ UNCHANGED <<generation, port, at, heard, stopping, wanted>>

-----------------------------------------------------------------------------
Advance(s) ==
  \/ Throws(s) \/ FindsItselfStale(s) \/ Spawn(s) \/ SpawnFails(s) \/ SendToken(s)
  \/ StaleChildAnswers(s) \/ PortLine(s) \/ HealthAnswers(s)
  \/ PollFindsNoProcess(s) \/ PollTimesOut(s) \/ Healthy(s)

SidecarNext == \/ \E s \in Starts : \/ Start(s) \/ BackoffFires(s) \/ StopEnds(s)
                                    \/ Advance(s) \/ ExitUnheard(s) \/ Crashes(s)
               \/ BackoffFiresLate \/ Stop

SidecarSpec == SidecarInit /\ [][SidecarNext]_sidecarVars

\* Every await of a start ends, if only by its own timer, and timers fire; a
\* child that was sent its SIGTERM, and SIGKILL, goes.
SidecarFairSpec ==
  /\ SidecarSpec
  /\ WF_sidecarVars(BackoffFiresLate \/ \E s \in Starts : BackoffFires(s))
  /\ \A s \in Starts : /\ WF_sidecarVars(Advance(s))
                       /\ WF_sidecarVars(StopEnds(s))
                       /\ WF_sidecarVars(child[s] = "signalled" /\ ExitUnheard(s))

-----------------------------------------------------------------------------
(* Properties.                                                             *)

SidecarTypeOK ==
  /\ status \in {"stopped", "starting", "running", "error"}
  /\ {generation, promise, process, token, port} \subseteq Starts \cup {None}
  /\ backoff \in BOOLEAN
  /\ failures \in 0..MaxFailures
  /\ at \in [Starts -> {"over", "port", "spawned", "booting", "polling", "answered"}]
  /\ child \in [Starts -> {"none", "alive", "signalled"}]
  /\ heard \subseteq Starts
  /\ stopping \in [Starts -> {"no", "latest", "superseded"}]
  /\ wanted \in BOOLEAN

\* No orphans: a child that was not told to go is the manager's, however
\* starts, stops and crashes overlap; so there is one at most.
NoOrphans == \A s \in Starts : child[s] = "alive" => process = s

\* After a stop nothing comes up by itself: no child is left to the manager,
\* no restart is scheduled, and no start in progress can spawn any more.
StopSticks ==
  ~wanted => /\ process = None
             /\ ~backoff
             /\ \A s \in Starts : at[s] # "over" => Cancelled(s)

\* What the manager tells of a running sidecar, its port and its token, is
\* that of the child it has, even after a superseded start or stop went on.
EndpointIsOwn ==
  status = "running" /\ process # None => port = process /\ token = process

\* A manager that is starting has a start in progress or a restart scheduled.
StartingIsGoing ==
  status = "starting" => backoff \/ (generation # None /\ at[generation] # "over")

\* ensureRunning does not wait for ever.
StartEnds == status = "starting" ~> status # "starting"
=============================================================================
