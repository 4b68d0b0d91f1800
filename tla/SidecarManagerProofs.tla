------------------------ MODULE SidecarManagerProofs ------------------------
(***************************************************************************)
(* Proofs about the sidecar manager, for any number of starts in progress  *)
(* and any bound on crashes.                                               *)
(***************************************************************************)
EXTENDS SidecarManager, TLAPS

\* The start of the current generation has no predecessor's child beside it:
\* the manager has its child or none, and none before it spawns one.
OwnChild ==
  \A s \in Starts : generation = s /\ at[s] # "over"
                      => /\ process \in {s, None}
                         /\ at[s] = "port" => process = None

\* The last call from outside, if it was no start, superseded every start.
NobodyStarts == ~wanted => generation = None /\ process = None /\ ~backoff

\* A start that callers can share is the current one, and in progress.
PromiseIsCurrent ==
  status = "starting" /\ promise # None
    => promise = generation /\ at[promise] # "over"

SidecarInv == /\ SidecarTypeOK
              /\ NoOrphans
              /\ OwnChild
              /\ NobodyStarts
              /\ PromiseIsCurrent
              /\ StartingIsGoing

-----------------------------------------------------------------------------
(* What the operators do.                                                  *)

\* Whoever is killed is not alive any more; the others are as they were.
LEMMA KilledIsTold ==
  ASSUME SidecarTypeOK, NEW s
  PROVE  /\ Killed(s) \in [Starts -> {"none", "alive", "signalled"}]
         /\ \A c \in Starts : Killed(s)[c] = "alive" => c # s /\ child[c] = "alive"
  BY DEF Killed, SidecarTypeOK

LEMMA SupersededType ==
  SidecarTypeOK => Superseded \in [Starts -> {"no", "latest", "superseded"}]
  BY DEF Superseded, SidecarTypeOK

\* The catch block leaves no child behind.
LEMMA CatchKeeps ==
  ASSUME SidecarInv, NEW s \in Starts, at[s] # "over",
         NEW superseded \in BOOLEAN, Catch(s, superseded)
  PROVE  /\ child' \in [Starts -> {"none", "alive", "signalled"}]
         /\ at' \in [Starts -> {"over", "port", "spawned", "booting", "polling", "answered"}]
         /\ heard' \subseteq Starts
         /\ process' \in {process, None} /\ promise' \in {promise, None}
         /\ token' \in {token, None}
         /\ promise' # s
         /\ at'[s] = "over" /\ \A c \in Starts : c # s => at'[c] = at[c]
         /\ NoOrphans'
<1>1. /\ at' = [at EXCEPT ![s] = "over"]
      /\ promise' = Cleared(promise, s)
      /\ token' = Cleared(token, s)
      /\ process' = Cleared(process, s)
      /\ heard' \in {heard, heard \ {s}}
      /\ child' \in {child, Killed(s)}
      /\ process = s => child' = Killed(s)
  BY DEF Catch, Ends, KillStaleChild
<1>2. /\ child' \in [Starts -> {"none", "alive", "signalled"}]
      /\ \A c \in Starts : child'[c] = "alive" => child[c] = "alive" /\ (process = s => c # s)
  BY <1>1, KilledIsTold DEF SidecarInv, SidecarTypeOK
<1>3. NoOrphans'
  BY <1>1, <1>2 DEF SidecarInv, NoOrphans, Cleared
<1>4. promise' # s
  BY <1>1, SidecarAssumption DEF Cleared
<1> QED BY <1>1, <1>2, <1>3, <1>4 DEF SidecarInv, SidecarTypeOK, Cleared

-----------------------------------------------------------------------------
LEMMA SidecarInitInv == SidecarInit => SidecarInv
<1>1. 0 \in 0..MaxFailures
  BY SidecarAssumption
<1> QED
  BY <1>1, SidecarAssumption
     DEF SidecarInit, SidecarInv, SidecarTypeOK, NoOrphans, OwnChild, NobodyStarts,
         PromiseIsCurrent, StartingIsGoing

\* A start supersedes whatever was there.
LEMMA BeginKeeps ==
  ASSUME SidecarInv, NEW s \in Starts, Begin(s),
         wanted' = TRUE \/ (backoff /\ wanted' = wanted)
  PROVE  SidecarInv'
<1>1. /\ Killed(process) \in [Starts -> {"none", "alive", "signalled"}]
      /\ \A c \in Starts : Killed(process)[c] = "alive" => c # process /\ child[c] = "alive"
  BY KilledIsTold DEF SidecarInv
<1>2. wanted' = TRUE
  BY DEF SidecarInv, SidecarTypeOK, NobodyStarts
<1>3. SidecarTypeOK'
  BY <1>1, <1>2, SupersededType DEF Begin, SidecarInv, SidecarTypeOK
<1>4. NoOrphans'
  BY <1>1 DEF Begin, SidecarInv, NoOrphans
<1>5. OwnChild' /\ NobodyStarts' /\ PromiseIsCurrent' /\ StartingIsGoing'
  BY <1>2, SidecarAssumption
     DEF Begin, SidecarInv, SidecarTypeOK, OwnChild, NobodyStarts, PromiseIsCurrent,
         StartingIsGoing
<1> QED BY <1>3, <1>4, <1>5 DEF SidecarInv

\* So does a stop.
LEMMA StopKeeps == ASSUME SidecarInv, Stop PROVE SidecarInv'
<1>1. /\ Killed(process) \in [Starts -> {"none", "alive", "signalled"}]
      /\ \A c \in Starts : Killed(process)[c] = "alive" => c # process /\ child[c] = "alive"
  BY KilledIsTold DEF SidecarInv
<1>2. stopping' \in [Starts -> {"no", "latest", "superseded"}]
  BY SupersededType DEF Stop, SidecarInv
<1>3. SidecarTypeOK'
  <2>1. 0 \in 0..MaxFailures
    BY SidecarAssumption
  <2> QED BY <1>1, <1>2, <2>1 DEF Stop, SidecarInv, SidecarTypeOK
<1>4. NoOrphans'
  BY <1>1 DEF Stop, SidecarInv, NoOrphans
<1>5. OwnChild' /\ NobodyStarts' /\ PromiseIsCurrent' /\ StartingIsGoing'
  BY SidecarAssumption DEF Stop, OwnChild, NobodyStarts, PromiseIsCurrent, StartingIsGoing
<1> QED BY <1>3, <1>4, <1>5 DEF SidecarInv

\* A timer that comes late, and the end of a stop, change little.
LEMMA LateKeeps ==
  ASSUME SidecarInv, BackoffFiresLate \/ \E s \in Starts : StopEnds(s)
  PROVE  SidecarInv'
<1>1. CASE BackoffFiresLate
  <2>1. StartingIsGoing'
    BY <1>1, SidecarAssumption
       DEF BackoffFiresLate, StartIsDue, SidecarInv, SidecarTypeOK, PromiseIsCurrent,
           StartingIsGoing
  <2> QED BY <1>1, <2>1
          DEF BackoffFiresLate, SidecarInv, SidecarTypeOK, NoOrphans, OwnChild,
              NobodyStarts, PromiseIsCurrent
<1>2. ASSUME NEW s \in Starts, StopEnds(s) PROVE SidecarInv'
  BY <1>2 DEF StopEnds, SidecarInv, SidecarTypeOK, NoOrphans, OwnChild, NobodyStarts,
              PromiseIsCurrent, StartingIsGoing
<1> QED BY <1>1, <1>2

\* A start that throws.
LEMMA ThrowingKeeps ==
  ASSUME SidecarInv, NEW s \in Starts,
         Throws(s) \/ PollFindsNoProcess(s) \/ PollTimesOut(s)
  PROVE  SidecarInv'
<1>1. PICK superseded \in BOOLEAN :
        /\ Catch(s, superseded)
        /\ superseded => generation # s \/ status = "stopped"
        /\ ~superseded => generation = s
        /\ status' \in {status, "error"}
        /\ generation = s /\ status # "stopped" => status' = "error"
  <2>1. CASE Throws(s)
    BY <2>1 DEF Throws, Cancelled
  <2>2. CASE PollFindsNoProcess(s)
    BY <2>2 DEF PollFindsNoProcess, Cancelled
  <2>3. CASE PollTimesOut(s)
    BY <2>3 DEF PollTimesOut
  <2> QED BY <2>1, <2>2, <2>3
<1>2. /\ at[s] # "over"
      /\ UNCHANGED <<generation, port, backoff, failures, stopping, wanted>>
  BY DEF Throws, PollFindsNoProcess, PollTimesOut
<1> DEFINE kept == /\ child' \in [Starts -> {"none", "alive", "signalled"}]
                   /\ at' \in [Starts -> {"over", "port", "spawned", "booting", "polling", "answered"}]
                   /\ heard' \subseteq Starts
                   /\ process' \in {process, None} /\ promise' \in {promise, None}
                   /\ token' \in {token, None}
<1>3. kept /\ NoOrphans'
  BY <1>1, <1>2, CatchKeeps
<1>4. promise' # s /\ at'[s] = "over" /\ \A c \in Starts : c # s => at'[c] = at[c]
  BY <1>1, <1>2, CatchKeeps
<1>5. SidecarTypeOK'
  BY <1>1, <1>2, <1>3 DEF SidecarInv, SidecarTypeOK
<1>6. OwnChild' /\ NobodyStarts'
  BY <1>2, <1>3, <1>4 DEF SidecarInv, OwnChild, NobodyStarts
<1>7. PromiseIsCurrent' /\ StartingIsGoing'
  BY <1>1, <1>2, <1>3, <1>4, SidecarAssumption
     DEF SidecarInv, SidecarTypeOK, PromiseIsCurrent, StartingIsGoing
<1> QED BY <1>3, <1>5, <1>6, <1>7 DEF SidecarInv

\* A start that finds itself superseded.
LEMMA StaleKeeps ==
  ASSUME SidecarInv, NEW s \in Starts, FindsItselfStale(s) \/ StaleChildAnswers(s)
  PROVE  SidecarInv'
<1>1. /\ at[s] # "over"
      /\ generation # s \/ status = "stopped"
      /\ at' = [at EXCEPT ![s] = "over"]
      /\ promise' = Cleared(promise, s)
      /\ process' \in {process, Cleared(process, s)}
      /\ child' \in {child, Killed(s)}
      /\ process' # process => child' = Killed(s)
      /\ heard' \in {heard, heard \ {s}}
      /\ UNCHANGED <<status, generation, token, port, backoff, failures, stopping, wanted>>
  BY DEF FindsItselfStale, StaleChildAnswers, Ends, KillStaleChild, Cancelled
<1>2. /\ child' \in [Starts -> {"none", "alive", "signalled"}]
      /\ \A c \in Starts : child'[c] = "alive" => child[c] = "alive" /\ (process' # process => c # s)
  BY <1>1, KilledIsTold DEF SidecarInv, SidecarTypeOK
<1>3. SidecarTypeOK'
  BY <1>1, <1>2 DEF SidecarInv, SidecarTypeOK, Cleared
<1>4. NoOrphans'
  BY <1>1, <1>2 DEF SidecarInv, NoOrphans, Cleared
<1>5. OwnChild' /\ NobodyStarts'
  BY <1>1 DEF SidecarInv, SidecarTypeOK, OwnChild, NobodyStarts, Cleared
<1>6. PromiseIsCurrent' /\ StartingIsGoing'
  BY <1>1, SidecarAssumption
     DEF SidecarInv, SidecarTypeOK, PromiseIsCurrent, StartingIsGoing, Cleared
<1> QED BY <1>3, <1>4, <1>5, <1>6 DEF SidecarInv

\* A start that spawns its child finds no other: it is the current one.
LEMMA SpawnKeeps ==
  ASSUME SidecarInv, NEW s \in Starts, Spawn(s) PROVE SidecarInv'
<1>1. generation = s /\ status # "stopped" /\ process = None
  BY DEF Spawn, Cancelled, SidecarInv, OwnChild
<1>2. SidecarTypeOK'
  BY DEF Spawn, SidecarInv, SidecarTypeOK
<1>3. NoOrphans'
  BY <1>1, SidecarAssumption DEF Spawn, SidecarInv, SidecarTypeOK, NoOrphans
<1>4. OwnChild' /\ NobodyStarts'
  BY <1>1, SidecarAssumption DEF Spawn, SidecarInv, SidecarTypeOK, OwnChild, NobodyStarts
<1>5. PromiseIsCurrent' /\ StartingIsGoing'
  BY <1>1 DEF Spawn, SidecarInv, SidecarTypeOK, PromiseIsCurrent, StartingIsGoing
<1> QED BY <1>2, <1>3, <1>4, <1>5 DEF SidecarInv

LEMMA SpawnFailsKeeps ==
  ASSUME SidecarInv, NEW s \in Starts, SpawnFails(s) PROVE SidecarInv'
<1>1. /\ at[s] = "spawned"
      /\ at' = [at EXCEPT ![s] = "over"]
      /\ promise' = Cleared(promise, s)
      /\ child' = [child EXCEPT ![s] = "none"]
      /\ heard' = heard \ {s}
      /\ UNCHANGED <<generation, token, port, backoff, failures, stopping, wanted>>
  BY DEF SpawnFails, Ends
<1>2. /\ process' \in {process, None}
      /\ process' # process => process = s
      /\ status' \in {status, "error"}
      /\ generation = s /\ status # "stopped" => status' = "error"
  BY DEF SpawnFails, Cancelled, Cleared, SidecarInv, OwnChild
<1>3. SidecarTypeOK'
  BY <1>1, <1>2 DEF SidecarInv, SidecarTypeOK, Cleared
<1>4. NoOrphans'
  BY <1>1, <1>2 DEF SidecarInv, SidecarTypeOK, NoOrphans
<1>5. OwnChild' /\ NobodyStarts'
  BY <1>1, <1>2 DEF SidecarInv, SidecarTypeOK, OwnChild, NobodyStarts
<1>6. PromiseIsCurrent' /\ StartingIsGoing'
  BY <1>1, <1>2, SidecarAssumption
     DEF SidecarInv, SidecarTypeOK, PromiseIsCurrent, StartingIsGoing, Cleared
<1> QED BY <1>3, <1>4, <1>5, <1>6 DEF SidecarInv

\* The awaits of a start that just go on, and the last one.
LEMMA GoingOnKeeps ==
  ASSUME SidecarInv, NEW s \in Starts,
         SendToken(s) \/ PortLine(s) \/ HealthAnswers(s)
  PROVE  SidecarInv'
<1>1. PICK next \in {"booting", "polling", "answered"} :
        /\ at[s] # "over" /\ at[s] # "port"
        /\ at' = [at EXCEPT ![s] = next]
        /\ token' \in {token, s}
        /\ UNCHANGED <<status, generation, promise, process, port, backoff, failures,
                       child, heard, stopping, wanted>>
  BY DEF SendToken, PortLine, HealthAnswers
<1>2. SidecarTypeOK'
  BY <1>1 DEF SidecarInv, SidecarTypeOK
<1>3. NoOrphans' /\ NobodyStarts'
  BY <1>1 DEF SidecarInv, NoOrphans, NobodyStarts
<1>4. OwnChild' /\ PromiseIsCurrent' /\ StartingIsGoing'
  BY <1>1 DEF SidecarInv, SidecarTypeOK, OwnChild, PromiseIsCurrent, StartingIsGoing
<1> QED BY <1>2, <1>3, <1>4 DEF SidecarInv

LEMMA HealthyKeeps ==
  ASSUME SidecarInv, NEW s \in Starts, Healthy(s) PROVE SidecarInv'
<1>1. SidecarTypeOK'
  <2>1. 0 \in 0..MaxFailures
    BY SidecarAssumption
  <2> QED BY <2>1 DEF Healthy, Ends, Cleared, SidecarInv, SidecarTypeOK
<1>2. NoOrphans' /\ NobodyStarts'
  BY DEF Healthy, Ends, SidecarInv, NoOrphans, NobodyStarts
<1>3. OwnChild' /\ PromiseIsCurrent' /\ StartingIsGoing'
  BY DEF Healthy, Ends, SidecarInv, SidecarTypeOK, OwnChild, PromiseIsCurrent, StartingIsGoing
<1> QED BY <1>1, <1>2, <1>3 DEF SidecarInv

\* The exits of children, heard or not.
LEMMA ExitKeeps ==
  ASSUME SidecarInv, NEW s \in Starts, ExitUnheard(s) \/ Crashes(s) PROVE SidecarInv'
<1>1. CASE ExitUnheard(s)
  <2>1. SidecarTypeOK' /\ NoOrphans'
    BY <1>1 DEF ExitUnheard, SidecarInv, SidecarTypeOK, NoOrphans
  <2> QED BY <1>1, <2>1 DEF ExitUnheard, SidecarInv, OwnChild, NobodyStarts,
                            PromiseIsCurrent, StartingIsGoing
<1>2. CASE Crashes(s)
  <2>1. /\ process = s /\ process' = None /\ token' = None
        /\ child' = [child EXCEPT ![s] = "none"]
        /\ UNCHANGED <<generation, port, at, heard, stopping, wanted>>
    BY <1>2 DEF Crashes
  <2>2. wanted
    BY <2>1, SidecarAssumption DEF SidecarInv, NobodyStarts
  <2>3. failures \in 0..MaxFailures /\ MaxFailures \in Nat \ {0}
    BY SidecarAssumption DEF SidecarInv, SidecarTypeOK
  <2>4. /\ status' \in {"starting", "error"}
        /\ failures' \in 0..MaxFailures
        /\ promise' \in {promise, None}
        /\ backoff' \in BOOLEAN
        /\ status' = "starting" => backoff' /\ promise' = None
    <3>1. GivesUp \/ SchedulesRestart
      BY <1>2 DEF Crashes
    <3>2. CASE GivesUp
      <4>1. MaxFailures \in 0..MaxFailures
        BY <2>3
      <4> QED BY <3>2, <4>1 DEF GivesUp, SidecarInv, SidecarTypeOK
    <3>3. CASE SchedulesRestart
      <4>1. failures + 1 < MaxFailures => failures + 1 \in 0..MaxFailures
        BY <2>3
      <4> QED BY <3>3, <4>1 DEF SchedulesRestart
    <3> QED BY <3>1, <3>2, <3>3
  <2>5. SidecarTypeOK'
    BY <2>1, <2>4 DEF SidecarInv, SidecarTypeOK
  <2>6. NoOrphans' /\ OwnChild'
    BY <2>1 DEF SidecarInv, SidecarTypeOK, NoOrphans, OwnChild
  <2>7. NobodyStarts' /\ PromiseIsCurrent' /\ StartingIsGoing'
    BY <2>1, <2>2, <2>4 DEF NobodyStarts, PromiseIsCurrent, StartingIsGoing
  <2> QED BY <2>5, <2>6, <2>7 DEF SidecarInv
<1> QED BY <1>1, <1>2

-----------------------------------------------------------------------------
\* Every step of the manager keeps the invariant.
LEMMA SidecarNextKeeps == ASSUME SidecarInv, [SidecarNext]_sidecarVars PROVE SidecarInv'
<1>1. ASSUME NEW s \in Starts, Start(s) \/ BackoffFires(s) PROVE SidecarInv'
  BY <1>1, BeginKeeps DEF Start, BackoffFires
<1>2. ASSUME NEW s \in Starts, Advance(s) PROVE SidecarInv'
  BY <1>2, ThrowingKeeps, StaleKeeps, SpawnKeeps, SpawnFailsKeeps, GoingOnKeeps,
     HealthyKeeps DEF Advance
<1>3. CASE UNCHANGED sidecarVars
  BY <1>3 DEF sidecarVars, SidecarInv, SidecarTypeOK, NoOrphans, OwnChild, NobodyStarts,
              PromiseIsCurrent, StartingIsGoing
<1> QED BY <1>1, <1>2, <1>3, StopKeeps, LateKeeps, ExitKeeps DEF SidecarNext

\* The invariant of the sidecar manager, from which the next three follow.
THEOREM SidecarInvariant == SidecarSpec => []SidecarInv
<1>1. SidecarInit => SidecarInv
  BY SidecarInitInv
<1>2. SidecarInv /\ [SidecarNext]_sidecarVars => SidecarInv'
  BY SidecarNextKeeps
<1> QED BY <1>1, <1>2, PTL DEF SidecarSpec

\* However starts, stops, restarts and crashes overlap, a child that was not
\* told to go is the one that the manager has.
THEOREM NeverOrphans == SidecarSpec => []NoOrphans
<1>1. SidecarInv => NoOrphans
  BY DEF SidecarInv
<1> QED BY <1>1, SidecarInvariant, PTL

\* Once stopped the manager stays without a child until it is started.
THEOREM StopAlwaysSticks == SidecarSpec => []StopSticks
<1>1. SidecarInv => StopSticks
  BY SidecarAssumption DEF SidecarInv, NobodyStarts, StopSticks, Cancelled
<1> QED BY <1>1, SidecarInvariant, PTL

\* Whoever waits for a manager that is starting waits for something.
THEOREM StartingAlwaysGoes == SidecarSpec => []StartingIsGoing
<1>1. SidecarInv => StartingIsGoing
  BY DEF SidecarInv
<1> QED BY <1>1, SidecarInvariant, PTL

-----------------------------------------------------------------------------
(* Whose endpoint the manager tells.                                       *)

\* A start that has its child, and one whose child has its token.
Spawned == {"spawned", "booting", "polling", "answered"}
Talking == {"booting", "polling", "answered"}

NobodySpawned == \A s \in Starts : at[s] # "spawned"

\* A stop that will take the port at its end was followed by no start.
LatestIsLast == \A s \in Starts : stopping[s] = "latest" => generation = None

\* Between its spawn and its token a start is alone.
OneSpawned == \A s, r \in Starts : at[s] = "spawned" /\ at[r] = "spawned" => s = r

\* The port is that of the current start from its spawn on.
PortIsOwn == \A s \in Starts : generation = s /\ at[s] \in Spawned => port = s

\* The token is its own from the moment it was sent, unless its child has
\* crashed, and no start is left that could mint another one.
TokenIsOwn == \A s \in Starts : generation = s /\ at[s] \in Talking =>
                /\ process # None => token = s
                /\ NobodySpawned

\* What runs is the child of the last start, which is over.
RunningIsOwn ==
  status = "running" =>
    /\ generation # None /\ at[generation] = "over"
    /\ process # None => /\ process = generation
                         /\ port = process /\ token = process
    /\ NobodySpawned

EndpointParts == LatestIsLast /\ OneSpawned /\ PortIsOwn /\ TokenIsOwn /\ RunningIsOwn

EndpointInv == SidecarInv /\ EndpointParts

LEMMA EndpointInit == SidecarInit => EndpointInv
  BY SidecarInitInv
     DEF SidecarInit, EndpointInv, EndpointParts, LatestIsLast, OneSpawned, PortIsOwn,
         TokenIsOwn, RunningIsOwn, NobodySpawned, Spawned, Talking

\* A new start is current, has nothing yet, and no stop is the latest.
LEMMA BeginOwns ==
  ASSUME EndpointInv, NEW s \in Starts, Begin(s), wanted' = TRUE \/ backoff
  PROVE  EndpointParts'
<1>1. /\ status' = "starting" /\ generation' = s
      /\ at' = [at EXCEPT ![s] = "port"] /\ at[s] = "over"
      /\ stopping' = Superseded
  BY DEF Begin, Forgotten
<1>2. at'[s] = "port" /\ \A r \in Starts : r # s => at'[r] = at[r]
  BY <1>1 DEF EndpointInv, SidecarInv, SidecarTypeOK
<1>3. \A r \in Starts : stopping'[r] # "latest"
  BY <1>1 DEF Superseded, EndpointInv, SidecarInv, SidecarTypeOK
<1> QED
  BY <1>1, <1>2, <1>3
     DEF EndpointInv, EndpointParts, LatestIsLast, OneSpawned, PortIsOwn, TokenIsOwn,
         RunningIsOwn, Spawned, Talking

LEMMA StopOwns == ASSUME EndpointInv, Stop PROVE EndpointParts'
<1>1. generation' = None /\ status' = "stopped" /\ at' = at
  BY DEF Stop
<1> QED
  BY <1>1, SidecarAssumption
     DEF EndpointInv, EndpointParts, LatestIsLast, OneSpawned, PortIsOwn, TokenIsOwn,
         RunningIsOwn, Spawned, Talking

\* The end of a stop takes the port only while there is no current start.
LEMMA StopEndOwns ==
  ASSUME EndpointInv, NEW s \in Starts, StopEnds(s) PROVE EndpointParts'
<1>1. /\ port' = IF stopping[s] = "latest" THEN None ELSE port
      /\ UNCHANGED <<status, generation, process, token, at>>
  BY DEF StopEnds
<1>2. LatestIsLast'
  BY DEF StopEnds, EndpointInv, SidecarInv, SidecarTypeOK, EndpointParts, LatestIsLast
<1>3. port' = port \/ generation = None
  BY <1>1 DEF EndpointInv, EndpointParts, LatestIsLast
<1>4. PortIsOwn' /\ RunningIsOwn'
  BY <1>1, <1>3, SidecarAssumption
     DEF EndpointInv, EndpointParts, PortIsOwn, RunningIsOwn, NobodySpawned
<1>5. OneSpawned' /\ TokenIsOwn'
  BY <1>1 DEF EndpointInv, EndpointParts, OneSpawned, TokenIsOwn, NobodySpawned
<1> QED BY <1>2, <1>4, <1>5 DEF EndpointParts

\* The end of start s, however it comes: it takes back at most its own token
\* and its own child, and what runs is not its own.
LEMMA EndOwns ==
  ASSUME EndpointInv, NEW s \in Starts, at[s] # "over",
         at' = [at EXCEPT ![s] = "over"],
         token' \in {token, Cleared(token, s)},
         process' \in {process, None},
         status' \in {status, "error"},
         UNCHANGED <<generation, port, stopping>>
  PROVE  EndpointParts'
<1>1. at'[s] = "over" /\ \A r \in Starts : r # s => at'[r] = at[r]
  BY DEF EndpointInv, SidecarInv, SidecarTypeOK
<1>2. \A r \in Starts : r # s /\ token = r => token' = r
  BY DEF Cleared
<1>3. LatestIsLast' /\ OneSpawned' /\ PortIsOwn'
  BY <1>1 DEF EndpointInv, EndpointParts, LatestIsLast, OneSpawned, PortIsOwn, Spawned
<1>4. NobodySpawned => NobodySpawned'
  BY <1>1 DEF NobodySpawned
<1>5. TokenIsOwn'
  <2> SUFFICES ASSUME NEW r \in Starts, generation = r, at'[r] \in Talking
               PROVE  (process' # None => token' = r) /\ NobodySpawned'
    BY DEF TokenIsOwn
  <2>1. r # s /\ at[r] \in Talking
    BY <1>1 DEF Talking
  <2>2. (process # None => token = r) /\ NobodySpawned
    BY <2>1 DEF EndpointInv, EndpointParts, TokenIsOwn
  <2> QED BY <1>2, <1>4, <2>1, <2>2
<1>6. RunningIsOwn'
  <2> SUFFICES ASSUME status' = "running" PROVE RunningIsOwn'
    BY DEF RunningIsOwn
  <2>1. /\ status = "running" /\ generation \in Starts /\ at[generation] = "over"
        /\ process # None => process = generation /\ port = process /\ token = process
        /\ NobodySpawned
    BY DEF EndpointInv, EndpointParts, RunningIsOwn, SidecarInv, SidecarTypeOK
  <2>2. generation # s /\ at'[generation] = "over"
    BY <1>1, <2>1
  <2> QED BY <1>2, <1>4, <2>1, <2>2, SidecarAssumption DEF RunningIsOwn
<1> QED BY <1>3, <1>5, <1>6 DEF EndpointParts

\* The ways in which a start ends without success.
LEMMA FailingOwns ==
  ASSUME EndpointInv, NEW s \in Starts,
         \/ Throws(s) \/ FindsItselfStale(s) \/ SpawnFails(s)
         \/ StaleChildAnswers(s) \/ PollFindsNoProcess(s) \/ PollTimesOut(s)
  PROVE  EndpointParts'
<1>1. /\ at[s] # "over" /\ at' = [at EXCEPT ![s] = "over"]
      /\ status' \in {status, "error"}
      /\ UNCHANGED <<generation, port, stopping>>
  BY DEF Throws, FindsItselfStale, SpawnFails, StaleChildAnswers, PollFindsNoProcess,
         PollTimesOut, Catch, Ends
<1>2. token' \in {token, Cleared(token, s)} /\ process' \in {process, None}
  BY DEF Throws, FindsItselfStale, SpawnFails, StaleChildAnswers, PollFindsNoProcess,
         PollTimesOut, Catch, KillStaleChild, Cleared
<1> QED BY <1>1, <1>2, EndOwns

\* Nobody else is between spawn and token when the current start spawns.
LEMMA SpawnOwns == ASSUME EndpointInv, NEW s \in Starts, Spawn(s) PROVE EndpointParts'
<1>1. /\ generation = s /\ at[s] = "port" /\ port' = s
      /\ at' = [at EXCEPT ![s] = "spawned"] /\ NobodySpawned
      /\ UNCHANGED <<status, generation, stopping>>
  BY DEF Spawn, Cancelled, NobodySpawned
<1>2. at'[s] = "spawned" /\ \A r \in Starts : r # s => at'[r] = at[r]
  BY <1>1 DEF EndpointInv, SidecarInv, SidecarTypeOK
<1>3. status # "running"
  BY <1>1 DEF EndpointInv, EndpointParts, RunningIsOwn
<1> QED
  BY <1>1, <1>2, <1>3
     DEF EndpointInv, EndpointParts, LatestIsLast, OneSpawned, PortIsOwn, TokenIsOwn,
         RunningIsOwn, NobodySpawned, Talking

\* The token is minted whether or not the start is still current; if it is
\* not, no current start has its own yet.
LEMMA SendTokenOwns ==
  ASSUME EndpointInv, NEW s \in Starts, SendToken(s) PROVE EndpointParts'
<1>1. /\ at[s] = "spawned" /\ token' = s /\ at' = [at EXCEPT ![s] = "booting"]
      /\ UNCHANGED <<status, generation, process, port, stopping>>
  BY DEF SendToken
<1>2. at'[s] = "booting" /\ \A r \in Starts : r # s => at'[r] = at[r]
  BY <1>1 DEF EndpointInv, SidecarInv, SidecarTypeOK
<1>3. NobodySpawned'
  BY <1>1, <1>2 DEF EndpointInv, EndpointParts, OneSpawned, NobodySpawned
<1>4. status # "running" /\ ~NobodySpawned
  BY <1>1 DEF EndpointInv, EndpointParts, RunningIsOwn, NobodySpawned
<1>5. LatestIsLast' /\ OneSpawned' /\ RunningIsOwn'
  BY <1>1, <1>3, <1>4
     DEF EndpointInv, EndpointParts, LatestIsLast, OneSpawned, RunningIsOwn, NobodySpawned
<1>6. PortIsOwn'
  BY <1>1, <1>2 DEF EndpointInv, EndpointParts, PortIsOwn, Spawned
<1>7. TokenIsOwn'
  BY <1>1, <1>2, <1>3, <1>4 DEF EndpointInv, EndpointParts, TokenIsOwn
<1> QED BY <1>5, <1>6, <1>7 DEF EndpointParts

\* The other awaits of a start that go on.
LEMMA AnswersOwn ==
  ASSUME EndpointInv, NEW s \in Starts, PortLine(s) \/ HealthAnswers(s)
  PROVE  EndpointParts'
<1>1. PICK next \in {"polling", "answered"} :
        /\ at[s] \in Talking /\ at' = [at EXCEPT ![s] = next]
        /\ UNCHANGED <<status, generation, process, token, port, stopping>>
  BY DEF PortLine, HealthAnswers, Talking
<1>2. at'[s] \in Talking /\ \A r \in Starts : r # s => at'[r] = at[r]
  BY <1>1 DEF EndpointInv, SidecarInv, SidecarTypeOK, Talking
<1>3. /\ \A r \in Starts : at'[r] \in Talking <=> at[r] \in Talking
      /\ \A r \in Starts : at'[r] \in Spawned <=> at[r] \in Spawned
      /\ \A r \in Starts : at'[r] = "spawned" <=> at[r] = "spawned"
      /\ \A r \in Starts : at'[r] = "over" <=> at[r] = "over"
  BY <1>1, <1>2 DEF Talking, Spawned
<1>4. LatestIsLast' /\ OneSpawned' /\ PortIsOwn' /\ TokenIsOwn'
  BY <1>1, <1>3
     DEF EndpointInv, EndpointParts, LatestIsLast, OneSpawned, PortIsOwn, TokenIsOwn,
         NobodySpawned
<1>5. RunningIsOwn'
  BY <1>1, <1>3
     DEF EndpointInv, EndpointParts, RunningIsOwn, NobodySpawned, SidecarInv, SidecarTypeOK
<1> QED BY <1>4, <1>5 DEF EndpointParts

\* The start that makes the manager run is current, so that it is its child,
\* its port and its token.
LEMMA HealthyOwns == ASSUME EndpointInv, NEW s \in Starts, Healthy(s) PROVE EndpointParts'
<1>1. /\ generation = s /\ at[s] = "answered"
      /\ at' = [at EXCEPT ![s] = "over"]
      /\ UNCHANGED <<generation, process, token, port, stopping>>
  BY DEF Healthy, Cancelled, Ends
<1>2. at'[s] = "over" /\ \A r \in Starts : r # s => at'[r] = at[r]
  BY <1>1 DEF EndpointInv, SidecarInv, SidecarTypeOK
<1>3. /\ port = s /\ process \in {s, None}
      /\ process # None => token = s
      /\ NobodySpawned
  BY <1>1 DEF EndpointInv, EndpointParts, PortIsOwn, TokenIsOwn, SidecarInv, OwnChild,
              Spawned, Talking
<1>4. NobodySpawned'
  BY <1>2, <1>3 DEF NobodySpawned
<1>5. RunningIsOwn'
  BY <1>1, <1>2, <1>3, <1>4, SidecarAssumption DEF RunningIsOwn
<1>6. LatestIsLast' /\ OneSpawned' /\ PortIsOwn' /\ TokenIsOwn'
  BY <1>1, <1>2, <1>4
     DEF EndpointInv, EndpointParts, LatestIsLast, OneSpawned, PortIsOwn, TokenIsOwn,
         NobodySpawned, Spawned, Talking
<1> QED BY <1>5, <1>6 DEF EndpointParts

\* A crash leaves the manager without a process, and not running.
LEMMA CrashOwns == ASSUME EndpointInv, NEW s \in Starts, Crashes(s) PROVE EndpointParts'
<1>1. /\ process' = None /\ status' \in {"starting", "error"}
      /\ UNCHANGED <<generation, port, at, stopping>>
  BY DEF Crashes, GivesUp, SchedulesRestart
<1> QED
  BY <1>1 DEF EndpointInv, EndpointParts, LatestIsLast, OneSpawned, PortIsOwn, TokenIsOwn,
              RunningIsOwn, NobodySpawned

\* What else happens touches nothing of this.
LEMMA OthersOwn ==
  ASSUME EndpointInv,
         BackoffFiresLate \/ (\E s \in Starts : ExitUnheard(s)) \/ UNCHANGED sidecarVars
  PROVE  EndpointParts'
<1>1. UNCHANGED <<status, generation, process, token, port, at, stopping>>
  BY DEF BackoffFiresLate, ExitUnheard, sidecarVars
<1> QED
  BY <1>1 DEF EndpointInv, EndpointParts, LatestIsLast, OneSpawned, PortIsOwn, TokenIsOwn,
              RunningIsOwn, NobodySpawned

\* The invariant about the endpoint, on top of the one about the children.
THEOREM EndpointInvariant == SidecarSpec => []EndpointInv
<1>1. ASSUME EndpointInv, [SidecarNext]_sidecarVars PROVE EndpointInv'
  <2>1. SidecarInv'
    BY <1>1, SidecarNextKeeps DEF EndpointInv
  <2>2. ASSUME NEW s \in Starts, Start(s) \/ BackoffFires(s) PROVE EndpointParts'
    BY <1>1, <2>2, BeginOwns DEF Start, BackoffFires
  <2>3. ASSUME NEW s \in Starts, Advance(s) PROVE EndpointParts'
    BY <1>1, <2>3, FailingOwns, SpawnOwns, SendTokenOwns, AnswersOwn, HealthyOwns DEF Advance
  <2>4. ASSUME NEW s \in Starts, StopEnds(s) \/ ExitUnheard(s) \/ Crashes(s)
        PROVE  EndpointParts'
    BY <1>1, <2>4, StopEndOwns, CrashOwns, OthersOwn
  <2>5. EndpointParts'
    BY <1>1, <2>2, <2>3, <2>4, StopOwns, OthersOwn DEF SidecarNext
  <2> QED BY <2>1, <2>5 DEF EndpointInv
<1> QED BY <1>1, EndpointInit, PTL DEF SidecarSpec

\* The port and the token that a running manager tells belong to the child it
\* has, however starts, stops and crashes overlapped before.
THEOREM EndpointAlwaysOwn == SidecarSpec => []EndpointIsOwn
<1>1. EndpointInv => EndpointIsOwn
  BY DEF EndpointInv, EndpointParts, RunningIsOwn, EndpointIsOwn
<1> QED BY <1>1, EndpointInvariant, PTL
=============================================================================
