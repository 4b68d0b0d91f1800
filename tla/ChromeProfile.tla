---------------------------- MODULE ChromeProfile ----------------------------
(***************************************************************************)
(* Control of the user's Chrome: the authorization and the adapter in the  *)
(* Pi process, the loopback bridge that carries its commands, and the      *)
(* companions (one browser extension each) that poll the bridge and obey.  *)
(*                                                                         *)
(* A call is one invocation of the adapter.  Every await in it is a point  *)
(* where the other calls, the bridge's timers and the companions run, so   *)
(* a call moves                                                            *)
(*    idle -> preparing -> posted -> waiting -> back -> done               *)
(* and whatever it read before may be stale when it goes on.  A grant is   *)
(* named by the authorize call that asked for it; a command by its call    *)
(* and its kind.  The revocation of a grant reports nothing to anybody, so *)
(* its command travels in the record of the authorize call it undoes.      *)
(***************************************************************************)
EXTENDS Integers, SequencesExt

CONSTANTS Authorizes, Uses,  \* the calls; a use executes or renews
          Companions,
          MaxEvents,         \* bound on disruptions from outside
          None

Calls == Authorizes \cup Uses

\* What a call learns: the companion's answer, or that send threw.
Answers == {"ok", "error", "thrown"}

Kinds    == {"authorize", "execute", "renew", "revoke", "cleanup"}
Commands == [call : Calls, kind : Kinds]

ASSUME ChromeAssumption ==
  /\ MaxEvents \in Nat
  /\ None \notin Calls \cup Commands \cup Companions \cup Kinds \cup Answers
  /\ Authorizes \cap Uses = {}

VARIABLES
  auth,     \* the live and the staged grant
  enabled,  \* the automation kill switch
  lapsed,   \* the grants whose time to live is over
  target,   \* the companion the adapter addresses
  frozen,   \* the grant under which the hostname is frozen
  call,     \* the calls
  up,       \* the bridge server runs
  known,    \* the companions registered with it
  waiters,  \* the commands whose result it waits for
  queue,    \* the commands not yet polled, per companion
  comp,     \* the companions
  events,   \* how many disruptions there were
  \* History, read by no action:
  ended,    \* grants that were live or staged and are no longer
  acked,    \* grants a companion has accepted
  runs      \* how often each execute was started in a browser

pi     == <<auth, enabled, lapsed, target, frozen>>
bridge == <<up, known, waiters, queue>>
past   == <<events, acked, runs>>
vars   == <<pi, call, bridge, comp, past, ended>>

Grants == Authorizes \cup {None}
CallRecords ==
  [at : {"idle", "preparing", "posted", "waiting", "back", "done"}, kind : Kinds \cup {None},
   grant : Grants, to : Companions \cup {None}, res : Answers \cup {None}]
CompanionRecords ==
  [at : {"idle", "got", "running", "posting"},
   job : Commands \cup {None}, res : {None, "ok", "error"},
   grant : Grants, leased : BOOLEAN]

ChromeTypeOK ==
  /\ auth \in [live : Grants, staged : Grants]
  /\ enabled \in BOOLEAN /\ lapsed \subseteq Authorizes
  /\ target \in Companions \cup {None} /\ frozen \in Grants
  /\ call \in [Calls -> CallRecords]
  /\ up \in BOOLEAN /\ known \subseteq Companions
  /\ waiters \subseteq Commands
  /\ queue \in [Companions -> Seq(Commands)]
  /\ comp \in [Companions -> CompanionRecords]
  /\ events \in 0..MaxEvents
  /\ ended \subseteq Authorizes /\ acked \subseteq Authorizes
  /\ runs \in [Uses -> Nat]

Locked    == [live |-> None, staged |-> None]
Forgotten == [at |-> "idle", job |-> None, res |-> None,
              grant |-> None, leased |-> FALSE]

ChromeInit ==
  /\ auth = Locked /\ enabled = TRUE /\ lapsed = {} /\ target = None /\ frozen = None
  /\ call = [c \in Calls |-> [at |-> "idle", kind |-> None, grant |-> None,
                              to |-> None, res |-> None]]
  /\ up = TRUE /\ known = {} /\ waiters = {}
  /\ queue = [p \in Companions |-> <<>>]
  /\ comp = [p \in Companions |-> Forgotten]
  /\ events = 0 /\ ended = {} /\ acked = {} /\ runs = [e \in Uses |-> 0]

-----------------------------------------------------------------------------
(* The authorization: a grant expires when somebody looks.                 *)

\* A revocation, the kill switch, the end of a time to live or of the session,
\* a lost connection or worker.
Disrupts == events < MaxEvents /\ events' = events + 1

\* status(): what is left of the authorization once it has been read.
Read(a) == IF a.live \in lapsed THEN Locked ELSE a

\* purgeIfLocked() after the authorization has become a.
PurgedIfLocked(a) == IF a.live = None THEN None ELSE frozen

Ends(c, res) == call' = [call EXCEPT ![c] = [@ EXCEPT !.at = "done", !.res = res]]

Posts(c, kind, g, p) ==
  call' = [call EXCEPT ![c] = [at |-> "posted", kind |-> kind, grant |-> g,
                               to |-> p, res |-> None]]

\* A time to live runs out; nobody is told.
Lapse(g) ==
  /\ g \in {auth.live, auth.staged} \ ({None} \cup lapsed)
  /\ lapsed' = lapsed \cup {g}
  /\ Disrupts
  /\ UNCHANGED <<auth, enabled, target, frozen, call, bridge, comp, acked, runs>>

SetAutomationEnabled(b) ==
  /\ enabled # b /\ Disrupts
  /\ enabled' = b
  /\ auth' = IF b THEN auth ELSE Locked
  /\ frozen' = IF b THEN frozen ELSE None
  /\ UNCHANGED <<lapsed, target, call, bridge, comp, acked, runs>>

-----------------------------------------------------------------------------
(* The adapter's calls, up to the first await.                             *)

StageAuthorize(c, p) ==
  /\ call[c].at = "idle" /\ c \in Authorizes /\ p \in known
  /\ enabled /\ auth.staged = None
  /\ auth' = [auth EXCEPT !.staged = c]
  /\ target' = p
  /\ Posts(c, "authorize", c, p)
  /\ UNCHANGED <<enabled, lapsed, frozen, bridge, comp, past>>

\* No companion is selected, or this process has no token of the bridge: what
\* was staged is discarded in the same step.
StageAborts(c) ==
  /\ call[c].at = "idle" /\ c \in Authorizes
  /\ enabled /\ auth.staged = None
  /\ auth' = Read(auth)
  /\ frozen' = PurgedIfLocked(auth')
  /\ Ends(c, "error")
  /\ UNCHANGED <<enabled, lapsed, target, bridge, comp, past>>

RefuseAuthorize(c) ==
  /\ call[c].at = "idle" /\ c \in Authorizes
  /\ ~enabled \/ auth.staged # None
  /\ Ends(c, "error")
  /\ UNCHANGED <<pi, bridge, comp, past>>

StartExecute(c) ==
  /\ call[c].at = "idle" /\ c \in Uses
  /\ auth' = IF enabled THEN Read(auth) ELSE auth
  /\ IF enabled /\ auth'.live # None
     THEN call' = [call EXCEPT ![c] = [@ EXCEPT !.at = "preparing", !.grant = auth'.live, !.kind = "execute"]]
     ELSE Ends(c, "error")
  /\ UNCHANGED <<enabled, lapsed, target, frozen, bridge, comp, past>>

\* The name look-up is over, well or badly.  The grant is the one that was
\* live before it, the companion the one that is addressed now.
PrepareOperation(c) ==
  /\ call[c].at = "preparing"
  /\ \/ target # None /\ Posts(c, "execute", call[c].grant, target)
     \/ Ends(c, "error")
  /\ UNCHANGED <<pi, bridge, comp, past>>

\* The renewal timer finds a live grant whose lease is near its end.  Nothing is
\* sent without a target or without a token of the bridge.
StartRenew(c) ==
  /\ call[c].at = "idle" /\ c \in Uses
  /\ enabled /\ auth.live # None
  /\ auth' = Read(auth)
  /\ \/ auth'.live # None /\ target # None /\ Posts(c, "renew", auth'.live, target)
     \/ Ends(c, "error")
  /\ UNCHANGED <<enabled, lapsed, target, frozen, bridge, comp, past>>

\* revoke() and shutdown(): the local lock first, then the remote clean-up, for
\* which there may be no token.
Revoke ==
  LET g == Read(auth).live IN
  /\ auth # Locked /\ Disrupts
  /\ auth' = Locked /\ frozen' = None
  /\ (g # None /\ Posts(g, "revoke", g, target)) \/ UNCHANGED call
  /\ UNCHANGED <<enabled, lapsed, target, bridge, comp, acked, runs>>

-----------------------------------------------------------------------------
(* The bridge: commands wait in a queue per companion, callers for their   *)
(* results.                                                                *)

Cmd(c) == [call |-> c, kind |-> call[c].kind]

Back(c, res) == [call EXCEPT ![c] = [@ EXCEPT !.at = "back", !.res = res]]

\* The caller of k learns res, if it still waits for it.
Told(k, res) == IF call[k.call].at = "waiting" /\ call[k.call].kind = k.kind
                THEN Back(k.call, res) ELSE call

\* A command that nobody has polled yet leaves the queue it is in.
Dropped(k) ==
  \/ \E p \in Companions : \E i \in 1..Len(queue[p]) :
       queue[p][i] = k /\ queue' = [queue EXCEPT ![p] = RemoveAt(@, i)]
  \/ (\A p \in Companions : \A i \in 1..Len(queue[p]) : queue[p][i] # k) /\ UNCHANGED queue

\* A poll that waits is one that takes the command from the queue next; one
\* whose connection broke, and whose close was not yet seen, swallows it.
Enqueue(k, p) ==
  \/ queue' = [queue EXCEPT ![p] = Append(@, k)] /\ UNCHANGED events
  \/ Disrupts /\ UNCHANGED queue

HandleCommand(c) ==
  /\ call[c].at = "posted"
  /\ IF up /\ call[c].to \in known
     THEN /\ waiters' = waiters \cup {Cmd(c)}
          /\ call' = [call EXCEPT ![c] = [@ EXCEPT !.at = "waiting"]]
          /\ Enqueue(Cmd(c), call[c].to)
     ELSE call' = Back(c, "thrown") /\ UNCHANGED <<waiters, queue, events>>
  /\ UNCHANGED <<pi, up, known, comp, acked, runs>>

\* The bridge's timer, or the close of the caller's connection.
CommandTimeout(k) ==
  /\ k \in waiters
  /\ waiters' = waiters \ {k}
  /\ Dropped(k)
  /\ call' = Told(k, "thrown")
  /\ UNCHANGED <<pi, up, known, comp, past>>

\* Mutant of ClientTimeout: with the timer cleared once the request is sent.
TimesOutUnsent(c) ==
  /\ call[c].at = "posted"
  /\ call' = Back(c, "thrown")
  /\ UNCHANGED <<pi, bridge, comp, past>>

\* The caller's own timer or its abort signal; the bridge need not notice.
ClientTimeout(c) ==
  /\ call[c].at \in {"posted", "waiting"}
  /\ call' = Back(c, "thrown")
  /\ UNCHANGED <<pi, bridge, comp, past>>

\* The session ends: the server stops and every caller is told.
StopServer ==
  /\ up /\ Disrupts
  /\ up' = FALSE /\ known' = {} /\ waiters' = {}
  /\ queue' = [p \in Companions |-> <<>>]
  /\ call' = [c \in Calls |-> IF Cmd(c) \in waiters /\ call[c].at = "waiting"
                              THEN [call[c] EXCEPT !.at = "back", !.res = "thrown"]
                              ELSE call[c]]
  /\ UNCHANGED <<pi, comp, acked, runs>>

-----------------------------------------------------------------------------
(* A companion: it polls, obeys one command, posts the result.             *)

\* A companion announces itself, with /register or with a poll.
HandleRegister(p) ==
  /\ up /\ p \notin known
  /\ known' = known \cup {p}
  /\ UNCHANGED <<pi, call, up, waiters, queue, comp, past>>

\* Mutant of HandleNext: with the command queued again until it is answered.
RedeliversNext(p) ==
  /\ up /\ comp[p].at = "idle" /\ queue[p] # <<>>
  /\ comp' = [comp EXCEPT ![p] = [@ EXCEPT !.at = "got", !.job = Head(queue[p])]]
  /\ queue' = [queue EXCEPT ![p] = Append(Tail(@), Head(@))]
  /\ UNCHANGED <<pi, call, up, known, waiters, past>>

\* A poll is answered with the oldest command for that companion, which is
\* then out of the reach of the bridge.
HandleNext(p) ==
  /\ up /\ comp[p].at = "idle" /\ queue[p] # <<>>
  /\ comp' = [comp EXCEPT ![p] = [@ EXCEPT !.at = "got", !.job = Head(queue[p])]]
  /\ queue' = [queue EXCEPT ![p] = Tail(@)]
  /\ UNCHANGED <<pi, call, up, known, waiters, past>>

\* Companion p has obeyed its command with result res and holds grant g.
Obeyed(p, res, g, leased) ==
  comp' = [comp EXCEPT ![p] = [at |-> "posting", job |-> comp[p].job, res |-> res,
                               grant |-> g, leased |-> leased]]

Credentials(p) == call[comp[p].job.call].grant
Matches(p)     == comp[p].grant # None /\ comp[p].grant = Credentials(p)

\* Before a command is obeyed: one that is for another companion or carries the
\* token of another bridge session is refused, one that cannot be parsed is
\* skipped without a result.
RefuseRoute(p) ==
  /\ comp[p].at = "got" /\ Disrupts
  /\ \/ Obeyed(p, "error", comp[p].grant, comp[p].leased)
     \/ comp' = [comp EXCEPT ![p] = [@ EXCEPT !.at = "idle", !.job = None, !.res = None]]
  /\ UNCHANGED <<pi, call, bridge, acked, runs>>

\* A new grant replaces whatever grant was there.
OnAuthorize(p) ==
  /\ comp[p].at = "got" /\ comp[p].job.kind = "authorize"
  /\ Obeyed(p, "ok", Credentials(p), TRUE)
  /\ acked' = acked \cup {Credentials(p)}
  /\ UNCHANGED <<pi, call, bridge, events, runs>>

OnRenew(p) ==
  /\ comp[p].at = "got" /\ comp[p].job.kind = "renew"
  /\ Obeyed(p, IF Matches(p) /\ comp[p].leased THEN "ok" ELSE "error",
            comp[p].grant, comp[p].leased)
  /\ UNCHANGED <<pi, call, bridge, past>>

\* Whatever grant the command names, the one that is there ends.
OnRevoke(p) ==
  /\ comp[p].at = "got" /\ comp[p].job.kind \in {"revoke", "cleanup"}
  /\ Obeyed(p, "ok", None, FALSE)
  /\ UNCHANGED <<pi, call, bridge, past>>

CheckExecute(p) ==
  /\ comp[p].at = "got" /\ comp[p].job.kind = "execute"
  /\ IF Matches(p) /\ comp[p].leased
     THEN /\ comp' = [comp EXCEPT ![p] = [@ EXCEPT !.at = "running"]]
          /\ runs' = [runs EXCEPT ![comp[p].job.call] = @ + 1]
     ELSE /\ Obeyed(p, "error", comp[p].grant, comp[p].leased)
          /\ UNCHANGED runs
  /\ UNCHANGED <<pi, call, bridge, events, acked>>

\* The operation succeeds, fails or takes too long.
OperationEnds(p) ==
  /\ comp[p].at = "running"
  /\ \E res \in {"ok", "error"} : Obeyed(p, res, comp[p].grant, comp[p].leased)
  /\ UNCHANGED <<pi, call, bridge, past>>

\* A result nobody waits for is withheld; a post may also be lost.
HandleResult(p) ==
  /\ comp[p].at = "posting"
  /\ comp' = [comp EXCEPT ![p] = [@ EXCEPT !.at = "idle", !.job = None, !.res = None]]
  /\ \/ /\ up /\ comp[p].job \in waiters
        /\ waiters' = waiters \ {comp[p].job}
        /\ call' = Told(comp[p].job, comp[p].res)
        /\ UNCHANGED events
     \/ comp[p].job \notin waiters /\ UNCHANGED <<waiters, call, events>>
     \/ Disrupts /\ UNCHANGED <<waiters, call>>
  /\ UNCHANGED <<pi, up, known, queue, acked, runs>>

LeaseRunsOut(p) ==
  /\ comp[p].leased
  /\ comp' = [comp EXCEPT ![p] = [@ EXCEPT !.leased = FALSE]]
  /\ UNCHANGED <<pi, call, bridge, past>>

\* Mutant of LeaseAlarm: with the test of the lease the wrong way round.
AlarmWhileLeased(p) ==
  /\ comp[p].grant # None /\ comp[p].leased
  /\ comp' = [comp EXCEPT ![p] = [@ EXCEPT !.grant = None]]
  /\ UNCHANGED <<pi, call, bridge, past>>

\* The alarm of the worker: a grant whose lease ran out is revoked.
LeaseAlarm(p) ==
  /\ comp[p].grant # None /\ ~comp[p].leased
  /\ comp' = [comp EXCEPT ![p] = [@ EXCEPT !.grant = None]]
  /\ UNCHANGED <<pi, call, bridge, past>>

\* Chrome stops the worker: its memory is lost, and what it was doing.
WorkerDies(p) ==
  /\ Disrupts
  /\ comp' = [comp EXCEPT ![p] = Forgotten]
  /\ UNCHANGED <<pi, call, up, known, waiters, queue, acked, runs>>

-----------------------------------------------------------------------------
(* The adapter's calls after the await.                                    *)

\* A refused handshake discards its own staged grant.  When another one is
\* staged by now, abortAuthorize throws and nothing is discarded.
AuthorizeFails(c) ==
  /\ call[c].at = "back" /\ call[c].kind = "authorize" /\ call[c].res \in {"error", "thrown"}
  /\ IF auth.staged \in {c, None}
     THEN /\ auth' = Read([auth EXCEPT !.staged = None])
          /\ frozen' = PurgedIfLocked(auth')
     ELSE UNCHANGED <<auth, frozen>>
  /\ Ends(c, "error")
  /\ UNCHANGED <<enabled, lapsed, target, bridge, comp, past>>

\* Mutant of CommitAuthorize: without the look at what is staged.
CommitsUnstaged(c) ==
  /\ call[c].at = "back" /\ call[c].kind = "authorize" /\ call[c].res = "ok"
  /\ auth' = [live |-> c, staged |-> None]
  /\ frozen' = None
  /\ Ends(c, "ok")
  /\ UNCHANGED <<enabled, lapsed, target, bridge, comp, past>>

CommitAuthorize(c) ==
  /\ call[c].at = "back" /\ call[c].kind = "authorize" /\ call[c].res = "ok"
  /\ auth.staged = c /\ c \notin lapsed
  /\ auth' = [live |-> c, staged |-> None]
  /\ frozen' = None
  /\ Ends(c, "ok")
  /\ UNCHANGED <<enabled, lapsed, target, bridge, comp, past>>

\* The companion agreed too late: its grant is taken back, if there is
\* a token to do it with.
RevokeStagedRemote(c) ==
  /\ call[c].at = "back" /\ call[c].kind = "authorize" /\ call[c].res = "ok"
  /\ auth.staged # c \/ c \in lapsed
  /\ LET left == IF auth.staged = c THEN [auth EXCEPT !.staged = None] ELSE auth IN
     \/ auth' = left /\ Posts(c, "cleanup", c, target) /\ UNCHANGED frozen
     \/ auth' = Read(left) /\ frozen' = PurgedIfLocked(auth') /\ Ends(c, "error")
  /\ UNCHANGED <<enabled, lapsed, target, bridge, comp, past>>

CleanupEnds(c) ==
  /\ call[c].at = "back" /\ call[c].kind = "cleanup"
  /\ auth' = Read(auth)
  /\ frozen' = PurgedIfLocked(auth')
  /\ Ends(c, "error")
  /\ UNCHANGED <<enabled, lapsed, target, bridge, comp, past>>

\* Mutant of ExecuteReturns: without the second look at the grant.
ReturnsUnchecked(c) ==
  /\ call[c].at = "back" /\ call[c].kind = "execute"
  /\ Ends(c, call[c].res)
  /\ UNCHANGED <<pi, bridge, comp, past>>

\* A late success counts only under the grant that is still live; nobody looks
\* at the grant when send threw.  The first navigation freezes the hostname, a
\* close thaws it.
ExecuteReturns(c) ==
  /\ call[c].at = "back" /\ call[c].kind = "execute"
  /\ auth' = IF call[c].res = "thrown" THEN auth ELSE Read(auth)
  /\ IF call[c].res = "ok" /\ auth'.live = call[c].grant
     THEN /\ Ends(c, "ok")
          /\ frozen' \in {frozen, IF frozen = None THEN call[c].grant ELSE frozen, None}
     ELSE Ends(c, "error") /\ UNCHANGED frozen
  /\ UNCHANGED <<enabled, lapsed, target, bridge, comp, past>>

\* The lease renewed here is that of the grant that is live by now.
RenewReturns(c) ==
  /\ call[c].at = "back" /\ call[c].kind = "renew"
  /\ IF call[c].res = "ok"
     THEN /\ auth' = Read(auth)
          /\ Ends(c, IF auth'.live = None THEN "error" ELSE "ok")
     ELSE Ends(c, "error") /\ UNCHANGED auth
  /\ UNCHANGED <<enabled, lapsed, target, frozen, bridge, comp, past>>

RevokeReturns(c) ==
  /\ call[c].at = "back" /\ call[c].kind = "revoke"
  /\ Ends(c, "ok")
  /\ UNCHANGED <<pi, bridge, comp, past>>

-----------------------------------------------------------------------------
CallStep(c) ==
  \/ \E p \in Companions : StageAuthorize(c, p)
  \/ StageAborts(c) \/ RefuseAuthorize(c) \/ StartExecute(c) \/ PrepareOperation(c)
  \/ StartRenew(c) \/ HandleCommand(c) \/ ClientTimeout(c)
  \/ AuthorizeFails(c) \/ CommitAuthorize(c) \/ RevokeStagedRemote(c)
  \/ CleanupEnds(c) \/ ExecuteReturns(c) \/ RenewReturns(c) \/ RevokeReturns(c)

CompanionStep(p) ==
  \/ HandleRegister(p) \/ HandleNext(p)
  \/ RefuseRoute(p) \/ OnAuthorize(p) \/ OnRenew(p) \/ OnRevoke(p) \/ CheckExecute(p)
  \/ OperationEnds(p) \/ HandleResult(p)
  \/ LeaseRunsOut(p) \/ LeaseAlarm(p) \/ WorkerDies(p)

ChromeStep ==
  \/ \E c \in Calls : CallStep(c)
  \/ \E p \in Companions : CompanionStep(p)
  \/ \E k \in waiters : CommandTimeout(k)
  \/ \E g \in Authorizes : Lapse(g)
  \/ \E b \in BOOLEAN : SetAutomationEnabled(b)
  \/ Revoke \/ StopServer

\* The grants the adapter lets go of in a step.
LetGo == {auth.live, auth.staged} \ {None, auth'.live, auth'.staged}

ChromeNext == ChromeStep /\ ended' = ended \cup LetGo

ChromeSpec == ChromeInit /\ [][ChromeNext]_vars

Logged(A) == A /\ ended' = ended \cup LetGo

\* Timers fire and awaited calls come back; a lease runs out and the alarm of
\* the worker is periodic.  Nothing is asked of the user or of the network.
ChromeFairness ==
  /\ \A c \in Calls :
       WF_vars(Logged(\/ PrepareOperation(c) \/ ClientTimeout(c) \/ AuthorizeFails(c)
                      \/ CommitAuthorize(c) \/ RevokeStagedRemote(c) \/ CleanupEnds(c)
                      \/ ExecuteReturns(c) \/ RenewReturns(c) \/ RevokeReturns(c)))
  /\ \A p \in Companions :
       WF_vars(Logged(LeaseRunsOut(p))) /\ WF_vars(Logged(LeaseAlarm(p)))

ChromeFairSpec == ChromeSpec /\ ChromeFairness

-----------------------------------------------------------------------------
(* What the control of the browser promises.                               *)

\* A live grant was accepted by a companion, and none that was let go comes
\* back: no late answer of the companion resurrects a revoked authorization.
LiveIsEarned ==
  /\ auth.live # None => auth.live \in acked
  /\ {auth.live, auth.staged} \cap ended = {}

\* A staged grant belongs to a call that will still commit or discard it, so
\* the guard against a second handshake never stays closed.
StageIsInFlight ==
  auth.staged # None => call[auth.staged].at \in {"posted", "waiting", "back"}

\* Only an operation that a browser has run, and only once, is a success.
SuccessWasRun ==
  \A e \in Uses : runs[e] <= 1 /\ (call[e].kind = "execute" /\ call[e].res = "ok" => runs[e] = 1)

\* A success is reported only while the grant it was sent under is live: a
\* revocation in flight wins over the result.
NoSuccessAfterRevoke ==
  [][\A e \in Uses :
       call'[e].at = "done" /\ call[e].at # "done" /\ call'[e].res = "ok" /\ call[e].kind = "execute"
         => call[e].grant = auth.live /\ auth.live \notin ended \cup lapsed]_vars

\* What is queued for a companion still has a request waiting in the bridge: a
\* request that timed out or was closed takes its command out of the queue.
\* (The caller in Pi may be back already: its own timer closes a request, and
\* the bridge notices later.)
QueuedIsWaited ==
  \A p \in Companions : \A i \in 1..Len(queue[p]) : queue[p][i] \in waiters

\* The hostname is never frozen by a grant other than the live one.
FreezeIsOfLive == frozen # None /\ auth.live # None => frozen = auth.live

\* Every call comes back to its caller.
CallsEnd ==
  \A c \in Calls : (call[c].at # "idle") ~> (call[c].at = "done")

\* A grant that Pi has let go of does not stay in a companion.
StrandedGrantEnds ==
  \A p \in Companions : (comp[p].grant \in ended) ~> (comp[p].grant \notin ended)

=============================================================================
