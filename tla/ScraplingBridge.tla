---------------------------- MODULE ScraplingBridge ----------------------------
(***************************************************************************)
(* The bridge through which pages are fetched by a Python subprocess       *)
(* (ScraplingBridge): one subprocess at a time, kept from page to page,    *)
(* killed and replaced once when a command fails, dropped by close() and   *)
(* by the caller's abort signal.  Its callers are the crawl and the page   *)
(* reader: each makes a bridge of its own, may probe Scrapling's health,   *)
(* fetches one page after another and closes the bridge in the end.        *)
(*                                                                         *)
(* Node learns of a subprocess by events: lines on its stdout and its      *)
(* exit, in any order, and only through the listeners it left attached.    *)
(***************************************************************************)
EXTENDS Integers, SequencesExt

CONSTANTS Pages,      \* the fetches the caller makes, one after another
          MaxSpawns   \* bound: subprocesses the bridge spawns

Procs  == 1..MaxSpawns
NoProc == 0

ASSUME BridgeAssumption == MaxSpawns \in Nat /\ 0 \notin Pages

VARIABLES
  pc,       \* where each fetch stands or how it ended
  try,      \* the attempt it is at
  got,      \* the page whose reply it was given
  pending,  \* _pendingResolve and _pendingReject: the fetch they settle, 0: null
  target,   \* the subprocess that the timer of the pending command would kill
  child,    \* _child
  closed,   \* _closed
  killing,  \* the subprocess that close() waits for with a SIGKILL timer
  born,     \* how many subprocesses have been spawned
  os,       \* what each really does
  sig,      \* the signal it has been sent
  ears,     \* are its listeners attached?
  noticed,  \* the subprocesses whose exit event has come
  cmd,      \* commands in its stdin
  out,      \* reply lines in its stdout, not yet read
  health,   \* the health probe
  shot,     \* the subprocess of the probe
  late      \* history: the fetches whose command the timer gave up on

fetches    == <<pc, try, got>>
promise    == <<pending, target>>
procs      == <<born, os, sig, ears, noticed, cmd, out>>
probe      == <<health, shot>>
bridgeVars == <<fetches, promise, child, closed, killing, procs, probe, late>>

Going  == {"dns", "await", "restart", "check", "fallback"}
Ended  == {"page", "plain", "blocked", "rejected", "closed"}
Lines  == [of : Pages, ok : BOOLEAN]

BridgeTypeOK ==
  /\ pc \in [Pages -> {"idle"} \cup Going \cup Ended] /\ try \in [Pages -> 1..2]
  /\ got \in [Pages -> Pages \cup {0}]
  /\ pending \in Pages \cup {0} /\ target \in Procs \cup {NoProc}
  /\ born \in 0..MaxSpawns /\ child \in Procs \cup {NoProc}
  /\ closed \in BOOLEAN /\ killing \in Procs \cup {NoProc}
  /\ os \in [Procs -> {"none", "running", "dead"}]
  /\ sig \in [Procs -> {"none", "term", "kill"}] /\ ears \in [Procs -> BOOLEAN]
  /\ noticed \subseteq Procs
  /\ cmd \in [Procs -> Seq(Pages)] /\ out \in [Procs -> Seq(Lines)]
  /\ health \in {"unknown", "asking", "yes", "no"}
  /\ shot \in {"none", "running", "killed", "dead"} /\ late \subseteq Pages

BridgeInit ==
  /\ pc = [f \in Pages |-> "idle"] /\ try = [f \in Pages |-> 1]
  /\ got = [f \in Pages |-> 0] /\ pending = 0 /\ target = NoProc
  /\ child = NoProc /\ closed = FALSE /\ killing = NoProc /\ born = 0
  /\ os = [p \in Procs |-> "none"] /\ sig = [p \in Procs |-> "none"]
  /\ ears = [p \in Procs |-> FALSE] /\ noticed = {}
  /\ cmd = [p \in Procs |-> <<>>] /\ out = [p \in Procs |-> <<>>]
  /\ health = "unknown" /\ shot = "none" /\ late = {}

-----------------------------------------------------------------------------
InFlight    == {f \in Pages : pc[f] \in Going}
Moves(f, s) == pc' = [pc EXCEPT ![f] = s]

\* spawnProcess: listeners of the child it replaces are detached, if there is one.
Spawn(p) ==
  /\ p = born + 1 /\ p \in Procs
  /\ born' = p /\ child' = p
  /\ os' = [os EXCEPT ![p] = "running"]
  /\ ears' = [q \in Procs |-> q = p \/ (ears[q] /\ q # child)]

\* _doSendCommand to p, with a timer that is to kill p.
Send(f, p) ==
  /\ pending' = f /\ target' = p
  /\ cmd' = [cmd EXCEPT ![p] = IF os'[p] = "running" THEN Append(@, f) ELSE @]
  /\ Moves(f, "await")

\* killChild: it is not listened to any more.
KillChild ==
  /\ child' = NoProc
  /\ IF child = NoProc THEN UNCHANGED <<ears, sig>>
     ELSE /\ ears' = [ears EXCEPT ![child] = FALSE]
          /\ sig' = [sig EXCEPT ![child] = "kill"]

\* The attempt failed: the first one restarts the subprocess, the second is
\* the last.
AttemptFailed(f) ==
  IF try[f] = 2
  THEN Moves(f, "fallback") /\ UNCHANGED <<child, ears, sig>>
  ELSE Moves(f, "restart") /\ KillChild

-----------------------------------------------------------------------------
(* A fetch *)

\* fetch: a closed bridge refuses; then the host name is looked up.
Fetch(f) ==
  /\ pc[f] = "idle" /\ InFlight = {} /\ health \in {"unknown", "yes"}
  /\ Moves(f, IF closed THEN "closed" ELSE "dns")
  /\ UNCHANGED <<try, got, promise, child, closed, killing, procs, probe, late>>

LookupFails(f) ==
  /\ pc[f] = "dns"
  /\ Moves(f, "rejected")
  /\ UNCHANGED <<try, got, promise, child, closed, killing, procs, probe, late>>

\* ensureProcess keeps a child that was not killed; the command goes out.
LookupDone(f) ==
  /\ pc[f] = "dns"
  /\ \/ /\ child # NoProc /\ sig[child] = "none"
        /\ UNCHANGED <<born, child, os, ears>>
     \/ /\ child # NoProc => sig[child] # "none"
        /\ \E p \in Procs : Spawn(p)
  /\ Send(f, child')
  /\ UNCHANGED <<try, got, closed, killing, sig, noticed, out, probe, late>>

\* Lines arrive from p: the first one settles whatever command is pending,
\* which that command's caller sees only after the others were dropped.
Reply(p) ==
  /\ ears[p] /\ out[p] # <<>>
  /\ \E n \in 1..Len(out[p]) : out' = [out EXCEPT ![p] = SubSeq(@, n + 1, Len(@))]
  /\ IF pending = 0 THEN UNCHANGED <<fetches, promise, child, ears, sig>>
     ELSE /\ pending' = 0 /\ target' = NoProc
          /\ IF out[p][1].ok
             THEN /\ Moves(pending, "check") /\ got' = [got EXCEPT ![pending] = out[p][1].of]
                  /\ UNCHANGED <<child, ears, sig>>
             ELSE AttemptFailed(pending) /\ UNCHANGED got
          /\ UNCHANGED try
  /\ UNCHANGED <<closed, killing, born, os, noticed, cmd, probe, late>>

\* The exit of p is noticed: whatever is pending is rejected, and the bridge
\* has no child.  A failure to spawn is noticed the same way.
Exit(p) ==
  /\ os[p] = "dead" /\ ears[p] /\ p \notin noticed
  /\ noticed' = noticed \cup {p}
  /\ killing' = IF killing = p THEN NoProc ELSE killing
  /\ child' = NoProc
  /\ IF pending = 0 THEN UNCHANGED <<pc, promise>>
     ELSE /\ pending' = 0 /\ target' = NoProc
          /\ Moves(pending, IF try[pending] = 2 THEN "fallback" ELSE "restart")
  /\ UNCHANGED <<try, got, closed, born, os, sig, ears, cmd, out, probe, late>>

\* The timer of the command: it marks the command as timed out first, so the
\* rejection it then asks for does nothing.  The subprocess is killed.
TimeOut ==
  /\ pending # 0
  /\ pending' = 0 /\ target' = NoProc
  /\ late' = late \cup {pending}
  /\ sig' = [sig EXCEPT ![target] = "kill"]
  /\ UNCHANGED <<fetches, child, closed, killing, born, os, ears, noticed, cmd, out, probe>>

\* Mutant of Restarted: without the second look at _closed.
RestartedBlind(f) ==
  /\ pc[f] = "restart"
  /\ try' = [try EXCEPT ![f] = 2]
  /\ \E p \in Procs : Spawn(p)
  /\ Send(f, child')
  /\ UNCHANGED <<got, closed, killing, sig, noticed, out, probe, late>>

\* restartProcess after its turn of the event loop, and the second command; on
\* a closed bridge there is no child to send it to.
Restarted(f) ==
  /\ pc[f] = "restart"
  /\ try' = [try EXCEPT ![f] = 2]
  /\ \/ /\ closed
        /\ Moves(f, "closed")
        /\ UNCHANGED <<promise, child, born, os, ears, cmd>>
     \/ /\ ~closed
        /\ \E p \in Procs : Spawn(p)
        /\ Send(f, child')
  /\ UNCHANGED <<got, closed, killing, sig, noticed, out, probe, late>>

\* The final URL is looked up: it is refused, and so is any URL when the
\* signal aborts the lookup, or the page is served.
Checked(f) ==
  /\ pc[f] = "check"
  /\ \/ Moves(f, "blocked")
     \/ ~closed /\ Moves(f, "page")
  /\ UNCHANGED <<try, got, promise, child, closed, killing, procs, probe, late>>

\* fallbackFetch has a page or an error of its own.
FellBack(f) ==
  /\ pc[f] = "fallback"
  /\ Moves(f, "plain")
  /\ UNCHANGED <<try, got, promise, child, closed, killing, procs, probe, late>>

-----------------------------------------------------------------------------
(* Closing *)

\* Mutant of CloseBridge: the child is asked to end, and no timer insists.
CloseBridgePolitely ==
  /\ ~closed /\ closed' = TRUE
  /\ child' = NoProc
  /\ sig' = [p \in Procs |-> IF p = child /\ sig[p] = "none" THEN "term" ELSE sig[p]]
  /\ UNCHANGED killing

\* close, once: the child is let go of, asked to end, and killed later unless
\* it has ended.
CloseBridge ==
  /\ ~closed /\ closed' = TRUE
  /\ child' = NoProc
  /\ IF child = NoProc THEN UNCHANGED <<sig, killing>>
     ELSE /\ sig' = [sig EXCEPT ![child] = IF @ = "none" THEN "term" ELSE @]
          /\ killing' = child

\* The caller's last act.
Close ==
  /\ InFlight = {} /\ health # "asking"
  /\ CloseBridge
  /\ UNCHANGED <<fetches, promise, born, os, ears, noticed, cmd, out, probe, late>>

\* Mutant of Abort: the callbacks are cleared before the command is rejected.
AbortMute ==
  /\ CloseBridge
  /\ pc' = [f \in Pages |-> IF pc[f] = "dns" THEN "rejected" ELSE pc[f]]
  /\ pending' = 0 /\ target' = NoProc
  /\ UNCHANGED <<try, got, born, os, ears, noticed, cmd, out, probe, late>>

\* The signal of the caller, at any time: the pending command and a lookup
\* are rejected, the bridge is closed.
Abort ==
  /\ CloseBridge
  /\ pc' = [f \in Pages |-> CASE pc[f] = "dns" -> "rejected"
                              [] pending = f   -> "closed"
                              [] OTHER         -> pc[f]]
  /\ pending' = 0 /\ target' = NoProc
  /\ UNCHANGED <<try, got, born, os, ears, noticed, cmd, out, probe, late>>

KillTimer ==
  /\ killing # NoProc
  /\ sig' = [sig EXCEPT ![killing] = "kill"] /\ killing' = NoProc
  /\ UNCHANGED <<fetches, promise, child, closed, born, os, ears, noticed, cmd, out, probe, late>>

-----------------------------------------------------------------------------
(* The health probe: a subprocess of its own, whose stdin is ended. *)

Health ==
  /\ health = "unknown" /\ \A f \in Pages : pc[f] = "idle"
  /\ health' = "asking" /\ shot' = "running"
  /\ UNCHANGED <<fetches, promise, child, closed, killing, procs, late>>

HealthAnswered(verdict) ==
  /\ health = "asking" /\ shot \in {"running", "dead"}
  /\ shot = "dead" => verdict = "no"
  /\ health' = verdict
  /\ UNCHANGED <<fetches, promise, child, closed, killing, procs, shot, late>>

HealthTimeOut ==
  /\ health = "asking"
  /\ health' = "no"
  /\ shot' = IF shot = "running" THEN "killed" ELSE shot
  /\ UNCHANGED <<fetches, promise, child, closed, killing, procs, late>>

-----------------------------------------------------------------------------
(* The subprocesses, external *)

\* A line that nobody reads is left out.
Answers(p) ==
  /\ os[p] = "running" /\ cmd[p] # <<>> /\ ears[p] /\ ~closed
  /\ cmd' = [cmd EXCEPT ![p] = Tail(@)]
  /\ \E ok \in BOOLEAN : out' = [out EXCEPT ![p] = Append(@, [of |-> cmd[p][1], ok |-> ok])]
  /\ UNCHANGED <<fetches, promise, child, closed, killing, born, os, sig, ears, noticed, probe, late>>

Dies(p) ==
  /\ os[p] = "running"
  /\ os' = [os EXCEPT ![p] = "dead"] /\ cmd' = [cmd EXCEPT ![p] = <<>>]
  /\ UNCHANGED <<fetches, promise, child, closed, killing, born, sig, ears, noticed, out, probe, late>>

Killed(p) == sig[p] = "kill" /\ Dies(p)

\* The end of its input, a crash or SIGKILL ends the probe.
ShotEnds ==
  /\ shot \in {"running", "killed"}
  /\ shot' = "dead"
  /\ UNCHANGED <<fetches, promise, child, closed, killing, procs, health, late>>

-----------------------------------------------------------------------------
BridgeNext ==
  \/ \E f \in Pages : \/ Fetch(f) \/ LookupFails(f) \/ LookupDone(f)
                      \/ Restarted(f) \/ Checked(f) \/ FellBack(f)
  \/ \E p \in Procs : Reply(p) \/ Exit(p) \/ Answers(p) \/ Dies(p)
  \/ TimeOut \/ Close \/ Abort \/ KillTimer
  \/ Health \/ HealthTimeOut \/ ShotEnds
  \/ \E verdict \in {"yes", "no"} : HealthAnswered(verdict)

BridgeSpec == BridgeInit /\ [][BridgeNext]_bridgeVars

\* Lookups end, Node delivers what has happened, timers fire, the system ends
\* what was killed, and the probe ends with its input.  That a subprocess ever
\* answers, or dies of SIGTERM, is not assumed, nor that the caller goes on.
BridgeFairness ==
  /\ \A f \in Pages : /\ WF_bridgeVars(LookupFails(f) \/ LookupDone(f))
                      /\ WF_bridgeVars(Restarted(f))
                      /\ WF_bridgeVars(Checked(f))
                      /\ WF_bridgeVars(FellBack(f))
  /\ \A p \in Procs : /\ WF_bridgeVars(Reply(p))
                      /\ WF_bridgeVars(Exit(p))
                      /\ WF_bridgeVars(Killed(p))
  /\ WF_bridgeVars(TimeOut) /\ WF_bridgeVars(KillTimer)
  /\ WF_bridgeVars(HealthTimeOut)
  /\ WF_bridgeVars(health # "asking" /\ ShotEnds)

BridgeFairSpec == BridgeSpec /\ BridgeFairness

-----------------------------------------------------------------------------
(* Properties *)

\* A running subprocess is the child of an open bridge, or it has been sent a
\* signal: none is forgotten by a restart, an exit noticed late, or a close
\* that comes in the middle of either.
NobodyForgotten ==
  \A p \in Procs : os[p] = "running" => (p = child /\ ~closed) \/ sig[p] # "none"

\* On a closed bridge a subprocess that runs has been killed, or the timer that
\* will kill it is set: what ClosedLeavesNothing forbids a step to lose.
ClosedInsists ==
  closed => \A p \in Procs : os[p] = "running" => sig[p] = "kill" \/ killing = p

\* Once the bridge is closed, nothing it spawned stays behind.
ClosedLeavesNothing ==
  closed ~> (shot # "running" /\ \A p \in Procs : os[p] # "running")

\* Every fetch ends, in a page, a plain page or an error, if its command is
\* not timed out.
FetchesEndInTime ==
  \A f \in Pages : (pc[f] \in Going) ~> (pc[f] \in Ended \/ f \in late)

\* A fetch that waits for its command can still be settled, or the timer gave
\* up on it: what FetchesEndInTime forbids a step to lose.
WaitsAreSettled == \A f \in Pages : pc[f] = "await" => pending = f \/ f \in late

\* Every fetch ends: "Timeout per fetch" bounds it.
FetchesEnd == \A f \in Pages : (pc[f] \in Going) ~> (pc[f] \in Ended)

\* A page that is served is the reply to its own command.  This does not hold:
\* a line that is read after the exit of its writer answers the next command.
ReplyIsOwn == \A f \in Pages : pc[f] = "page" => got[f] = f
=============================================================================
