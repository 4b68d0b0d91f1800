------------------------- MODULE ChromeProfileProofs -------------------------
(***************************************************************************)
(* Proofs about the control of the user's Chrome, for any number of calls, *)
(* companions and disruptions.                                             *)
(***************************************************************************)
EXTENDS ChromeProfile, SequenceTheorems, TLAPS

\* What a call may be doing: its kind fits who made it, and an authorize call,
\* with the revocation that follows it, is about its own grant.
CallsFit ==
  \A c \in Calls :
    /\ call[c].at \in {"posted", "waiting", "back", "preparing"} => call[c].kind # None
    /\ c \in Authorizes => /\ call[c].kind \in {None, "authorize", "revoke", "cleanup"}
                           /\ call[c].kind # None => call[c].grant = c
    /\ c \in Uses => call[c].kind \in {None, "execute", "renew"}
    /\ call[c].kind = "execute" => call[c].grant # None
    /\ call[c].at = "preparing" => call[c].kind = "execute"

\* A command was sent by its call, which is not about to send it, and its kind
\* fits who made that.
Sane(k) ==
  /\ call[k.call].at \notin {"idle", "preparing"}
  /\ call[k.call].kind # None
  /\ call[k.call].at = "posted" => call[k.call].kind # k.kind
  /\ k.kind \in {"authorize", "revoke", "cleanup"} <=> k.call \in Authorizes
  /\ k.kind # "authorize" => call[k.call].kind = k.kind

CommandsAreSane ==
  /\ \A p \in Companions : \A i \in 1..Len(queue[p]) : Sane(queue[p][i])
  /\ \A p \in Companions : IF comp[p].at = "idle" THEN comp[p].job = None /\ comp[p].res = None
                             ELSE comp[p].job # None /\ Sane(comp[p].job)

\* A companion that says yes to a grant has accepted it.
YesIsAcked ==
  /\ \A c \in Authorizes :
       call[c].at = "back" /\ call[c].kind = "authorize" /\ call[c].res = "ok" => c \in acked
  /\ \A p \in Companions :
       comp[p].at = "posting" /\ comp[p].job.kind = "authorize" /\ comp[p].res = "ok"
         => comp[p].job.call \in acked
  /\ \A p \in Companions : comp[p].at = "running" => comp[p].job.kind = "execute"
  /\ \A p \in Companions : comp[p].at = "posting" => comp[p].res # None

StagedIsOpen ==
  auth.staged # None => /\ call[auth.staged].kind = "authorize"
                        /\ call[auth.staged].at \in {"posted", "waiting", "back"}

LiveIsCommitted ==
  auth.live # None => /\ call[auth.live].kind = "authorize"
                      /\ call[auth.live].at = "done"

\* A command is in one queue or with one companion.
OnePlace ==
  /\ \A p, q \in Companions : \A i \in 1..Len(queue[p]), j \in 1..Len(queue[q]) :
       queue[p][i] = queue[q][j] => p = q /\ i = j
  /\ \A p, q \in Companions : \A i \in 1..Len(queue[p]) : queue[p][i] # comp[q].job
  /\ \A p, q \in Companions : comp[p].job = comp[q].job => p = q \/ comp[p].job = None

\* How often an execute has run shows in where its command is.
RunsFit ==
  \A e \in Uses :
    LET k == [call |-> e, kind |-> "execute"] IN
    /\ runs[e] \in {0, 1}
    /\ call[e].at \in {"idle", "preparing", "posted"} => runs[e] = 0
    /\ call[e].at = "idle" => call[e].res = None
    /\ call[e].kind = "execute" /\ call[e].res = "ok" => runs[e] = 1
    /\ \A p \in Companions : \A i \in 1..Len(queue[p]) : queue[p][i] = k => runs[e] = 0
    /\ \A p \in Companions :
         comp[p].job = k => /\ comp[p].at = "got" => runs[e] = 0
                            /\ comp[p].at = "running" \/ comp[p].res = "ok" => runs[e] = 1

CommandInv == OnePlace /\ QueuedIsWaited /\ RunsFit

EndedAreBegun == \A g \in ended : call[g].at # "idle"

GrantInv == /\ ChromeTypeOK
            /\ CallsFit
            /\ CommandsAreSane
            /\ YesIsAcked
            /\ StagedIsOpen
            /\ LiveIsCommitted
            /\ EndedAreBegun
            /\ LiveIsEarned
            /\ FreezeIsOfLive

-----------------------------------------------------------------------------
(* How a step moves the calls.                                             *)

\* A call goes on, and changes its kind only when it is begun or when its
\* grant is taken back.
Moves(d) ==
  \/ call'[d] = call[d]
  \/ call[d].at \in {"idle", "preparing"} /\ call'[d].at # "idle"
  \/ /\ call[d].kind = "authorize" /\ call'[d].kind \in {"revoke", "cleanup"}
     /\ call'[d].at = "posted"
  \/ call'[d].kind = call[d].kind /\ call'[d].at \in {"waiting", "back", "done"}

CallsMove == /\ call' \in [Calls -> CallRecords]
             /\ CallsFit'
             /\ \A d \in Calls : Moves(d)

\* Changing the record of one call.
LEMMA SetCall ==
  ASSUME ChromeTypeOK, CallsFit, NEW c \in Calls, NEW r \in CallRecords,
         call' = [call EXCEPT ![c] = r],
         r.at \in {"posted", "waiting", "back", "preparing"} => r.kind # None,
         c \in Authorizes => /\ r.kind \in {None, "authorize", "revoke", "cleanup"}
                             /\ r.kind # None => r.grant = c,
         c \in Uses => r.kind \in {None, "execute", "renew"},
         r.kind = "execute" => r.grant # None,
         r.at = "preparing" => r.kind = "execute",
         \/ call[c].at \in {"idle", "preparing"} /\ r.at # "idle"
         \/ call[c].kind = "authorize" /\ r.kind \in {"revoke", "cleanup"} /\ r.at = "posted"
         \/ r.kind = call[c].kind /\ r.at \in {"waiting", "back", "done"}
  PROVE  CallsMove /\ call'[c] = r /\ \A d \in Calls \ {c} : call'[d] = call[d]
<1>1. /\ call' \in [Calls -> CallRecords]
      /\ call'[c] = r
      /\ \A d \in Calls \ {c} : call'[d] = call[d]
  BY DEF ChromeTypeOK
<1>2. CallsFit'
  BY <1>1 DEF CallsFit
<1>3. \A d \in Calls : Moves(d)
  BY <1>1 DEF Moves
<1> QED BY <1>1, <1>2, <1>3 DEF CallsMove

\* A call ends.
LEMMA EndsMoves ==
  ASSUME ChromeTypeOK, CallsFit, NEW c \in Calls, NEW res \in Answers \cup {None},
         Ends(c, res)
  PROVE  /\ CallsMove
         /\ call'[c].at = "done" /\ call'[c].res = res
         /\ call'[c].kind = call[c].kind /\ call'[c].grant = call[c].grant
         /\ \A d \in Calls \ {c} : call'[d] = call[d]
<1> DEFINE r == [call[c] EXCEPT !.at = "done", !.res = res]
<1>1. call[c] \in CallRecords
  BY DEF ChromeTypeOK
<1>2. /\ r \in CallRecords
      /\ r.at = "done" /\ r.res = res /\ r.kind = call[c].kind /\ r.grant = call[c].grant
  BY <1>1 DEF CallRecords
<1>3. call' = [call EXCEPT ![c] = r]
  BY DEF Ends
<1> HIDE DEF r
<1>4. /\ r.at \in {"posted", "waiting", "back", "preparing"} => r.kind # None
      /\ c \in Authorizes => /\ r.kind \in {None, "authorize", "revoke", "cleanup"}
                             /\ r.kind # None => r.grant = c
      /\ c \in Uses => r.kind \in {None, "execute", "renew"}
      /\ r.kind = "execute" => r.grant # None
  BY <1>2 DEF CallsFit
<1> QED BY <1>2, <1>3, <1>4, SetCall

\* The caller of a command is told something.
LEMMA BackMoves ==
  ASSUME ChromeTypeOK, CallsFit, NEW c \in Calls, NEW res \in Answers,
         call[c].at \in {"posted", "waiting"}, call' = Back(c, res)
  PROVE  /\ CallsMove
         /\ call'[c].at = "back" /\ call'[c].res = res
         /\ call'[c].kind = call[c].kind /\ call'[c].grant = call[c].grant
         /\ \A d \in Calls \ {c} : call'[d] = call[d]
<1> DEFINE r == [call[c] EXCEPT !.at = "back", !.res = res]
<1>1. call[c] \in CallRecords
  BY DEF ChromeTypeOK
<1>2. /\ r \in CallRecords
      /\ r.at = "back" /\ r.res = res /\ r.kind = call[c].kind /\ r.grant = call[c].grant
  BY <1>1 DEF CallRecords
<1>3. call' = [call EXCEPT ![c] = r]
  BY DEF Back
<1> HIDE DEF r
<1>4. /\ r.at \in {"posted", "waiting", "back", "preparing"} => r.kind # None
      /\ c \in Authorizes => /\ r.kind \in {None, "authorize", "revoke", "cleanup"}
                             /\ r.kind # None => r.grant = c
      /\ c \in Uses => r.kind \in {None, "execute", "renew"}
      /\ r.kind = "execute" => r.grant # None
  BY <1>2 DEF CallsFit
<1> QED BY <1>2, <1>3, <1>4, SetCall

\* A call sends a command, its first one or the one that takes its grant back.
LEMMA PostsMoves ==
  ASSUME ChromeTypeOK, CallsFit, NEW c \in Calls, NEW kind \in Kinds,
         NEW g \in Authorizes, NEW p \in Companions \cup {None}, Posts(c, kind, g, p),
         \/ call[c].at \in {"idle", "preparing"}
         \/ call[c].kind = "authorize" /\ kind \in {"revoke", "cleanup"},
         c \in Authorizes => kind \in {"authorize", "revoke", "cleanup"} /\ g = c,
         c \in Uses => kind \in {"execute", "renew"}
  PROVE  /\ CallsMove
         /\ call'[c].at = "posted" /\ call'[c].res = None
         /\ call'[c].kind = kind /\ call'[c].grant = g
         /\ \A d \in Calls \ {c} : call'[d] = call[d]
<1> DEFINE r == [at |-> "posted", kind |-> kind, grant |-> g, to |-> p, res |-> None]
<1>1. /\ r \in CallRecords
      /\ r.at = "posted" /\ r.res = None /\ r.kind = kind /\ r.grant = g
  BY DEF CallRecords, Grants
<1>2. call' = [call EXCEPT ![c] = r]
  BY DEF Posts
<1>3. g # None /\ kind # None
  BY ChromeAssumption DEF Calls
<1> HIDE DEF r
<1> QED BY <1>1, <1>2, <1>3, SetCall

\* A command that was sent stays what it is.
LEMMA SaneStays ==
  ASSUME NEW k \in Commands, Sane(k), CallsMove
  PROVE  Sane(k)'
<1>1. k.call \in Calls /\ Moves(k.call)
  BY DEF Commands, CallsMove
<1>2. CASE call'[k.call] = call[k.call]
  BY <1>2 DEF Sane
<1>3. CASE /\ call[k.call].kind = "authorize" /\ call'[k.call].kind \in {"revoke", "cleanup"}
           /\ call'[k.call].at = "posted"
  <2>1. k.kind = "authorize"
    BY <1>3 DEF Sane
  <2>2. call'[k.call].kind # None
    BY <1>3, ChromeAssumption DEF Kinds
  <2> QED BY <1>3, <2>1, <2>2 DEF Sane
<1>4. CASE call'[k.call].kind = call[k.call].kind /\ call'[k.call].at \in {"waiting", "back", "done"}
  BY <1>4 DEF Sane
<1> QED BY <1>1, <1>2, <1>3, <1>4 DEF Sane, Moves

\* The commands that were there stay what they are.
LEMMA CommandsStay ==
  ASSUME GrantInv, CallsMove, UNCHANGED <<queue, comp>>
  PROVE  CommandsAreSane'
<1>1. \A p \in Companions : \A i \in 1..Len(queue[p]) : queue[p][i] \in Commands
  BY ElementOfSeq DEF GrantInv, ChromeTypeOK
<1>2. \A p \in Companions : comp[p].job # None => comp[p].job \in Commands
  BY DEF GrantInv, ChromeTypeOK, CompanionRecords
<1>3. \A k \in Commands : Sane(k) => Sane(k)'
  BY SaneStays
<1> HIDE DEF Sane
<1> QED BY <1>1, <1>2, <1>3 DEF GrantInv, CommandsAreSane

\* The companions' answers are as good as they were when none of them moves
\* and no call is told that it succeeded.
LEMMA YesStays ==
  ASSUME GrantInv, CallsMove, acked \subseteq acked', UNCHANGED comp,
         \A c \in Authorizes : \/ call'[c] = call[c]
                               \/ call'[c].at # "back" \/ call'[c].res # "ok"
  PROVE  YesIsAcked'
  BY DEF GrantInv, YesIsAcked

\* What becomes of the grants when none is accepted in the step.
LEMMA GrantsKeep ==
  ASSUME GrantInv, CallsMove, ended' = ended \cup LetGo, acked \subseteq acked',
         auth' \in [live : Grants, staged : Grants],
         \/ auth'.live \in {auth.live, None}
         \/ auth'.live = auth.staged /\ auth'.live \in acked /\ auth'.staged = None,
         \/ auth'.staged \in {auth.staged, None}
         \/ call[auth'.staged].at = "idle"
  PROVE  EndedAreBegun' /\ LiveIsEarned' /\ ended' \subseteq Authorizes
<1>1. LetGo \subseteq Authorizes /\ ended \subseteq Authorizes
  BY DEF LetGo, GrantInv, ChromeTypeOK, Grants
<1>2. EndedAreBegun'
  <2>1. \A g \in ended \cup LetGo : g \in Calls /\ call[g].at # "idle"
    BY <1>1 DEF GrantInv, LetGo, StagedIsOpen, LiveIsCommitted, EndedAreBegun, Calls
  <2>2. \A g \in Calls : call[g].at # "idle" => call'[g].at # "idle"
    BY DEF CallsMove, Moves
  <2> QED BY <2>1, <2>2 DEF EndedAreBegun
<1>3. LiveIsEarned'
  <2>1. auth'.live # None => auth'.live \in acked'
    BY DEF GrantInv, LiveIsEarned
  <2>2. {auth'.live, auth'.staged} \cap ended = {}
    BY ChromeAssumption DEF GrantInv, LiveIsEarned, EndedAreBegun, ChromeTypeOK, Grants, Calls
  <2>3. {auth'.live, auth'.staged} \cap LetGo \subseteq {}
    BY DEF LetGo
  <2> QED BY <2>1, <2>2, <2>3 DEF LiveIsEarned
<1> QED BY <1>1, <1>2, <1>3

\* The adapter's look at the authorization.
LEMMA ReadGives ==
  ASSUME NEW a \in [live : Grants, staged : Grants]
  PROVE  /\ Read(a) \in [live : Grants, staged : Grants]
         /\ Read(a) \in {a, Locked}
         /\ Locked.live = None /\ Locked.staged = None
         /\ Locked \in [live : Grants, staged : Grants]
         /\ Read(a).live # None => Read(a) = a /\ a.live \notin lapsed
  BY DEF Read, Locked, Grants

LEMMA StillMoves ==
  ASSUME ChromeTypeOK, CallsFit, UNCHANGED call
  PROVE  CallsMove
  BY DEF CallsMove, Moves, CallsFit, ChromeTypeOK

-----------------------------------------------------------------------------
(* The steps, each of which keeps the invariant.                           *)

LEMMA DisruptsCounts == ASSUME ChromeTypeOK, Disrupts PROVE events' \in 0..MaxEvents
  BY ChromeAssumption DEF ChromeTypeOK, Disrupts

\* A time to live runs out, or the kill switch is turned.
LEMMA LapseOrSwitchKeeps ==
  ASSUME GrantInv, ended' = ended \cup LetGo,
         (\E g \in Authorizes : Lapse(g)) \/ (\E b \in BOOLEAN : SetAutomationEnabled(b))
  PROVE  GrantInv'
<1>1. /\ UNCHANGED <<call, bridge, comp, acked, runs, target>>
      /\ auth' \in {auth, Locked}
      /\ enabled' \in BOOLEAN /\ lapsed' \subseteq Authorizes
      /\ frozen' \in {frozen, None}
      /\ Disrupts
  <2>1. CASE \E g \in Authorizes : Lapse(g)
    BY <2>1 DEF Lapse, GrantInv, ChromeTypeOK
  <2>2. CASE \E b \in BOOLEAN : SetAutomationEnabled(b)
    <3>1. PICK b \in BOOLEAN : SetAutomationEnabled(b)
      BY <2>2
    <3> QED BY <3>1 DEF SetAutomationEnabled, GrantInv, ChromeTypeOK
  <2> QED BY <2>1, <2>2
<1>2. CallsMove
  BY <1>1, StillMoves DEF GrantInv
<1>3. auth' \in [live : Grants, staged : Grants]
  BY <1>1 DEF GrantInv, ChromeTypeOK, Locked, Grants
<1>4. EndedAreBegun' /\ LiveIsEarned' /\ ended' \subseteq Authorizes
  BY <1>1, <1>2, <1>3, GrantsKeep DEF Locked
<1>5. ChromeTypeOK'
  BY <1>1, <1>3, <1>4, DisruptsCounts DEF GrantInv, ChromeTypeOK, bridge, Grants
<1>6. CommandsAreSane'
  BY <1>1, <1>2, CommandsStay DEF bridge
<1>7. YesIsAcked'
  BY <1>1, <1>2, YesStays
<1>8. StagedIsOpen' /\ LiveIsCommitted' /\ FreezeIsOfLive'
  BY <1>1 DEF GrantInv, StagedIsOpen, LiveIsCommitted, FreezeIsOfLive, Locked
<1> QED BY <1>2, <1>4, <1>5, <1>6, <1>7, <1>8 DEF GrantInv, CallsMove

\* A handshake is staged, under a call that had not begun.
LEMMA StageKeeps ==
  ASSUME GrantInv, ended' = ended \cup LetGo,
         NEW c \in Calls, NEW p \in Companions, StageAuthorize(c, p)
  PROVE  GrantInv'
<1>1. /\ call[c].at = "idle" /\ c \in Authorizes /\ auth.staged = None
      /\ auth'.live = auth.live /\ auth'.staged = c
      /\ auth' \in [live : Grants, staged : Grants]
      /\ target' = p /\ Posts(c, "authorize", c, p)
      /\ UNCHANGED <<enabled, lapsed, frozen, up, known, waiters, queue, comp, events, acked, runs>>
  BY DEF StageAuthorize, GrantInv, ChromeTypeOK, bridge, past, Grants
<1>2. /\ CallsMove
      /\ call'[c].at = "posted" /\ call'[c].kind = "authorize"
      /\ \A d \in Calls \ {c} : call'[d] = call[d]
  BY <1>1, PostsMoves, ChromeAssumption DEF GrantInv, Kinds, Calls
<1>3. EndedAreBegun' /\ LiveIsEarned' /\ ended' \subseteq Authorizes
  BY <1>1, <1>2, GrantsKeep
<1>4. ChromeTypeOK'
  BY <1>1, <1>2, <1>3 DEF GrantInv, ChromeTypeOK, CallsMove
<1>5. CommandsAreSane'
  BY <1>1, <1>2, CommandsStay
<1>6. YesIsAcked'
  BY <1>1, <1>2, YesStays DEF Calls
<1>7. StagedIsOpen' /\ LiveIsCommitted' /\ FreezeIsOfLive'
  BY <1>1, <1>2 DEF GrantInv, StagedIsOpen, LiveIsCommitted, FreezeIsOfLive,
                    ChromeTypeOK, Grants, Calls
<1> QED BY <1>2, <1>3, <1>4, <1>5, <1>6, <1>7 DEF GrantInv, CallsMove

\* A call that neither stages, holds nor ends a grant goes on.
LEMMA CallerKeeps ==
  ASSUME GrantInv, ended' = ended \cup LetGo, NEW c \in Calls, CallsMove,
         \A d \in Calls \ {c} : call'[d] = call[d],
         c # auth'.staged, c # auth'.live,
         call'[c].at # "back" \/ call'[c].res # "ok",
         auth' \in [live : Grants, staged : Grants],
         auth'.live \in {auth.live, None}, auth'.staged \in {auth.staged, None},
         frozen' \in Grants,
         frozen' # None /\ auth'.live # None => frozen' = auth'.live,
         UNCHANGED <<enabled, lapsed, target, bridge, comp, acked, runs>>,
         events' \in 0..MaxEvents
  PROVE  GrantInv'
<1>1. EndedAreBegun' /\ LiveIsEarned' /\ ended' \subseteq Authorizes
  BY GrantsKeep
<1>2. ChromeTypeOK'
  BY <1>1 DEF GrantInv, ChromeTypeOK, CallsMove, bridge
<1>3. CommandsAreSane'
  BY CommandsStay DEF bridge
<1>4. YesIsAcked'
  BY YesStays DEF Calls
<1>5. StagedIsOpen' /\ LiveIsCommitted' /\ FreezeIsOfLive'
  BY DEF GrantInv, StagedIsOpen, LiveIsCommitted, FreezeIsOfLive, ChromeTypeOK, Grants, Calls
<1> QED BY <1>1, <1>2, <1>3, <1>4, <1>5 DEF GrantInv, CallsMove

\* The look at the authorization leaves what there is, or nothing.
LEMMA ReadKeeps ==
  ASSUME GrantInv
  PROVE  /\ Read(auth) \in [live : Grants, staged : Grants]
         /\ Read(auth).live \in {auth.live, None}
         /\ Read(auth).staged \in {auth.staged, None}
         /\ frozen # None /\ Read(auth).live # None => frozen = Read(auth).live
         /\ frozen \in Grants /\ events \in 0..MaxEvents
  BY DEF GrantInv, ChromeTypeOK, FreezeIsOfLive, Read, Locked, Grants

\* A call that is refused at once.
LEMMA RefuseKeeps ==
  ASSUME GrantInv, ended' = ended \cup LetGo, NEW c \in Calls, RefuseAuthorize(c)
  PROVE  GrantInv'
<1>1. /\ call[c].at = "idle" /\ Ends(c, "error")
      /\ UNCHANGED <<auth, enabled, lapsed, target, frozen, bridge, comp, acked, runs, events>>
  BY DEF RefuseAuthorize, pi, past
<1>2. /\ CallsMove /\ call'[c].at = "done"
      /\ \A d \in Calls \ {c} : call'[d] = call[d]
  BY <1>1, EndsMoves DEF GrantInv, Answers
<1>3. c # auth.staged /\ c # auth.live
  BY <1>1, ChromeAssumption DEF GrantInv, StagedIsOpen, LiveIsCommitted
<1>4. auth \in [live : Grants, staged : Grants] /\ frozen \in Grants /\ events \in 0..MaxEvents
      /\ (frozen # None /\ auth.live # None => frozen = auth.live)
  BY DEF GrantInv, ChromeTypeOK, FreezeIsOfLive
<1> QED BY <1>1, <1>2, <1>3, <1>4, CallerKeeps

\* A handshake without a companion or a token ends as it began.
LEMMA StageAbortsKeeps ==
  ASSUME GrantInv, ended' = ended \cup LetGo, NEW c \in Calls, StageAborts(c)
  PROVE  GrantInv'
<1>1. /\ call[c].at = "idle" /\ Ends(c, "error")
      /\ auth' = Read(auth) /\ frozen' = PurgedIfLocked(auth')
      /\ UNCHANGED <<enabled, lapsed, target, bridge, comp, acked, runs, events>>
  BY DEF StageAborts, past
<1>2. /\ CallsMove /\ call'[c].at = "done"
      /\ \A d \in Calls \ {c} : call'[d] = call[d]
  BY <1>1, EndsMoves DEF GrantInv, Answers
<1>3. /\ auth' \in [live : Grants, staged : Grants]
      /\ auth'.live \in {auth.live, None} /\ auth'.staged \in {auth.staged, None}
      /\ frozen # None /\ auth'.live # None => frozen = auth'.live
      /\ frozen \in Grants /\ events \in 0..MaxEvents
  BY <1>1, ReadKeeps
<1>4. c # auth'.staged /\ c # auth'.live
  BY <1>1, <1>3, ChromeAssumption DEF GrantInv, StagedIsOpen, LiveIsCommitted
<1>5. frozen' \in Grants /\ (frozen' # None /\ auth'.live # None => frozen' = auth'.live)
  BY <1>1, <1>3 DEF PurgedIfLocked, Grants
<1> QED BY <1>1, <1>2, <1>3, <1>4, <1>5, CallerKeeps

\* An execute looks at the grant before its first await.
LEMMA StartExecuteKeeps ==
  ASSUME GrantInv, ended' = ended \cup LetGo, NEW c \in Calls, StartExecute(c)
  PROVE  GrantInv'
<1>1. /\ call[c].at = "idle" /\ c \in Uses
      /\ auth' \in {auth, Read(auth)}
      /\ UNCHANGED <<enabled, lapsed, target, frozen, bridge, comp, acked, runs, events>>
  BY DEF StartExecute, past
<1>2. c # auth'.staged /\ c # auth'.live
  BY <1>1, ReadKeeps, ChromeAssumption DEF GrantInv, StagedIsOpen, LiveIsCommitted, Calls
<1>3. /\ CallsMove /\ call'[c].at # "back"
      /\ \A d \in Calls \ {c} : call'[d] = call[d]
  <2>1. CASE Ends(c, "error")
    BY <2>1, EndsMoves DEF GrantInv, Answers
  <2>2. CASE /\ auth'.live # None
             /\ call' = [call EXCEPT ![c] = [@ EXCEPT !.at = "preparing", !.grant = auth'.live,
                                                      !.kind = "execute"]]
    <3> DEFINE r == [call[c] EXCEPT !.at = "preparing", !.grant = auth'.live, !.kind = "execute"]
    <3>1. call[c] \in CallRecords /\ auth'.live \in Grants
      BY <1>1, ReadKeeps DEF GrantInv, ChromeTypeOK
    <3>2. /\ r \in CallRecords
          /\ r.at = "preparing" /\ r.kind = "execute" /\ r.grant # None
      BY <2>2, <3>1 DEF CallRecords, Kinds
    <3>3. call' = [call EXCEPT ![c] = r]
      BY <2>2
    <3>4. c \notin Authorizes /\ None # "execute"
      BY <1>1, ChromeAssumption DEF Kinds
    <3> HIDE DEF r
    <3> QED BY <1>1, <3>2, <3>3, <3>4, SetCall DEF GrantInv
  <2> QED BY <2>1, <2>2 DEF StartExecute
<1>4. /\ auth' \in [live : Grants, staged : Grants]
      /\ auth'.live \in {auth.live, None} /\ auth'.staged \in {auth.staged, None}
      /\ frozen # None /\ auth'.live # None => frozen = auth'.live
      /\ frozen \in Grants /\ events \in 0..MaxEvents
  BY <1>1, ReadKeeps DEF GrantInv, ChromeTypeOK, FreezeIsOfLive
<1> QED BY <1>1, <1>2, <1>3, <1>4, CallerKeeps

\* An execute sends its command, or gives up.
LEMMA PrepareKeeps ==
  ASSUME GrantInv, ended' = ended \cup LetGo, NEW c \in Calls, PrepareOperation(c)
  PROVE  GrantInv'
<1>1. /\ call[c].at = "preparing"
      /\ UNCHANGED <<auth, enabled, lapsed, target, frozen, bridge, comp, acked, runs, events>>
      /\ (target # None /\ Posts(c, "execute", call[c].grant, target)) \/ Ends(c, "error")
  BY DEF PrepareOperation, pi, past
<1>2. c # auth.staged /\ c # auth.live
  BY <1>1, ChromeAssumption DEF GrantInv, StagedIsOpen, LiveIsCommitted, Calls
<1>3. /\ CallsMove /\ call'[c].at # "back"
      /\ \A d \in Calls \ {c} : call'[d] = call[d]
  <2>1. CASE Ends(c, "error")
    BY <2>1, EndsMoves DEF GrantInv, Answers
  <2>2. CASE target # None /\ Posts(c, "execute", call[c].grant, target)
    <3>1. PICK g : g = call[c].grant
      OBVIOUS
    <3>2. c \in Uses /\ c \notin Authorizes /\ g # None
      BY <1>1, <3>1, ChromeAssumption DEF GrantInv, CallsFit, Calls, Kinds
    <3>3. g \in Authorizes /\ "execute" \in Kinds /\ target \in Companions \cup {None}
      BY <3>1, <3>2 DEF GrantInv, ChromeTypeOK, CallRecords, Grants, Kinds
    <3> QED BY <1>1, <2>2, <3>1, <3>2, <3>3, PostsMoves DEF GrantInv
  <2> QED BY <1>1, <2>1, <2>2
<1>4. auth \in [live : Grants, staged : Grants] /\ frozen \in Grants /\ events \in 0..MaxEvents
      /\ (frozen # None /\ auth.live # None => frozen = auth.live)
  BY DEF GrantInv, ChromeTypeOK, FreezeIsOfLive
<1> QED BY <1>1, <1>2, <1>3, <1>4, CallerKeeps

\* A renewal looks at the grant and sends its command.
LEMMA StartRenewKeeps ==
  ASSUME GrantInv, ended' = ended \cup LetGo, NEW c \in Calls, StartRenew(c)
  PROVE  GrantInv'
<1>1. /\ call[c].at = "idle" /\ c \in Uses /\ auth' = Read(auth)
      /\ UNCHANGED <<enabled, lapsed, target, frozen, bridge, comp, acked, runs, events>>
  BY DEF StartRenew, past
<1>2. c # auth'.staged /\ c # auth'.live /\ c \notin Authorizes
  BY <1>1, ReadKeeps, ChromeAssumption DEF GrantInv, StagedIsOpen, LiveIsCommitted, Calls
<1>3. /\ CallsMove /\ call'[c].at # "back"
      /\ \A d \in Calls \ {c} : call'[d] = call[d]
  <2>1. CASE Ends(c, "error")
    BY <2>1, EndsMoves DEF GrantInv, Answers
  <2>2. CASE auth'.live # None /\ Posts(c, "renew", auth'.live, target)
    <3>1. auth'.live \in Authorizes /\ "renew" \in Kinds /\ target \in Companions \cup {None}
      BY <1>1, <2>2, ReadKeeps DEF GrantInv, ChromeTypeOK, Grants, Kinds
    <3> QED BY <1>1, <1>2, <2>2, <3>1, PostsMoves DEF GrantInv
  <2> QED BY <2>1, <2>2 DEF StartRenew
<1>4. /\ auth' \in [live : Grants, staged : Grants]
      /\ auth'.live \in {auth.live, None} /\ auth'.staged \in {auth.staged, None}
      /\ frozen # None /\ auth'.live # None => frozen = auth'.live
      /\ frozen \in Grants /\ events \in 0..MaxEvents
  BY <1>1, ReadKeeps
<1> QED BY <1>1, <1>2, <1>3, <1>4, CallerKeeps

\* A revocation leaves nothing live or staged.
LEMMA RevokeKeeps ==
  ASSUME GrantInv, ended' = ended \cup LetGo, Revoke
  PROVE  GrantInv'
<1> DEFINE g == Read(auth).live
<1>1. /\ Disrupts /\ auth' = Locked /\ frozen' = None
      /\ UNCHANGED <<enabled, lapsed, target, bridge, comp, acked, runs>>
      /\ (g # None /\ Posts(g, "revoke", g, target)) \/ UNCHANGED call
  BY DEF Revoke
<1>2. CallsMove /\ \A d \in Calls : call'[d] = call[d] \/ call'[d].at # "back"
  <2>1. CASE g # None /\ Posts(g, "revoke", g, target)
    <3>1. g = auth.live /\ g \in Authorizes /\ g \in Calls
      BY <2>1, ReadKeeps, ReadGives DEF Grants, Calls
    <3>2. call[g].kind = "authorize" /\ "revoke" \in Kinds /\ g \notin Uses
      BY <2>1, <3>1, ChromeAssumption DEF GrantInv, LiveIsCommitted, Kinds
    <3>3. target \in Companions \cup {None}
      BY DEF GrantInv, ChromeTypeOK
    <3> HIDE DEF g
    <3> QED BY <2>1, <3>1, <3>2, <3>3, PostsMoves DEF GrantInv
  <2>2. CASE UNCHANGED call
    BY <2>2, StillMoves DEF GrantInv
  <2> QED BY <1>1, <2>1, <2>2
<1>3. auth' \in [live : Grants, staged : Grants] /\ auth'.live = None /\ auth'.staged = None
  BY <1>1 DEF Locked, Grants
<1>4. EndedAreBegun' /\ LiveIsEarned' /\ ended' \subseteq Authorizes
  BY <1>1, <1>2, <1>3, GrantsKeep
<1>5. ChromeTypeOK'
  BY <1>1, <1>2, <1>3, <1>4, DisruptsCounts DEF GrantInv, ChromeTypeOK, CallsMove, bridge, Grants
<1>6. CommandsAreSane'
  BY <1>1, <1>2, CommandsStay DEF bridge
<1>7. YesIsAcked'
  BY <1>1, <1>2, YesStays DEF Calls
<1>8. StagedIsOpen' /\ LiveIsCommitted' /\ FreezeIsOfLive'
  BY <1>3 DEF StagedIsOpen, LiveIsCommitted, FreezeIsOfLive
<1> QED BY <1>2, <1>4, <1>5, <1>6, <1>7, <1>8 DEF GrantInv, CallsMove

-----------------------------------------------------------------------------
(* The steps of the bridge.                                                *)

\* A step of the bridge or a companion that tells no call about a grant.
LEMMA CarryKeeps ==
  ASSUME GrantInv, ended' = ended \cup LetGo, CallsMove,
         \A d \in Calls : \/ call'[d] = call[d]
                          \/ /\ call[d].at \in {"posted", "waiting"} /\ call'[d].kind = call[d].kind
                             /\ call'[d].at \in {"waiting", "back"},
         UNCHANGED pi,
         up' \in BOOLEAN, known' \subseteq Companions, waiters' \subseteq Commands,
         queue' \in [Companions -> Seq(Commands)],
         comp' \in [Companions -> CompanionRecords],
         events' \in 0..MaxEvents, acked \subseteq acked', acked' \subseteq Authorizes,
         runs' \in [Uses -> Nat],
         CommandsAreSane', YesIsAcked'
  PROVE  GrantInv'
<1>1. auth' = auth /\ auth \in [live : Grants, staged : Grants]
  BY DEF pi, GrantInv, ChromeTypeOK
<1>2. EndedAreBegun' /\ LiveIsEarned' /\ ended' \subseteq Authorizes
  BY <1>1, GrantsKeep
<1>3. ChromeTypeOK'
  BY <1>1, <1>2 DEF GrantInv, ChromeTypeOK, CallsMove, pi
<1>4. StagedIsOpen' /\ LiveIsCommitted' /\ FreezeIsOfLive'
  BY <1>1 DEF GrantInv, StagedIsOpen, LiveIsCommitted, FreezeIsOfLive, ChromeTypeOK, Grants,
              Calls, pi
<1> QED BY <1>2, <1>3, <1>4 DEF GrantInv, CallsMove

LEMMA RemoveAtGives ==
  ASSUME NEW S, NEW q \in Seq(S), NEW i \in 1..Len(q)
  PROVE  /\ RemoveAt(q, i) \in Seq(S)
         /\ Len(RemoveAt(q, i)) = Len(q) - 1
         /\ \A j \in 1..(Len(q) - 1) : RemoveAt(q, i)[j] = q[IF j < i THEN j ELSE j + 1]
<1> DEFINE a == SubSeq(q, 1, i - 1)
           b == SubSeq(q, i + 1, Len(q))
<1>1. Len(q) \in Nat /\ i \in 1..Len(q) /\ i - 1 \in Nat
  BY LenProperties
<1>2. /\ a \in Seq(S) /\ Len(a) = i - 1
      /\ \A j \in 1..(i - 1) : a[j] = q[j]
  BY <1>1, SubSeqProperties
<1>3. /\ b \in Seq(S) /\ Len(b) = Len(q) - i
      /\ \A j \in 1..(Len(q) - i) : b[j] = q[i + j]
  BY <1>1, SubSeqProperties
<1>4. RemoveAt(q, i) = a \o b
  BY DEF RemoveAt
<1> HIDE DEF a, b
<1>5. /\ a \o b \in Seq(S) /\ Len(a \o b) = Len(q) - 1
      /\ \A j \in 1..(Len(q) - 1) : (a \o b)[j] = IF j <= i - 1 THEN a[j] ELSE b[j - (i - 1)]
  <2>1. /\ a \o b \in Seq(S) /\ Len(a \o b) = Len(a) + Len(b)
        /\ \A j \in 1..(Len(a) + Len(b)) : (a \o b)[j] = IF j <= Len(a) THEN a[j] ELSE b[j - Len(a)]
    BY <1>2, <1>3, ConcatProperties
  <2>2. Len(a) + Len(b) = Len(q) - 1
    BY <1>1, <1>2, <1>3
  <2> QED BY <1>2, <2>1, <2>2
<1>6. ASSUME NEW j \in 1..(Len(q) - 1)
      PROVE  (a \o b)[j] = q[IF j < i THEN j ELSE j + 1]
  <2>1. CASE j < i
    BY <1>1, <1>2, <1>5, <2>1
  <2>2. CASE ~(j < i)
    <3>1. j - (i - 1) \in 1..(Len(q) - i) /\ i + (j - (i - 1)) = j + 1 /\ ~(j <= i - 1)
      BY <1>1, <2>2
    <3> QED BY <1>3, <1>5, <2>2, <3>1
  <2> QED BY <2>1, <2>2
<1> QED BY <1>4, <1>5, <1>6

\* The commands there are now were there before, or are as they should be.
LEMMA CommandsCarry ==
  ASSUME GrantInv, CallsMove,
         \A p \in Companions : \A i \in 1..Len(queue'[p]) :
           \/ \E j \in 1..Len(queue[p]) : queue'[p][i] = queue[p][j]
           \/ \E k \in Commands : queue'[p][i] = k /\ Sane(k)',
         \A p \in Companions :
           \/ comp'[p].at = "idle" /\ comp'[p].job = None /\ comp'[p].res = None
           \/ comp'[p].at # "idle" /\ comp[p].at # "idle" /\ comp'[p].job = comp[p].job
           \/ comp'[p].at # "idle" /\ \E j \in 1..Len(queue[p]) : comp'[p].job = queue[p][j]
  PROVE  CommandsAreSane'
<1>1. \A p \in Companions : \A i \in 1..Len(queue[p]) : queue[p][i] \in Commands
  BY ElementOfSeq DEF GrantInv, ChromeTypeOK
<1>2. \A p \in Companions : comp[p].job # None => comp[p].job \in Commands
  BY DEF GrantInv, ChromeTypeOK, CompanionRecords
<1>3. \A k \in Commands : Sane(k) => Sane(k)'
  BY SaneStays
<1>4. None \notin Commands
  BY ChromeAssumption
<1> HIDE DEF Sane
<1>5. ASSUME NEW p \in Companions, NEW i \in 1..Len(queue'[p])
      PROVE  \E k \in Commands : queue'[p][i] = k /\ Sane(k)'
  BY <1>1, <1>3 DEF GrantInv, CommandsAreSane
<1>6. ASSUME NEW p \in Companions, comp'[p].at # "idle"
      PROVE  \E k \in Commands : comp'[p].job = k /\ Sane(k)'
  BY <1>1, <1>2, <1>3, <1>6 DEF GrantInv, CommandsAreSane
<1> QED BY <1>4, <1>5, <1>6 DEF CommandsAreSane

\* A command joins the queue of its companion, or is lost on a broken poll.
LEMMA EnqueueGives ==
  ASSUME GrantInv, NEW k \in Commands, NEW p \in Companions, Enqueue(k, p)
  PROVE  /\ queue' \in [Companions -> Seq(Commands)]
         /\ \A x \in Companions : \A i \in 1..Len(queue'[x]) :
              \/ i \in 1..Len(queue[x]) /\ queue'[x][i] = queue[x][i]
              \/ x = p /\ i = Len(queue[x]) + 1 /\ queue'[x][i] = k
         /\ events' \in 0..MaxEvents
<1>1. queue \in [Companions -> Seq(Commands)] /\ ChromeTypeOK
  BY DEF GrantInv, ChromeTypeOK
<1>2. CASE queue' = [queue EXCEPT ![p] = Append(@, k)] /\ UNCHANGED events
  <2> DEFINE q == Append(queue[p], k)
  <2>1. /\ q \in Seq(Commands)
        /\ Len(q) = Len(queue[p]) + 1 /\ Len(queue[p]) \in Nat
        /\ \A i \in 1..Len(queue[p]) : q[i] = queue[p][i]
        /\ q[Len(queue[p]) + 1] = k
    BY <1>1, AppendProperties, LenProperties
  <2>2. queue' = [queue EXCEPT ![p] = q]
    BY <1>2
  <2> HIDE DEF q
  <2>3. /\ queue' \in [Companions -> Seq(Commands)] /\ queue'[p] = q
        /\ \A x \in Companions \ {p} : queue'[x] = queue[x]
    BY <1>1, <2>1, <2>2
  <2>4. events' \in 0..MaxEvents
    BY <1>1, <1>2 DEF ChromeTypeOK
  <2> QED BY <2>1, <2>3, <2>4
<1>3. CASE Disrupts /\ UNCHANGED queue
  BY <1>1, <1>3, DisruptsCounts
<1> QED BY <1>2, <1>3 DEF Enqueue

\* The bridge takes a command in, or turns it away.
LEMMA HandleCommandKeeps ==
  ASSUME GrantInv, ended' = ended \cup LetGo, NEW c \in Calls, HandleCommand(c)
  PROVE  GrantInv'
<1>1. /\ call[c].at = "posted"
      /\ UNCHANGED <<pi, up, known, comp, acked, runs>>
  BY DEF HandleCommand
<1>2. ChromeTypeOK /\ CallsFit /\ call[c] \in CallRecords
  BY DEF GrantInv, ChromeTypeOK
<1>3. CASE ~(up /\ call[c].to \in known)
  <2>1. call' = Back(c, "thrown") /\ UNCHANGED <<waiters, queue, events>>
    BY <1>3 DEF HandleCommand
  <2>2. /\ CallsMove
        /\ call'[c].at = "back" /\ call'[c].res = "thrown" /\ call'[c].kind = call[c].kind
        /\ \A d \in Calls \ {c} : call'[d] = call[d]
    BY <1>1, <1>2, <2>1, BackMoves DEF Answers
  <2>3. CommandsAreSane'
    BY <1>1, <2>1, <2>2, CommandsStay
  <2>4. YesIsAcked'
    BY <1>1, <2>2, YesStays DEF Calls
  <2> QED BY <1>1, <1>2, <2>1, <2>2, <2>3, <2>4, CarryKeeps DEF ChromeTypeOK
<1>4. CASE up /\ call[c].to \in known
  <2> DEFINE r == [call[c] EXCEPT !.at = "waiting"]
  <2>0. PICK k, p : k = Cmd(c) /\ p = call[c].to
    OBVIOUS
  <2>1. /\ waiters' = waiters \cup {k} /\ call' = [call EXCEPT ![c] = r] /\ Enqueue(k, p)
    BY <1>4, <2>0 DEF HandleCommand
  <2>2. /\ r \in CallRecords
        /\ r.at = "waiting" /\ r.kind = call[c].kind /\ r.grant = call[c].grant
    BY <1>2 DEF CallRecords
  <2>3. k \in Commands /\ p \in Companions /\ k.call = c /\ k.kind = call[c].kind
    BY <1>1, <1>2, <1>4, <2>0 DEF Cmd, Commands, CallsFit, CallRecords, ChromeTypeOK
  <2>4. /\ r.at \in {"posted", "waiting", "back", "preparing"} => r.kind # None
        /\ c \in Authorizes => /\ r.kind \in {None, "authorize", "revoke", "cleanup"}
                               /\ r.kind # None => r.grant = c
        /\ c \in Uses => r.kind \in {None, "execute", "renew"}
        /\ r.kind = "execute" => r.grant # None
        /\ r.at # "preparing"
    BY <1>1, <1>2, <2>2 DEF CallsFit
  <2>5. waiters \subseteq Commands
    BY <1>2 DEF ChromeTypeOK
  <2> HIDE DEF r
  <2>6. /\ CallsMove
        /\ call'[c] = r /\ \A d \in Calls \ {c} : call'[d] = call[d]
    BY <1>2, <2>1, <2>2, <2>4, SetCall
  <2>7. Sane(k)'
    <3>1. c \in Authorizes \/ (c \in Uses /\ c \notin Authorizes)
      BY ChromeAssumption DEF Calls
    <3>2. k.kind # None /\ (k.kind \in {"authorize", "revoke", "cleanup"} <=> c \in Authorizes)
      BY <1>1, <1>2, <2>2, <2>3, <2>4, <3>1
    <3>3. call'[k.call].at = "waiting" /\ call'[k.call].kind = k.kind
      BY <2>2, <2>3, <2>6
    <3> QED BY <2>3, <3>2, <3>3 DEF Sane
  <2>8. /\ queue' \in [Companions -> Seq(Commands)] /\ events' \in 0..MaxEvents
        /\ \A x \in Companions : \A i \in 1..Len(queue'[x]) :
             \/ i \in 1..Len(queue[x]) /\ queue'[x][i] = queue[x][i]
             \/ queue'[x][i] = k
    BY <2>1, <2>3, EnqueueGives
  <2>9. CommandsAreSane'
    <3>1. \A x \in Companions : \A i \in 1..Len(queue'[x]) :
            \/ \E j \in 1..Len(queue[x]) : queue'[x][i] = queue[x][j]
            \/ \E z \in Commands : queue'[x][i] = z /\ Sane(z)'
      BY <2>3, <2>7, <2>8
    <3>2. \A x \in Companions :
            \/ comp'[x].at = "idle" /\ comp'[x].job = None /\ comp'[x].res = None
            \/ comp'[x].at # "idle" /\ comp[x].at # "idle" /\ comp'[x].job = comp[x].job
      <4>1. comp' = comp
        BY <1>1
      <4>2. \A x \in Companions : comp[x].at = "idle" => comp[x].job = None /\ comp[x].res = None
        BY DEF GrantInv, CommandsAreSane
      <4> QED BY <4>1, <4>2
    <3> HIDE DEF Sane
    <3> QED BY <2>6, <3>1, <3>2, CommandsCarry
  <2>10. YesIsAcked'
    BY <1>1, <2>2, <2>6, YesStays DEF Calls
  <2>11. /\ waiters' \subseteq Commands /\ up' \in BOOLEAN /\ known' \subseteq Companions
         /\ comp' \in [Companions -> CompanionRecords] /\ acked' \subseteq Authorizes
         /\ runs' \in [Uses -> Nat] /\ acked' = acked
    BY <1>1, <1>2, <2>1, <2>3, <2>5 DEF ChromeTypeOK
  <2> QED BY <1>1, <2>2, <2>6, <2>8, <2>9, <2>10, <2>11, CarryKeeps
<1> QED BY <1>3, <1>4

\* The caller of a command hears of it, if it still waits.
LEMMA ToldMoves ==
  ASSUME ChromeTypeOK, CallsFit, NEW k \in Commands, NEW res \in Answers,
         call' = Told(k, res)
  PROVE  /\ CallsMove
         /\ \A d \in Calls :
              \/ call'[d] = call[d]
              \/ /\ d = k.call /\ call[d].at = "waiting" /\ call[d].kind = k.kind
                 /\ call'[d].at = "back" /\ call'[d].res = res /\ call'[d].kind = call[d].kind
                 /\ call'[d].grant = call[d].grant
<1>1. PICK c : c = k.call
  OBVIOUS
<1>2. c \in Calls
  BY <1>1 DEF Commands
<1>3. CASE call[c].at = "waiting" /\ call[c].kind = k.kind
  <2>1. call' = Back(c, res)
    BY <1>1, <1>3 DEF Told
  <2> QED BY <1>1, <1>2, <1>3, <2>1, BackMoves
<1>4. CASE ~(call[c].at = "waiting" /\ call[c].kind = k.kind)
  <2>1. call' = call
    BY <1>1, <1>4 DEF Told
  <2> QED BY <2>1, StillMoves
<1> QED BY <1>3, <1>4

\* A timed-out command leaves its queue, and nothing else there changes.
LEMMA DroppedGives ==
  ASSUME GrantInv, NEW k \in Commands, Dropped(k)
  PROVE  /\ queue' \in [Companions -> Seq(Commands)]
         /\ \/ UNCHANGED queue /\ \A x \in Companions : \A i \in 1..Len(queue[x]) : queue[x][i] # k
            \/ \E p \in Companions : \E i \in 1..Len(queue[p]) :
                 /\ queue[p][i] = k
                 /\ \A x \in Companions \ {p} : queue'[x] = queue[x]
                 /\ Len(queue'[p]) = Len(queue[p]) - 1
                 /\ \A j \in 1..(Len(queue[p]) - 1) :
                      queue'[p][j] = queue[p][IF j < i THEN j ELSE j + 1]
<1>1. queue \in [Companions -> Seq(Commands)]
  BY DEF GrantInv, ChromeTypeOK
<1>2. CASE \E p \in Companions : \E i \in 1..Len(queue[p]) :
             queue[p][i] = k /\ queue' = [queue EXCEPT ![p] = RemoveAt(@, i)]
  <2>0. PICK p \in Companions : \E i \in 1..Len(queue[p]) :
             queue[p][i] = k /\ queue' = [queue EXCEPT ![p] = RemoveAt(queue[p], i)]
    BY <1>2
  <2>1. PICK i \in 1..Len(queue[p]) :
             queue[p][i] = k /\ queue' = [queue EXCEPT ![p] = RemoveAt(queue[p], i)]
    BY <2>0
  <2>2. queue[p] \in Seq(Commands)
    BY <1>1
  <2> DEFINE q == RemoveAt(queue[p], i)
  <2>3. /\ q \in Seq(Commands) /\ Len(q) = Len(queue[p]) - 1
        /\ \A j \in 1..(Len(queue[p]) - 1) : q[j] = queue[p][IF j < i THEN j ELSE j + 1]
    BY <2>2, RemoveAtGives
  <2>4. queue' = [queue EXCEPT ![p] = q]
    BY <2>1
  <2> HIDE DEF q
  <2>5. /\ queue' \in [Companions -> Seq(Commands)] /\ queue'[p] = q
        /\ \A x \in Companions \ {p} : queue'[x] = queue[x]
    BY <1>1, <2>3, <2>4
  <2> QED BY <2>1, <2>3, <2>5
<1> QED BY <1>1, <1>2 DEF Dropped

\* So every command still queued was queued before.
LEMMA DroppedKeepsOld ==
  ASSUME GrantInv, NEW k \in Commands, Dropped(k)
  PROVE  \A x \in Companions : \A i \in 1..Len(queue'[x]) :
           \E j \in 1..Len(queue[x]) : queue'[x][i] = queue[x][j]
<1>1. CASE UNCHANGED queue
  BY <1>1
<1>2. ASSUME NEW p \in Companions, NEW i \in 1..Len(queue[p]),
             \A x \in Companions \ {p} : queue'[x] = queue[x],
             Len(queue'[p]) = Len(queue[p]) - 1,
             \A j \in 1..(Len(queue[p]) - 1) :
               queue'[p][j] = queue[p][IF j < i THEN j ELSE j + 1]
      PROVE  \A x \in Companions : \A j \in 1..Len(queue'[x]) :
               \E l \in 1..Len(queue[x]) : queue'[x][j] = queue[x][l]
  <2>1. Len(queue[p]) \in Nat
    BY LenProperties DEF GrantInv, ChromeTypeOK
  <2>2. \A j \in 1..Len(queue'[p]) : \E l \in 1..Len(queue[p]) : queue'[p][j] = queue[p][l]
    <3> TAKE j \in 1..Len(queue'[p])
    <3>1. (IF j < i THEN j ELSE j + 1) \in 1..Len(queue[p])
      BY <1>2, <2>1
    <3> QED BY <1>2, <3>1
  <2> QED BY <1>2, <2>2
<1> QED BY <1>1, <1>2, DroppedGives

\* A step that leaves every companion with its command.
LEMMA JobsStay ==
  ASSUME GrantInv, comp' = comp
  PROVE  \A x \in Companions :
           \/ comp'[x].at = "idle" /\ comp'[x].job = None /\ comp'[x].res = None
           \/ comp'[x].at # "idle" /\ comp[x].at # "idle" /\ comp'[x].job = comp[x].job
<1>1. \A x \in Companions : comp[x].at = "idle" => comp[x].job = None /\ comp[x].res = None
  BY DEF GrantInv, CommandsAreSane
<1> QED BY <1>1

\* A command is given up by the bridge, or by its caller.
LEMMA TimeoutKeeps ==
  ASSUME GrantInv, ended' = ended \cup LetGo,
         (\E k \in waiters : CommandTimeout(k)) \/ (\E c \in Calls : ClientTimeout(c))
  PROVE  GrantInv'
<1>1. ChromeTypeOK /\ CallsFit
  BY DEF GrantInv
<1>2. CASE \E k \in waiters : CommandTimeout(k)
  <2>1. PICK k \in waiters : CommandTimeout(k)
    BY <1>2
  <2>2. /\ k \in Commands /\ call' = Told(k, "thrown") /\ Dropped(k)
        /\ waiters' = waiters \ {k}
        /\ UNCHANGED <<pi, up, known, comp, events, acked, runs>>
    BY <1>1, <2>1 DEF CommandTimeout, past, ChromeTypeOK
  <2>3. /\ CallsMove
        /\ \A d \in Calls : \/ call'[d] = call[d]
                            \/ /\ call[d].at = "waiting" /\ call'[d].at = "back"
                               /\ call'[d].res = "thrown" /\ call'[d].kind = call[d].kind
    BY <1>1, <2>2, ToldMoves DEF Answers
  <2>4. queue' \in [Companions -> Seq(Commands)]
    BY <2>2, DroppedGives
  <2>5. CommandsAreSane'
    BY <2>2, <2>3, DroppedKeepsOld, JobsStay, CommandsCarry
  <2>6. YesIsAcked'
    BY <2>2, <2>3, YesStays DEF Calls
  <2>7. /\ waiters' \subseteq Commands /\ up' \in BOOLEAN /\ known' \subseteq Companions
        /\ comp' \in [Companions -> CompanionRecords] /\ acked' \subseteq Authorizes
        /\ runs' \in [Uses -> Nat] /\ acked' = acked /\ events' \in 0..MaxEvents
    BY <1>1, <2>2 DEF ChromeTypeOK
  <2> QED BY <2>2, <2>3, <2>4, <2>5, <2>6, <2>7, CarryKeeps
<1>3. CASE \E c \in Calls : ClientTimeout(c)
  <2>1. PICK c \in Calls : ClientTimeout(c)
    BY <1>3
  <2>2. /\ call[c].at \in {"posted", "waiting"} /\ call' = Back(c, "thrown")
        /\ UNCHANGED <<pi, up, known, waiters, queue, comp, events, acked, runs>>
    BY <2>1 DEF ClientTimeout, bridge, past
  <2>3. /\ CallsMove
        /\ call'[c].at = "back" /\ call'[c].res = "thrown" /\ call'[c].kind = call[c].kind
        /\ \A d \in Calls \ {c} : call'[d] = call[d]
    BY <1>1, <2>2, BackMoves DEF Answers
  <2>4. CommandsAreSane'
    BY <2>2, <2>3, CommandsStay
  <2>5. YesIsAcked'
    BY <2>2, <2>3, YesStays DEF Calls
  <2>6. /\ waiters' \subseteq Commands /\ up' \in BOOLEAN /\ known' \subseteq Companions
        /\ comp' \in [Companions -> CompanionRecords] /\ acked' \subseteq Authorizes
        /\ queue' \in [Companions -> Seq(Commands)]
        /\ runs' \in [Uses -> Nat] /\ acked' = acked /\ events' \in 0..MaxEvents
    BY <1>1, <2>2 DEF ChromeTypeOK
  <2> QED BY <2>2, <2>3, <2>4, <2>5, <2>6, CarryKeeps
<1> QED BY <1>2, <1>3

\* The session ends, or a companion announces itself.
LEMMA ServerKeeps ==
  ASSUME GrantInv, ended' = ended \cup LetGo,
         StopServer \/ \E p \in Companions : HandleRegister(p)
  PROVE  GrantInv'
<1>1. ChromeTypeOK /\ CallsFit
  BY DEF GrantInv
<1>2. CASE StopServer
  <2>1. /\ up' = FALSE /\ known' = {} /\ waiters' = {} /\ Disrupts
        /\ queue' = [p \in Companions |-> <<>>]
        /\ call' = [c \in Calls |-> IF Cmd(c) \in waiters /\ call[c].at = "waiting"
                                    THEN [call[c] EXCEPT !.at = "back", !.res = "thrown"]
                                    ELSE call[c]]
        /\ UNCHANGED <<pi, comp, acked, runs>>
    BY <1>2 DEF StopServer
  <2>2. \A d \in Calls :
          /\ call'[d] \in CallRecords
          /\ \/ call'[d] = call[d]
             \/ /\ call[d].at = "waiting" /\ call'[d].at = "back" /\ call'[d].res = "thrown"
                /\ call'[d].kind = call[d].kind /\ call'[d].grant = call[d].grant
    <3> TAKE d \in Calls
    <3>1. call[d] \in CallRecords
      BY <1>1 DEF ChromeTypeOK
    <3>2. call'[d] \in {call[d], [call[d] EXCEPT !.at = "back", !.res = "thrown"]}
          /\ (call'[d] # call[d] => call[d].at = "waiting")
      BY <2>1
    <3> QED BY <3>1, <3>2 DEF CallRecords, Answers
  <2>3. call' \in [Calls -> CallRecords]
    BY <2>1, <2>2
  <2>4. CallsMove
    BY <1>1, <2>2, <2>3 DEF CallsMove, Moves, CallsFit
  <2>5. \A p \in Companions : queue'[p] = <<>> /\ Len(queue'[p]) = 0
    BY <2>1
  <2>6. CommandsAreSane'
    <3>1. comp' = comp
      BY <2>1
    <3>2. \A p \in Companions : \A i \in 1..Len(queue'[p]) :
            \E j \in 1..Len(queue[p]) : queue'[p][i] = queue[p][j]
      BY <2>5
    <3> QED BY <2>4, <3>1, <3>2, JobsStay, CommandsCarry
  <2>7. YesIsAcked'
    BY <2>1, <2>2, <2>4, YesStays DEF Calls
  <2>8. /\ waiters' \subseteq Commands /\ up' \in BOOLEAN /\ known' \subseteq Companions
        /\ comp' \in [Companions -> CompanionRecords] /\ acked' \subseteq Authorizes
        /\ queue' \in [Companions -> Seq(Commands)]
        /\ runs' \in [Uses -> Nat] /\ acked' = acked /\ events' \in 0..MaxEvents
    BY <1>1, <2>1, DisruptsCounts, EmptySeq DEF ChromeTypeOK
  <2> QED BY <2>1, <2>2, <2>4, <2>6, <2>7, <2>8, CarryKeeps
<1>3. CASE \E p \in Companions : HandleRegister(p)
  <2>1. /\ \E p \in Companions : known' = known \cup {p}
        /\ UNCHANGED <<pi, call, up, waiters, queue, comp, events, acked, runs>>
    BY <1>3 DEF HandleRegister, past
  <2>2. CallsMove
    BY <1>1, <2>1, StillMoves
  <2>3. CommandsAreSane' /\ YesIsAcked'
    BY <2>1, <2>2, CommandsStay, YesStays
  <2>4. /\ waiters' \subseteq Commands /\ up' \in BOOLEAN /\ known' \subseteq Companions
        /\ comp' \in [Companions -> CompanionRecords] /\ acked' \subseteq Authorizes
        /\ queue' \in [Companions -> Seq(Commands)]
        /\ runs' \in [Uses -> Nat] /\ acked' = acked /\ events' \in 0..MaxEvents
    BY <1>1, <2>1 DEF ChromeTypeOK
  <2> QED BY <2>1, <2>2, <2>3, <2>4, CarryKeeps
<1> QED BY <1>2, <1>3

-----------------------------------------------------------------------------
(* The steps of the companions.                                            *)

\* A companion goes on with its command, or forgets all it knew.
LEMMA CompanionKeeps ==
  ASSUME GrantInv, ended' = ended \cup LetGo,
         NEW p \in Companions, NEW r \in CompanionRecords,
         comp' = [comp EXCEPT ![p] = r],
         UNCHANGED <<pi, call, bridge>>, events' \in 0..MaxEvents,
         acked \subseteq acked', acked' \subseteq Authorizes, runs' \in [Uses -> Nat],
         \/ r.at = "idle" /\ r.job = None /\ r.res = None
         \/ r.at # "idle" /\ comp[p].at # "idle" /\ r.job = comp[p].job,
         r.at = "posting" /\ r.job.kind = "authorize" /\ r.res = "ok" => r.job.call \in acked',
         r.at = "running" => r.job.kind = "execute",
         r.at = "posting" => r.res # None
  PROVE  GrantInv'
<1>1. ChromeTypeOK /\ CallsFit
  BY DEF GrantInv
<1>2. CallsMove
  BY <1>1, StillMoves
<1>3. /\ comp' \in [Companions -> CompanionRecords] /\ comp'[p] = r
      /\ \A x \in Companions \ {p} : comp'[x] = comp[x]
  BY <1>1 DEF ChromeTypeOK
<1>4. CommandsAreSane'
  <2>1. \A x \in Companions : comp[x].at = "idle" => comp[x].job = None /\ comp[x].res = None
    BY DEF GrantInv, CommandsAreSane
  <2>2. \A x \in Companions : \A i \in 1..Len(queue'[x]) :
          \E j \in 1..Len(queue[x]) : queue'[x][i] = queue[x][j]
    BY DEF bridge
  <2> QED BY <1>2, <1>3, <2>1, <2>2, CommandsCarry
<1>5. YesIsAcked'
  BY <1>3 DEF GrantInv, YesIsAcked
<1>6. /\ waiters' \subseteq Commands /\ up' \in BOOLEAN /\ known' \subseteq Companions
      /\ queue' \in [Companions -> Seq(Commands)]
  BY <1>1 DEF ChromeTypeOK, bridge
<1> QED BY <1>2, <1>3, <1>4, <1>5, <1>6, CarryKeeps

\* The same, when a command has been obeyed.
LEMMA ObeyedKeeps ==
  ASSUME GrantInv, ended' = ended \cup LetGo, NEW p \in Companions,
         NEW res \in {"ok", "error"}, NEW g \in Grants, NEW leased \in BOOLEAN,
         Obeyed(p, res, g, leased), comp[p].at # "idle",
         UNCHANGED <<pi, call, bridge>>, events' \in 0..MaxEvents,
         acked \subseteq acked', acked' \subseteq Authorizes, runs' \in [Uses -> Nat],
         comp[p].job.kind = "authorize" /\ res = "ok" => comp[p].job.call \in acked'
  PROVE  GrantInv'
<1> DEFINE r == [at |-> "posting", job |-> comp[p].job, res |-> res,
                 grant |-> g, leased |-> leased]
<1>1. comp[p] \in CompanionRecords
  BY DEF GrantInv, ChromeTypeOK
<1>2. /\ r \in CompanionRecords
      /\ r.at = "posting" /\ r.job = comp[p].job /\ r.res = res
  BY <1>1 DEF CompanionRecords
<1>3. comp' = [comp EXCEPT ![p] = r] /\ res # None
  BY ChromeAssumption DEF Obeyed, Answers
<1> HIDE DEF r
<1> QED BY <1>1, <1>2, <1>3, CompanionKeeps

\* What a companion holds, and what its command is.
LEMMA JobFits ==
  ASSUME GrantInv, NEW p \in Companions, comp[p].at # "idle"
  PROVE  /\ comp[p] \in CompanionRecords /\ comp[p].job \in Commands /\ Sane(comp[p].job)
         /\ comp[p].grant \in Grants /\ comp[p].leased \in BOOLEAN
         /\ acked \subseteq Authorizes /\ runs \in [Uses -> Nat] /\ events \in 0..MaxEvents
         /\ Credentials(p) \in Grants
         /\ comp[p].job.kind = "authorize" =>
              Credentials(p) = comp[p].job.call /\ Credentials(p) \in Authorizes
         /\ comp[p].job.kind = "execute" => comp[p].job.call \in Uses
<1>1. /\ comp[p] \in CompanionRecords /\ comp[p].job \in Commands /\ Sane(comp[p].job)
      /\ acked \subseteq Authorizes /\ runs \in [Uses -> Nat] /\ events \in 0..MaxEvents
  <2>1. comp[p] \in CompanionRecords /\ comp[p].job # None /\ Sane(comp[p].job)
    BY DEF GrantInv, ChromeTypeOK, CommandsAreSane
  <2> HIDE DEF Sane
  <2> QED BY <2>1 DEF GrantInv, ChromeTypeOK, CompanionRecords
<1>2. PICK c : c = comp[p].job.call
  OBVIOUS
<1>3. c \in Calls /\ call[c] \in CallRecords
  BY <1>1, <1>2 DEF Commands, GrantInv, ChromeTypeOK
<1>4. call[c].grant \in Grants /\ Credentials(p) = call[c].grant
  BY <1>2, <1>3 DEF CallRecords, Credentials
<1>5. call[c].kind # None /\ (comp[p].job.kind \in {"authorize", "revoke", "cleanup"} <=> c \in Authorizes)
  BY <1>1, <1>2 DEF Sane
<1>6. c \in Authorizes => call[c].grant = c
  BY <1>3, <1>5 DEF GrantInv, CallsFit
<1>7. comp[p].job.kind = "execute" => c \in Uses
  BY <1>3, <1>5 DEF Calls
<1> QED BY <1>1, <1>2, <1>4, <1>5, <1>6, <1>7 DEF CompanionRecords

\* A command is refused or skipped before it is looked at.
LEMMA RouteKeeps ==
  ASSUME GrantInv, ended' = ended \cup LetGo, NEW p \in Companions, RefuseRoute(p)
  PROVE  GrantInv'
<1>1. /\ comp[p].at # "idle" /\ Disrupts
      /\ UNCHANGED <<pi, call, bridge, acked, runs>>
  BY DEF RefuseRoute
<1>2. /\ comp[p] \in CompanionRecords
      /\ comp[p].grant \in Grants /\ comp[p].leased \in BOOLEAN
      /\ acked \subseteq Authorizes /\ runs \in [Uses -> Nat] /\ events' \in 0..MaxEvents
  BY <1>1, JobFits, DisruptsCounts DEF GrantInv
<1>3. PICK g, leased : g = comp[p].grant /\ leased = comp[p].leased
  OBVIOUS
<1>4. CASE Obeyed(p, "error", g, leased)
  BY <1>1, <1>2, <1>3, <1>4, ObeyedKeeps
<1> DEFINE r == [comp[p] EXCEPT !.at = "idle", !.job = None, !.res = None]
<1>5. CASE comp' = [comp EXCEPT ![p] = r]
  <2>1. /\ r \in CompanionRecords
        /\ r.at = "idle" /\ r.job = None /\ r.res = None
    BY <1>2 DEF CompanionRecords
  <2> HIDE DEF r
  <2> QED BY <1>1, <1>2, <1>5, <2>1, CompanionKeeps
<1> QED BY <1>3, <1>4, <1>5 DEF RefuseRoute

\* Grants are accepted, renewed and revoked, operations run and end.
LEMMA ObeyKeeps ==
  ASSUME GrantInv, ended' = ended \cup LetGo, NEW p \in Companions,
         OnAuthorize(p) \/ OnRenew(p) \/ OnRevoke(p) \/ CheckExecute(p) \/ OperationEnds(p)
  PROVE  GrantInv'
<1>1. comp[p].at \in {"got", "running"} /\ comp[p].at # "idle"
  BY DEF OnAuthorize, OnRenew, OnRevoke, CheckExecute, OperationEnds
<1>2. /\ comp[p] \in CompanionRecords /\ comp[p].job \in Commands
      /\ comp[p].grant \in Grants /\ comp[p].leased \in BOOLEAN
      /\ acked \subseteq Authorizes /\ runs \in [Uses -> Nat] /\ events \in 0..MaxEvents
      /\ Credentials(p) \in Grants
      /\ comp[p].job.kind = "authorize" =>
           Credentials(p) = comp[p].job.call /\ Credentials(p) \in Authorizes
      /\ comp[p].job.kind = "execute" => comp[p].job.call \in Uses
  BY <1>1, JobFits
<1>3. CASE OnAuthorize(p)
  <2>1. /\ comp[p].job.kind = "authorize"
        /\ Obeyed(p, "ok", Credentials(p), TRUE)
        /\ acked' = acked \cup {Credentials(p)}
        /\ UNCHANGED <<pi, call, bridge, events, runs>>
    BY <1>3 DEF OnAuthorize
  <2>2. PICK g : g = Credentials(p)
    OBVIOUS
  <2>3. Obeyed(p, "ok", g, TRUE) /\ g \in Grants /\ acked' = acked \cup {g}
        /\ acked' \subseteq Authorizes /\ comp[p].job.call \in acked' /\ runs' \in [Uses -> Nat]
    BY <1>2, <2>1, <2>2
  <2> QED BY <1>1, <1>2, <2>1, <2>3, ObeyedKeeps
<1>4. CASE OnRenew(p) \/ OnRevoke(p)
  <2>1. /\ comp[p].job.kind # "authorize"
        /\ \E res \in {"ok", "error"}, g \in Grants, leased \in BOOLEAN : Obeyed(p, res, g, leased)
        /\ UNCHANGED <<pi, call, bridge, events, acked, runs>>
    <3>1. CASE OnRenew(p)
      BY <1>2, <3>1 DEF OnRenew, past
    <3>2. CASE OnRevoke(p)
      BY <3>2 DEF OnRevoke, past, Grants
    <3> QED BY <1>4, <3>1, <3>2
  <2> QED BY <1>1, <1>2, <2>1, ObeyedKeeps
<1>5. CASE CheckExecute(p) /\ Matches(p) /\ comp[p].leased
  <2> DEFINE r == [comp[p] EXCEPT !.at = "running"]
             e == comp[p].job.call
  <2>1. /\ comp[p].job.kind = "execute" /\ comp' = [comp EXCEPT ![p] = r]
        /\ runs' = [runs EXCEPT ![e] = runs[e] + 1]
        /\ UNCHANGED <<pi, call, bridge, events, acked>>
    BY <1>5 DEF CheckExecute
  <2>2. runs' \in [Uses -> Nat]
    BY <1>2, <2>1
  <2>3. /\ r \in CompanionRecords /\ r.at = "running" /\ r.job = comp[p].job
    BY <1>2 DEF CompanionRecords
  <2> HIDE DEF r
  <2> QED BY <1>1, <1>2, <2>1, <2>2, <2>3, CompanionKeeps
<1>6. CASE CheckExecute(p) /\ ~(Matches(p) /\ comp[p].leased)
  <2>1. /\ comp[p].job.kind = "execute"
        /\ Obeyed(p, "error", comp[p].grant, comp[p].leased)
        /\ UNCHANGED <<pi, call, bridge, events, acked, runs>>
    BY <1>6 DEF CheckExecute
  <2>2. PICK g, leased : g = comp[p].grant /\ leased = comp[p].leased
    OBVIOUS
  <2> QED BY <1>1, <1>2, <2>1, <2>2, ObeyedKeeps
<1>7. CASE OperationEnds(p)
  <2>1. /\ comp[p].at = "running"
        /\ \E res \in {"ok", "error"} : Obeyed(p, res, comp[p].grant, comp[p].leased)
        /\ UNCHANGED <<pi, call, bridge, events, acked, runs>>
    BY <1>7 DEF OperationEnds, past
  <2>2. PICK g, leased : g = comp[p].grant /\ leased = comp[p].leased
    OBVIOUS
  <2>3. comp[p].job.kind # "authorize"
    BY <2>1 DEF GrantInv, YesIsAcked
  <2> QED BY <1>1, <1>2, <2>1, <2>2, <2>3, ObeyedKeeps
<1> QED BY <1>3, <1>4, <1>5, <1>6, <1>7

\* A lease runs out, the alarm of the worker fires, or the worker dies.
LEMMA WorkerKeeps ==
  ASSUME GrantInv, ended' = ended \cup LetGo, NEW p \in Companions,
         LeaseRunsOut(p) \/ LeaseAlarm(p) \/ WorkerDies(p)
  PROVE  GrantInv'
<1>1. /\ comp[p] \in CompanionRecords
      /\ acked \subseteq Authorizes /\ runs \in [Uses -> Nat] /\ events \in 0..MaxEvents
      /\ comp[p].at = "idle" => comp[p].job = None /\ comp[p].res = None
  BY DEF GrantInv, ChromeTypeOK, CommandsAreSane
<1>2. CASE LeaseRunsOut(p)
  <2> DEFINE r == [comp[p] EXCEPT !.leased = FALSE]
  <2>1. /\ comp' = [comp EXCEPT ![p] = r]
        /\ UNCHANGED <<pi, call, bridge, events, acked, runs>>
    BY <1>2 DEF LeaseRunsOut, past
  <2>2. /\ r \in CompanionRecords /\ r.at = comp[p].at /\ r.job = comp[p].job /\ r.res = comp[p].res
    BY <1>1 DEF CompanionRecords
  <2> HIDE DEF r
  <2> QED BY <1>1, <2>1, <2>2, CompanionKeeps DEF GrantInv, YesIsAcked
<1>3. CASE LeaseAlarm(p)
  <2> DEFINE r == [comp[p] EXCEPT !.grant = None]
  <2>1. /\ comp' = [comp EXCEPT ![p] = r]
        /\ UNCHANGED <<pi, call, bridge, events, acked, runs>>
    BY <1>3 DEF LeaseAlarm, past
  <2>2. /\ r \in CompanionRecords /\ r.at = comp[p].at /\ r.job = comp[p].job /\ r.res = comp[p].res
    BY <1>1 DEF CompanionRecords, Grants
  <2> HIDE DEF r
  <2> QED BY <1>1, <2>1, <2>2, CompanionKeeps DEF GrantInv, YesIsAcked
<1>4. CASE WorkerDies(p)
  <2>1. /\ comp' = [comp EXCEPT ![p] = Forgotten]
        /\ UNCHANGED <<pi, call, bridge, acked, runs>> /\ Disrupts
    BY <1>4 DEF WorkerDies, bridge
  <2>2. /\ Forgotten \in CompanionRecords
        /\ Forgotten.at = "idle" /\ Forgotten.job = None /\ Forgotten.res = None
    BY DEF Forgotten, CompanionRecords, Grants
  <2>3. events' \in 0..MaxEvents
    BY <2>1, DisruptsCounts DEF GrantInv
  <2> QED BY <1>1, <2>1, <2>2, <2>3, CompanionKeeps
<1> QED BY <1>2, <1>3, <1>4

\* A poll takes the oldest command of the companion.
LEMMA HandleNextKeeps ==
  ASSUME GrantInv, ended' = ended \cup LetGo, NEW p \in Companions, HandleNext(p)
  PROVE  GrantInv'
<1>1. ChromeTypeOK /\ CallsFit
  BY DEF GrantInv
<1>2. queue[p] \in Seq(Commands) /\ queue[p] # <<>> /\ comp[p] \in CompanionRecords
  BY <1>1 DEF HandleNext, ChromeTypeOK
<1> DEFINE r == [comp[p] EXCEPT !.at = "got", !.job = Head(queue[p])]
           q == Tail(queue[p])
<1>3. /\ comp' = [comp EXCEPT ![p] = r] /\ queue' = [queue EXCEPT ![p] = q]
      /\ UNCHANGED <<pi, call, up, known, waiters, events, acked, runs>>
  BY DEF HandleNext, past
<1>4. /\ Head(queue[p]) \in Commands /\ Head(queue[p]) = queue[p][1]
      /\ q \in Seq(Commands) /\ Len(q) = Len(queue[p]) - 1
      /\ \A i \in 1..Len(q) : q[i] = queue[p][i + 1]
      /\ Len(queue[p]) \in Nat /\ Len(queue[p]) # 0
  BY <1>2, HeadTailProperties, LenProperties, EmptySeq
<1>5. /\ r \in CompanionRecords /\ r.at = "got" /\ r.job = queue[p][1]
  BY <1>2, <1>4 DEF CompanionRecords
<1> HIDE DEF r, q
<1>6. /\ queue' \in [Companions -> Seq(Commands)] /\ queue'[p] = q
      /\ \A x \in Companions \ {p} : queue'[x] = queue[x]
      /\ comp' \in [Companions -> CompanionRecords] /\ comp'[p] = r
      /\ \A x \in Companions \ {p} : comp'[x] = comp[x]
  BY <1>1, <1>3, <1>4, <1>5 DEF ChromeTypeOK
<1>7. CallsMove
  BY <1>1, <1>3, StillMoves
<1>8. CommandsAreSane'
  <2>1. \A x \in Companions : comp[x].at = "idle" => comp[x].job = None /\ comp[x].res = None
    BY DEF GrantInv, CommandsAreSane
  <2>2. 1 \in 1..Len(queue[p]) /\ \A i \in 1..Len(q) : i + 1 \in 1..Len(queue[p])
    BY <1>4
  <2>3. \A x \in Companions : \A i \in 1..Len(queue'[x]) :
          \E j \in 1..Len(queue[x]) : queue'[x][i] = queue[x][j]
    BY <1>4, <1>6, <2>2
  <2> QED BY <1>5, <1>6, <1>7, <2>1, <2>2, <2>3, CommandsCarry
<1>9. YesIsAcked'
  BY <1>3, <1>5, <1>6 DEF GrantInv, YesIsAcked
<1>10. /\ waiters' \subseteq Commands /\ up' \in BOOLEAN /\ known' \subseteq Companions
       /\ acked' \subseteq Authorizes /\ runs' \in [Uses -> Nat] /\ acked' = acked
       /\ events' \in 0..MaxEvents
  BY <1>1, <1>3 DEF ChromeTypeOK
<1> QED BY <1>3, <1>6, <1>7, <1>8, <1>9, <1>10, CarryKeeps

\* A companion posts its result: whoever hears of a grant that was accepted
\* hears of one that was.
LEMMA HandleResultKeeps ==
  ASSUME GrantInv, ended' = ended \cup LetGo, NEW p \in Companions, HandleResult(p)
  PROVE  GrantInv'
<1>1. ChromeTypeOK /\ CallsFit /\ comp[p] \in CompanionRecords /\ comp[p].at = "posting"
  BY DEF GrantInv, HandleResult, ChromeTypeOK
<1>2. PICK k, res : k = comp[p].job /\ res = comp[p].res
  OBVIOUS
<1>3. k \in Commands
  BY <1>1, <1>2, JobFits
<1>4. res \in {None, "ok", "error"}
  BY <1>1, <1>2 DEF CompanionRecords
<1> DEFINE r == [comp[p] EXCEPT !.at = "idle", !.job = None, !.res = None]
<1>5. /\ comp' = [comp EXCEPT ![p] = r]
      /\ \/ call' = Told(k, res) /\ UNCHANGED events
         \/ UNCHANGED <<call, events>>
         \/ Disrupts /\ UNCHANGED call
      /\ waiters' \subseteq waiters
      /\ UNCHANGED <<pi, up, known, queue, acked, runs>>
  BY <1>2 DEF HandleResult
<1>6. r \in CompanionRecords /\ r.at = "idle" /\ r.job = None /\ r.res = None
  BY <1>1 DEF CompanionRecords
<1> HIDE DEF r
<1>7. /\ comp' \in [Companions -> CompanionRecords] /\ comp'[p] = r
      /\ \A x \in Companions \ {p} : comp'[x] = comp[x]
  BY <1>1, <1>5, <1>6 DEF ChromeTypeOK
<1>8. /\ CallsMove
      /\ \A d \in Calls :
           \/ call'[d] = call[d]
           \/ /\ d = k.call /\ call[d].at = "waiting" /\ call[d].kind = k.kind
              /\ call'[d].at = "back" /\ call'[d].res = res /\ call'[d].kind = call[d].kind
  <2>1. CASE UNCHANGED call
    BY <1>1, <2>1, StillMoves
  <2>2. CASE call' = Told(k, res)
    <3>1. res \in {"ok", "error"}
      BY <1>1, <1>2, <1>4 DEF GrantInv, YesIsAcked
    <3> QED BY <1>1, <1>3, <2>2, <3>1, ToldMoves DEF Answers
  <2> QED BY <1>5, <2>1, <2>2
<1>9. CommandsAreSane'
  <2>1. \A x \in Companions : comp[x].at = "idle" => comp[x].job = None /\ comp[x].res = None
    BY DEF GrantInv, CommandsAreSane
  <2>2. \A x \in Companions : \A i \in 1..Len(queue'[x]) :
          \E j \in 1..Len(queue[x]) : queue'[x][i] = queue[x][j]
    BY <1>5
  <2> QED BY <1>6, <1>7, <1>8, <2>1, <2>2, CommandsCarry
<1>10. YesIsAcked'
  <2>1. k.kind = "authorize" /\ res = "ok" => k.call \in acked
    BY <1>1, <1>2 DEF GrantInv, YesIsAcked
  <2>2. \A c \in Authorizes : call'[c].at = "back" /\ call'[c].kind = "authorize" /\ call'[c].res = "ok"
                                => c \in acked'
    BY <1>5, <1>8, <2>1 DEF GrantInv, YesIsAcked, Calls
  <2> QED BY <1>5, <1>6, <1>7, <2>2 DEF GrantInv, YesIsAcked
<1>11. events' \in 0..MaxEvents
  BY <1>1, <1>5, DisruptsCounts DEF ChromeTypeOK
<1>12. /\ waiters' \subseteq Commands /\ up' \in BOOLEAN /\ known' \subseteq Companions
       /\ queue' \in [Companions -> Seq(Commands)]
       /\ acked' \subseteq Authorizes /\ runs' \in [Uses -> Nat] /\ acked' = acked
  BY <1>1, <1>5 DEF ChromeTypeOK
<1> QED BY <1>5, <1>7, <1>8, <1>9, <1>10, <1>11, <1>12, CarryKeeps

-----------------------------------------------------------------------------
(* The calls after their await.                                            *)

\* A call that is back holds no live grant, and the staged one only if it is
\* the handshake for it.
LEMMA BackHoldsNone ==
  ASSUME GrantInv, NEW c \in Calls, call[c].at = "back"
  PROVE  /\ c # auth.live
         /\ call[c].kind # "authorize" => c # auth.staged
         /\ ChromeTypeOK /\ CallsFit /\ call[c] \in CallRecords
         /\ frozen \in Grants /\ events \in 0..MaxEvents
         /\ auth \in [live : Grants, staged : Grants]
         /\ frozen # None /\ auth.live # None => frozen = auth.live
  BY ChromeAssumption DEF GrantInv, ChromeTypeOK, LiveIsCommitted, StagedIsOpen, FreezeIsOfLive,
                          Calls

\* A handshake fails and discards what it staged.
LEMMA AuthorizeFailsKeeps ==
  ASSUME GrantInv, ended' = ended \cup LetGo, NEW c \in Calls, AuthorizeFails(c)
  PROVE  GrantInv'
<1>1. /\ call[c].at = "back" /\ Ends(c, "error")
      /\ UNCHANGED <<enabled, lapsed, target, bridge, comp, events, acked, runs>>
  BY DEF AuthorizeFails, past
<1>2. /\ CallsMove /\ call'[c].at = "done"
      /\ \A d \in Calls \ {c} : call'[d] = call[d]
  BY <1>1, BackHoldsNone, EndsMoves DEF Answers
<1>3. CASE auth.staged \in {c, None}
  <2> DEFINE a == [auth EXCEPT !.staged = None]
  <2>1. auth' = Read(a) /\ frozen' = PurgedIfLocked(auth')
    BY <1>3 DEF AuthorizeFails
  <2>2. a \in [live : Grants, staged : Grants] /\ a.live = auth.live /\ a.staged = None
    BY <1>1, BackHoldsNone DEF Grants
  <2> HIDE DEF a
  <2>3. /\ auth' \in [live : Grants, staged : Grants]
        /\ auth'.live \in {auth.live, None} /\ auth'.staged = None
    BY <2>1, <2>2, ReadGives
  <2>4. /\ frozen' \in Grants
        /\ frozen' # None /\ auth'.live # None => frozen' = auth'.live
    BY <1>1, <2>1, <2>3, BackHoldsNone DEF PurgedIfLocked, Grants
  <2>5. c # None
    BY ChromeAssumption
  <2> QED BY <1>1, <1>2, <2>3, <2>4, <2>5, BackHoldsNone, CallerKeeps
<1>4. CASE auth.staged \notin {c, None}
  <2>1. UNCHANGED <<auth, frozen>>
    BY <1>4 DEF AuthorizeFails
  <2> QED BY <1>1, <1>2, <1>4, <2>1, BackHoldsNone, CallerKeeps
<1> QED BY <1>3, <1>4

\* A handshake succeeds: its grant, which a companion accepted, is live.
LEMMA CommitKeeps ==
  ASSUME GrantInv, ended' = ended \cup LetGo, NEW c \in Calls, CommitAuthorize(c)
  PROVE  GrantInv'
<1>1. /\ call[c].at = "back" /\ call[c].kind = "authorize" /\ call[c].res = "ok"
      /\ auth.staged = c
      /\ auth' = [live |-> c, staged |-> None] /\ frozen' = None /\ Ends(c, "ok")
      /\ UNCHANGED <<enabled, lapsed, target, bridge, comp, events, acked, runs>>
  BY DEF CommitAuthorize, past
<1>2. ChromeTypeOK /\ CallsFit /\ c # None
  BY ChromeAssumption DEF GrantInv
<1>3. c \in Authorizes /\ c \in acked
  BY <1>1, <1>2 DEF GrantInv, YesIsAcked, ChromeTypeOK, Grants
<1>4. /\ CallsMove /\ call'[c].at = "done" /\ call'[c].kind = "authorize"
      /\ \A d \in Calls \ {c} : call'[d] = call[d]
  BY <1>1, <1>2, EndsMoves DEF Answers
<1>5. /\ auth' \in [live : Grants, staged : Grants]
      /\ auth'.live = c /\ auth'.staged = None
  BY <1>1, <1>3 DEF Grants
<1>6. EndedAreBegun' /\ LiveIsEarned' /\ ended' \subseteq Authorizes
  BY <1>1, <1>3, <1>4, <1>5, GrantsKeep
<1>7. ChromeTypeOK'
  BY <1>1, <1>2, <1>4, <1>5, <1>6 DEF ChromeTypeOK, CallsMove, bridge, Grants
<1>8. CommandsAreSane'
  BY <1>1, <1>4, CommandsStay DEF bridge
<1>9. YesIsAcked'
  BY <1>1, <1>4, YesStays DEF Calls
<1>10. StagedIsOpen' /\ LiveIsCommitted' /\ FreezeIsOfLive'
  BY <1>1, <1>4, <1>5 DEF StagedIsOpen, LiveIsCommitted, FreezeIsOfLive
<1> QED BY <1>4, <1>6, <1>7, <1>8, <1>9, <1>10 DEF GrantInv, CallsMove

\* A handshake that came too late takes its grant back.
LEMMA RevokeStagedKeeps ==
  ASSUME GrantInv, ended' = ended \cup LetGo, NEW c \in Calls, RevokeStagedRemote(c)
  PROVE  GrantInv'
<1> DEFINE left == IF auth.staged = c THEN [auth EXCEPT !.staged = None] ELSE auth
<1>1. /\ call[c].at = "back" /\ call[c].kind = "authorize"
      /\ \/ auth' = left /\ Posts(c, "cleanup", c, target) /\ UNCHANGED frozen
         \/ auth' = Read(left) /\ frozen' = PurgedIfLocked(auth') /\ Ends(c, "error")
      /\ UNCHANGED <<enabled, lapsed, target, bridge, comp, events, acked, runs>>
  BY DEF RevokeStagedRemote, past
<1>2. /\ left \in [live : Grants, staged : Grants]
      /\ left.live = auth.live /\ left.staged \in {auth.staged, None} /\ left.staged # c
      /\ c # auth.live /\ c # None
  BY <1>1, BackHoldsNone, ChromeAssumption DEF Grants
<1>3. c \in Authorizes /\ c \notin Uses /\ "cleanup" \in Kinds /\ target \in Companions \cup {None}
  BY <1>1, ChromeAssumption DEF GrantInv, CallsFit, Calls, Kinds, ChromeTypeOK
<1> HIDE DEF left
<1>4. CASE auth' = left /\ Posts(c, "cleanup", c, target) /\ UNCHANGED frozen
  <2>1. /\ CallsMove /\ call'[c].at = "posted"
        /\ \A d \in Calls \ {c} : call'[d] = call[d]
    BY <1>1, <1>3, <1>4, BackHoldsNone, PostsMoves
  <2> QED BY <1>1, <1>2, <1>4, <2>1, BackHoldsNone, CallerKeeps
<1>5. CASE auth' = Read(left) /\ frozen' = PurgedIfLocked(auth') /\ Ends(c, "error")
  <2>1. /\ CallsMove /\ call'[c].at = "done"
        /\ \A d \in Calls \ {c} : call'[d] = call[d]
    BY <1>1, <1>5, BackHoldsNone, EndsMoves DEF Answers
  <2>2. /\ auth' \in [live : Grants, staged : Grants]
        /\ auth'.live \in {auth.live, None} /\ auth'.staged \in {auth.staged, None}
        /\ auth'.staged # c
    BY <1>2, <1>5, ReadGives
  <2>3. frozen' \in Grants /\ (frozen' # None /\ auth'.live # None => frozen' = auth'.live)
    BY <1>1, <1>5, <2>2, BackHoldsNone DEF PurgedIfLocked, Grants
  <2> QED BY <1>1, <1>2, <2>1, <2>2, <2>3, BackHoldsNone, CallerKeeps
<1> QED BY <1>1, <1>4, <1>5

\* The other calls that come back.
LEMMA ReturnsKeep ==
  ASSUME GrantInv, ended' = ended \cup LetGo, NEW c \in Calls,
         CleanupEnds(c) \/ ExecuteReturns(c) \/ RenewReturns(c) \/ RevokeReturns(c)
  PROVE  GrantInv'
<1>1. /\ call[c].at = "back" /\ call[c].kind # "authorize"
      /\ \E res \in Answers \cup {None} : Ends(c, res)
      /\ auth' \in {auth, Read(auth)}
      /\ UNCHANGED <<enabled, lapsed, target, bridge, comp, events, acked, runs>>
  BY DEF CleanupEnds, ExecuteReturns, RenewReturns, RevokeReturns, past, pi, Answers
<1>2. /\ CallsMove /\ call'[c].at = "done"
      /\ \A d \in Calls \ {c} : call'[d] = call[d]
  BY <1>1, BackHoldsNone, EndsMoves DEF Answers
<1>3. /\ auth' \in [live : Grants, staged : Grants]
      /\ auth'.live \in {auth.live, None} /\ auth'.staged \in {auth.staged, None}
      /\ frozen # None /\ auth'.live # None => frozen = auth'.live
  BY <1>1, BackHoldsNone, ReadKeeps
<1>4. \/ frozen' \in {frozen, None}
      \/ ExecuteReturns(c) /\ frozen' = call[c].grant /\ auth'.live = call[c].grant
    BY DEF CleanupEnds, ExecuteReturns, RenewReturns, RevokeReturns, PurgedIfLocked, pi
<1>5. /\ frozen' \in Grants
      /\ frozen' # None /\ auth'.live # None => frozen' = auth'.live
  BY <1>1, <1>3, <1>4, BackHoldsNone DEF Grants, CallRecords
<1>6. c # auth'.staged /\ c # auth'.live
  BY <1>1, <1>3, BackHoldsNone, ChromeAssumption
<1> QED BY <1>1, <1>2, <1>3, <1>5, <1>6, BackHoldsNone, CallerKeeps

-----------------------------------------------------------------------------
LEMMA ChromeInitInv == ChromeInit => GrantInv
<1> SUFFICES ASSUME ChromeInit PROVE GrantInv
  OBVIOUS
<1>1. ChromeTypeOK
  BY ChromeAssumption, EmptySeq DEF ChromeInit, ChromeTypeOK, CallRecords, CompanionRecords, Forgotten,
                         Locked, Grants
<1>2. CallsFit
  BY ChromeAssumption DEF ChromeInit, CallsFit, Kinds
<1>3. CommandsAreSane /\ YesIsAcked
  BY DEF ChromeInit, CommandsAreSane, YesIsAcked, Forgotten, Calls
<1>4. StagedIsOpen /\ LiveIsCommitted /\ EndedAreBegun /\ LiveIsEarned /\ FreezeIsOfLive
  BY DEF ChromeInit, StagedIsOpen, LiveIsCommitted, EndedAreBegun, LiveIsEarned, FreezeIsOfLive,
         Locked
<1> QED BY <1>1, <1>2, <1>3, <1>4 DEF GrantInv

\* Every step of the adapter, the bridge and the companions keeps the invariant.
LEMMA ChromeNextKeeps == ASSUME GrantInv, [ChromeNext]_vars PROVE GrantInv'
<1>1. CASE ChromeNext
  <2>1. ended' = ended \cup LetGo /\ ChromeStep
    BY <1>1 DEF ChromeNext
  <2>2. ASSUME NEW c \in Calls, CallStep(c) PROVE GrantInv'
    BY <2>1, <2>2, StageKeeps, StageAbortsKeeps, RefuseKeeps, StartExecuteKeeps, PrepareKeeps, StartRenewKeeps,
       HandleCommandKeeps, TimeoutKeeps, AuthorizeFailsKeeps, CommitKeeps, RevokeStagedKeeps,
       ReturnsKeep DEF CallStep
  <2>3. ASSUME NEW p \in Companions, CompanionStep(p) PROVE GrantInv'
    BY <2>1, <2>3, ServerKeeps, HandleNextKeeps, RouteKeeps, ObeyKeeps, HandleResultKeeps, WorkerKeeps
       DEF CompanionStep
  <2> QED BY <2>1, <2>2, <2>3, TimeoutKeeps, LapseOrSwitchKeeps, RevokeKeeps, ServerKeeps
          DEF ChromeStep
<1>2. CASE UNCHANGED vars
  BY <1>2 DEF vars, pi, bridge, past, GrantInv, ChromeTypeOK, CallsFit, CommandsAreSane, Sane,
              YesIsAcked, StagedIsOpen, LiveIsCommitted, EndedAreBegun, LiveIsEarned, FreezeIsOfLive
<1> QED BY <1>1, <1>2

\* The invariant from which the properties of grants follow.
THEOREM GrantInvariant == ChromeSpec => []GrantInv
<1>1. ChromeInit => GrantInv
  BY ChromeInitInv
<1>2. GrantInv /\ [ChromeNext]_vars => GrantInv'
  BY ChromeNextKeeps
<1> QED BY <1>1, <1>2, PTL DEF ChromeSpec

\* The adapter, the bridge and the companions stay within their types.
THEOREM ChromeTypeCorrect == ChromeSpec => []ChromeTypeOK
<1>1. GrantInv => ChromeTypeOK
  BY DEF GrantInv
<1> QED BY <1>1, GrantInvariant, PTL

\* A grant becomes live only when a companion accepted it, and none that was
\* revoked, replaced or expired becomes live or staged again.
THEOREM LiveIsAlwaysEarned == ChromeSpec => []LiveIsEarned
<1>1. GrantInv => LiveIsEarned
  BY DEF GrantInv
<1> QED BY <1>1, GrantInvariant, PTL

\* A staged grant always has its handshake in flight.
THEOREM StageIsAlwaysInFlight == ChromeSpec => []StageIsInFlight
<1>1. GrantInv => StageIsInFlight
  BY DEF GrantInv, StagedIsOpen, StageIsInFlight
<1> QED BY <1>1, GrantInvariant, PTL

\* The frozen hostname is that of the live grant.
THEOREM FreezeIsAlwaysOfLive == ChromeSpec => []FreezeIsOfLive
<1>1. GrantInv => FreezeIsOfLive
  BY DEF GrantInv
<1> QED BY <1>1, GrantInvariant, PTL

-----------------------------------------------------------------------------
(* A revocation in flight wins over the result.                            *)

\* The execute e ends with a success.
Succeeds(e) == /\ call[e].kind = "execute" /\ call[e].at # "done"
               /\ call'[e].at = "done" /\ call'[e].res = "ok"

\* A step that leaves every call but c alone, and does not end c well.
LEMMA OthersDoNotSucceed ==
  ASSUME ChromeTypeOK, NEW c \in Calls, NEW e \in Uses, Succeeds(e),
         \/ \E r : call' = [call EXCEPT ![c] = r] /\ (r.at # "done" \/ r.res # "ok")
         \/ Ends(c, "error")
  PROVE  FALSE
<1>1. e \in Calls /\ call \in [Calls -> CallRecords] /\ call[c] \in CallRecords
  BY DEF ChromeTypeOK, Calls
<1>2. CASE Ends(c, "error")
  <2> DEFINE r == [call[c] EXCEPT !.at = "done", !.res = "error"]
  <2>1. r.res = "error" /\ call' = [call EXCEPT ![c] = r]
    BY <1>1, <1>2 DEF Ends, CallRecords
  <2> HIDE DEF r
  <2> QED BY <1>1, <2>1 DEF Succeeds
<1>3. CASE \E r : call' = [call EXCEPT ![c] = r] /\ (r.at # "done" \/ r.res # "ok")
  BY <1>1, <1>3 DEF Succeeds
<1> QED BY <1>2, <1>3

\* Only the end of its own request does.
LEMMA SuccessIsReturned ==
  ASSUME GrantInv, ChromeStep, NEW e \in Uses, Succeeds(e)
  PROVE  ExecuteReturns(e)
<1>1. ChromeTypeOK /\ e \in Calls /\ CallsFit /\ e \notin Authorizes /\ call' # call
  BY ChromeAssumption DEF GrantInv, Calls, Succeeds
<1>2. ASSUME NEW c \in Calls, NEW r, call' = [call EXCEPT ![c] = r], r.at # "done" \/ r.res # "ok"
      PROVE  FALSE
  BY <1>1, <1>2, OthersDoNotSucceed
<1>3. ASSUME NEW c \in Calls, Ends(c, "error") PROVE FALSE
  BY <1>1, <1>3, OthersDoNotSucceed
<1>4. ASSUME NEW c \in Calls, NEW kind, NEW g, NEW p, Posts(c, kind, g, p) PROVE FALSE
  <2> DEFINE r == [at |-> "posted", kind |-> kind, grant |-> g, to |-> p, res |-> None]
  <2>1. r.at = "posted" /\ call' = [call EXCEPT ![c] = r]
    BY <1>4 DEF Posts
  <2> QED BY <1>2, <2>1
<1>5. ASSUME NEW c \in Calls, NEW res, call' = Back(c, res) PROVE FALSE
  <2> DEFINE r == [call[c] EXCEPT !.at = "back", !.res = res]
  <2>1. r.at = "back" /\ call' = [call EXCEPT ![c] = r]
    BY <1>1, <1>5 DEF Back, ChromeTypeOK, CallRecords
  <2> HIDE DEF r
  <2> QED BY <1>2, <2>1
<1>6. ASSUME NEW c \in Calls, CallStep(c) PROVE c = e /\ ExecuteReturns(c)
  <2>1. CASE \E p \in Companions : StageAuthorize(c, p)
    BY <1>4, <2>1 DEF StageAuthorize
  <2>2. CASE StageAborts(c) \/ RefuseAuthorize(c) \/ AuthorizeFails(c) \/ CleanupEnds(c)
    BY <1>3, <2>2 DEF StageAborts, RefuseAuthorize, AuthorizeFails, CleanupEnds
  <2>3. CASE StartExecute(c)
    <3> DEFINE r == [call[c] EXCEPT !.at = "preparing", !.grant = auth'.live, !.kind = "execute"]
    <3>1. Ends(c, "error") \/ call' = [call EXCEPT ![c] = r]
      BY <2>3 DEF StartExecute
    <3>2. r.at = "preparing"
      BY <1>1 DEF ChromeTypeOK, CallRecords
    <3> HIDE DEF r
    <3> QED BY <1>2, <1>3, <3>1, <3>2
  <2>4. CASE PrepareOperation(c) \/ StartRenew(c) \/ RevokeStagedRemote(c)
    BY <1>3, <1>4, <2>4 DEF PrepareOperation, StartRenew, RevokeStagedRemote
  <2>5. CASE HandleCommand(c)
    <3> DEFINE r == [call[c] EXCEPT !.at = "waiting"]
    <3>1. call' = Back(c, "thrown") \/ call' = [call EXCEPT ![c] = r]
      BY <2>5 DEF HandleCommand
    <3>2. r.at = "waiting"
      BY <1>1 DEF ChromeTypeOK, CallRecords
    <3> HIDE DEF r
    <3> QED BY <1>2, <1>5, <3>1, <3>2
  <2>6. CASE ClientTimeout(c)
    BY <1>5, <2>6 DEF ClientTimeout
  <2>7. CASE CommitAuthorize(c) \/ RenewReturns(c) \/ RevokeReturns(c) \/ ExecuteReturns(c)
    <3>1. c = e
      BY <1>1, <2>7 DEF CommitAuthorize, RenewReturns, RevokeReturns, ExecuteReturns, Ends, Succeeds,
                        ChromeTypeOK
    <3> QED BY <2>7, <3>1 DEF CommitAuthorize, RenewReturns, RevokeReturns, Succeeds
  <2> QED BY <1>6, <2>1, <2>2, <2>3, <2>4, <2>5, <2>6, <2>7 DEF CallStep
<1>7. ASSUME NEW p \in Companions, CompanionStep(p) PROVE FALSE
  <2>1. CASE HandleResult(p)
    <3>1. \E k, res : call' = Told(k, res) /\ k.call \in Calls
      BY <1>1, <2>1, JobFits DEF HandleResult, Commands
    <3> QED BY <1>1, <1>5, <3>1 DEF Told
  <2>2. CASE ~HandleResult(p)
    BY <1>1, <1>7, <2>2 DEF CompanionStep, HandleRegister, HandleNext, RefuseRoute, OnAuthorize, OnRenew, OnRevoke,
       CheckExecute, OperationEnds, LeaseRunsOut, LeaseAlarm, WorkerDies
  <2> QED BY <2>1, <2>2
<1>8. ASSUME NEW k \in waiters, CommandTimeout(k) PROVE FALSE
  <2>1. call' = Told(k, "thrown") /\ k.call \in Calls
    BY <1>1, <1>8 DEF CommandTimeout, ChromeTypeOK, Commands
  <2> QED BY <1>1, <1>5, <2>1 DEF Told
<1>9. CASE Revoke
  <2>1. PICK g : g = Read(auth).live
    OBVIOUS
  <2>2. g # None => g \in Calls
    BY <2>1, ReadKeeps DEF GrantInv, ChromeTypeOK, Grants, Calls
  <2>3. (g # None /\ Posts(g, "revoke", g, target)) \/ UNCHANGED call
    BY <1>9, <2>1 DEF Revoke
  <2> QED BY <1>1, <1>4, <2>2, <2>3
<1>10. ~StopServer
  <2> SUFFICES ASSUME StopServer PROVE FALSE
    OBVIOUS
  <2>1. call'[e] \in {call[e], [call[e] EXCEPT !.at = "back", !.res = "thrown"]}
    BY <1>1 DEF StopServer
  <2>2. call[e] \in CallRecords
    BY <1>1 DEF ChromeTypeOK
  <2> QED BY <2>1, <2>2 DEF Succeeds, CallRecords
<1>11. ~(\E g \in Authorizes : Lapse(g)) /\ ~(\E b \in BOOLEAN : SetAutomationEnabled(b))
  BY <1>1 DEF Lapse, SetAutomationEnabled
<1> QED BY <1>6, <1>7, <1>8, <1>9, <1>10, <1>11 DEF ChromeStep

\* An execute is a success only while the grant it was sent under is live and
\* its time to live is not over.
THEOREM NeverSuccessAfterRevoke == ChromeSpec => NoSuccessAfterRevoke
<1>1. ASSUME GrantInv, ChromeNext, NEW e \in Uses, Succeeds(e)
      PROVE  call[e].grant = auth.live /\ auth.live \notin ended \cup lapsed
  <2>1. ExecuteReturns(e)
    BY <1>1, SuccessIsReturned DEF ChromeNext
  <2>2. e \in Calls /\ call \in [Calls -> CallRecords] /\ call[e] \in CallRecords
    BY <1>1 DEF GrantInv, ChromeTypeOK, Calls
  <2>3. ~Ends(e, "error")
    <3> DEFINE r == [call[e] EXCEPT !.at = "done", !.res = "error"]
    <3>1. r.res = "error"
      BY <2>2 DEF CallRecords
    <3>2. Ends(e, "error") => call'[e] = r
      BY <2>2 DEF Ends
    <3> HIDE DEF r
    <3> QED BY <1>1, <3>1, <3>2 DEF Succeeds
  <2>4. auth' = Read(auth) /\ auth'.live = call[e].grant
    BY <2>1, <2>3 DEF ExecuteReturns
  <2>5. call[e].grant # None
    BY <1>1, <2>2 DEF GrantInv, CallsFit, Succeeds
  <2>6. auth.live = call[e].grant /\ auth.live \notin lapsed
    BY <1>1, <2>4, <2>5, ReadGives DEF GrantInv, ChromeTypeOK
  <2> QED BY <1>1, <2>6 DEF GrantInv, LiveIsEarned
<1>2. GrantInv /\ [ChromeNext]_vars =>
        [\A e \in Uses :
           call'[e].at = "done" /\ call[e].at # "done" /\ call'[e].res = "ok" /\ call[e].kind = "execute"
             => call[e].grant = auth.live /\ auth.live \notin ended \cup lapsed]_vars
  BY <1>1 DEF Succeeds
<1> QED BY <1>2, GrantInvariant, PTL DEF ChromeSpec, NoSuccessAfterRevoke

-----------------------------------------------------------------------------
(* Where a command is, and how often it was run.                           *)

\* A step of an execute that neither sends its command nor learns that it ran.
Calm(e) == \/ call'[e] = call[e]
           \/ /\ call'[e].at \in {"preparing", "posted"} => call[e].at \in {"idle", "preparing"}
              /\ call'[e].at # "idle"
              /\ call'[e].kind = "execute" /\ call'[e].res = "ok" =>
                   call[e].kind = "execute" /\ call[e].res = "ok"

LEMMA CalmKeeps ==
  ASSUME CommandInv, UNCHANGED <<queue, comp, waiters, runs>>, \A e \in Uses : Calm(e)
  PROVE  CommandInv'
<1>1. OnePlace' /\ QueuedIsWaited'
  BY DEF CommandInv, OnePlace, QueuedIsWaited
<1>2. ASSUME NEW e \in Uses
      PROVE  /\ call'[e].at \in {"idle", "preparing", "posted"} => runs[e] = 0
             /\ call'[e].at = "idle" => call'[e].res = None
             /\ call'[e].kind = "execute" /\ call'[e].res = "ok" => runs[e] = 1
  BY <1>2 DEF Calm, CommandInv, RunsFit
<1>3. RunsFit'
  BY <1>2 DEF CommandInv, RunsFit
<1> QED BY <1>1, <1>3 DEF CommandInv

\* The record of one call is replaced calmly.
LEMMA SetCalm ==
  ASSUME ChromeTypeOK, CommandInv, UNCHANGED <<queue, comp, waiters, runs>>,
         NEW c \in Calls, NEW r, call' = [call EXCEPT ![c] = r],
         r.at \in {"preparing", "posted"} => call[c].at \in {"idle", "preparing"} \/ c \notin Uses,
         r.at # "idle",
         r.kind = "execute" /\ r.res = "ok" => call[c].kind = "execute" /\ call[c].res = "ok"
  PROVE  CommandInv'
<1>1. \A e \in Uses : e \in Calls /\ call'[e] = IF e = c THEN r ELSE call[e]
  BY DEF ChromeTypeOK, Calls
<1>2. \A e \in Uses : Calm(e)
  BY <1>1 DEF Calm
<1> QED BY <1>2, CalmKeeps

LEMMA EndsCalmly ==
  ASSUME ChromeTypeOK, CommandInv, UNCHANGED <<queue, comp, waiters, runs>>,
         NEW c \in Calls, NEW res, Ends(c, res),
         res = "ok" => call[c].kind # "execute" \/ call[c].res = "ok"
  PROVE  CommandInv'
<1> DEFINE r == [call[c] EXCEPT !.at = "done", !.res = res]
<1>1. r.at = "done" /\ r.res = res /\ r.kind = call[c].kind /\ call' = [call EXCEPT ![c] = r]
  BY DEF Ends, ChromeTypeOK, CallRecords
<1> HIDE DEF r
<1> QED BY <1>1, SetCalm

LEMMA PostsCalmly ==
  ASSUME ChromeTypeOK, CommandInv, UNCHANGED <<queue, comp, waiters, runs>>,
         NEW c \in Calls, NEW kind, NEW g, NEW p, Posts(c, kind, g, p),
         call[c].at \in {"idle", "preparing"} \/ c \notin Uses
  PROVE  CommandInv'
<1> DEFINE r == [at |-> "posted", kind |-> kind, grant |-> g, to |-> p, res |-> None]
<1>1. r.at = "posted" /\ r.res = None /\ call' = [call EXCEPT ![c] = r] /\ None # "ok"
  BY ChromeAssumption DEF Posts, Answers
<1> HIDE DEF r
<1> QED BY <1>1, SetCalm

\* The adapter's own steps, but for the hand-over of a command.
LEMMA CallerPlaces ==
  ASSUME GrantInv, CommandInv, NEW c \in Calls, CallStep(c), ~HandleCommand(c)
  PROVE  CommandInv'
<1>1. ChromeTypeOK /\ CallsFit /\ UNCHANGED <<queue, comp, waiters, runs>>
  BY DEF GrantInv, CallStep, StageAuthorize, StageAborts, RefuseAuthorize, StartExecute, PrepareOperation,
         StartRenew, ClientTimeout, AuthorizeFails, CommitAuthorize, RevokeStagedRemote, CleanupEnds,
         ExecuteReturns, RenewReturns, RevokeReturns, bridge, past
<1>2. CASE \E p \in Companions : StageAuthorize(c, p)
  BY <1>1, <1>2, PostsCalmly DEF StageAuthorize
<1>3. CASE StageAborts(c) \/ RefuseAuthorize(c) \/ AuthorizeFails(c) \/ CleanupEnds(c)
  BY <1>1, <1>3, EndsCalmly DEF StageAborts, RefuseAuthorize, AuthorizeFails, CleanupEnds
<1>4. CASE StartExecute(c)
  <2> DEFINE r == [call[c] EXCEPT !.at = "preparing", !.grant = auth'.live, !.kind = "execute"]
  <2>1. Ends(c, "error") \/ call' = [call EXCEPT ![c] = r]
    BY <1>4 DEF StartExecute
  <2>2. /\ r.at = "preparing" /\ r.res = call[c].res
        /\ call[c].at = "idle" /\ c \in Uses
    BY <1>1, <1>4 DEF ChromeTypeOK, CallRecords, StartExecute
  <2>3. call[c].res = None /\ None # "ok"
    BY <2>2, ChromeAssumption DEF CommandInv, RunsFit, Answers
  <2> HIDE DEF r
  <2> QED BY <1>1, <2>1, <2>2, <2>3, EndsCalmly, SetCalm
<1>5. CASE PrepareOperation(c) \/ StartRenew(c)
  BY <1>1, <1>5, EndsCalmly, PostsCalmly DEF PrepareOperation, StartRenew
<1>6. CASE RevokeStagedRemote(c)
  <2>1. c \notin Uses
    BY <1>1, <1>6, ChromeAssumption DEF RevokeStagedRemote, CallsFit, Kinds
  <2> QED BY <1>1, <1>6, <2>1, PostsCalmly, EndsCalmly DEF RevokeStagedRemote
<1>7. CASE ClientTimeout(c)
  <2> DEFINE r == [call[c] EXCEPT !.at = "back", !.res = "thrown"]
  <2>1. r.at = "back" /\ r.res = "thrown" /\ call' = [call EXCEPT ![c] = r]
    BY <1>1, <1>7 DEF Back, ChromeTypeOK, CallRecords, ClientTimeout
  <2> HIDE DEF r
  <2> QED BY <1>1, <2>1, SetCalm
<1>8. CASE CommitAuthorize(c) \/ RevokeReturns(c) \/ RenewReturns(c)
  BY <1>1, <1>8, EndsCalmly DEF CommitAuthorize, RevokeReturns, RenewReturns
<1>9. CASE ExecuteReturns(c)
  BY <1>1, <1>9, EndsCalmly DEF ExecuteReturns
<1> QED BY <1>2, <1>3, <1>4, <1>5, <1>6, <1>7, <1>8, <1>9 DEF CallStep

\* A command that is about to be sent is nowhere yet.
LEMMA PostedIsNew ==
  ASSUME GrantInv, NEW c \in Calls, call[c].at = "posted", NEW k, k = Cmd(c)
  PROVE  /\ k \in Commands /\ k.call = c /\ k.kind = call[c].kind
         /\ \A p \in Companions : \A i \in 1..Len(queue[p]) : queue[p][i] # k
         /\ \A p \in Companions : comp[p].job # k
<1>1. k \in Commands /\ k.call = c /\ k.kind = call[c].kind
  BY DEF GrantInv, ChromeTypeOK, CallRecords, CallsFit, Cmd, Commands
<1>2. ~Sane(k)
  BY <1>1 DEF Sane
<1>3. k # None
  BY <1>1, ChromeAssumption
<1> HIDE DEF Sane
<1> QED BY <1>1, <1>2, <1>3 DEF GrantInv, CommandsAreSane

\* A command is taken in: now it is waited for, and in one place.
LEMMA HandleCommandPlaces ==
  ASSUME GrantInv, CommandInv, NEW c \in Calls, HandleCommand(c)
  PROVE  CommandInv'
<1>1. ChromeTypeOK /\ CallsFit /\ call[c] \in CallRecords /\ call[c].at = "posted"
      /\ comp' = comp /\ runs' = runs
  BY DEF GrantInv, HandleCommand, ChromeTypeOK
<1>2. CASE ~(up /\ call[c].to \in known)
  <2> DEFINE r == [call[c] EXCEPT !.at = "back", !.res = "thrown"]
  <2>1. /\ r.at = "back" /\ r.res = "thrown" /\ call' = [call EXCEPT ![c] = r]
        /\ UNCHANGED <<queue, waiters>>
    BY <1>1, <1>2 DEF Back, CallRecords, HandleCommand
  <2> HIDE DEF r
  <2> QED BY <1>1, <2>1, SetCalm
<1>3. CASE up /\ call[c].to \in known
  <2> DEFINE r == [call[c] EXCEPT !.at = "waiting"]
  <2>0. PICK k, p : k = Cmd(c) /\ p = call[c].to
    OBVIOUS
  <2>1. /\ waiters' = waiters \cup {k} /\ call' = [call EXCEPT ![c] = r] /\ Enqueue(k, p)
    BY <1>3, <2>0 DEF HandleCommand
  <2>2. /\ r.at = "waiting" /\ r.kind = call[c].kind /\ r.res = call[c].res
    BY <1>1 DEF CallRecords
  <2>3. /\ k \in Commands /\ p \in Companions /\ k.call = c /\ k.kind = call[c].kind
        /\ \A x \in Companions : \A i \in 1..Len(queue[x]) : queue[x][i] # k
        /\ \A x \in Companions : comp[x].job # k
    BY <1>1, <1>3, <2>0, PostedIsNew DEF ChromeTypeOK
  <2>4. \A x \in Companions : \A i \in 1..Len(queue'[x]) :
          \/ i \in 1..Len(queue[x]) /\ queue'[x][i] = queue[x][i]
          \/ x = p /\ i = Len(queue[x]) + 1 /\ queue'[x][i] = k
    BY <2>1, <2>3, EnqueueGives
  <2> HIDE DEF r
  <2>5. \A d \in Calls : call'[d] = IF d = c THEN r ELSE call[d]
    BY <1>1, <2>1 DEF ChromeTypeOK
  <2>6. OnePlace'
    <3>1. \A x, y \in Companions : \A i \in 1..Len(queue'[x]), j \in 1..Len(queue'[y]) :
            queue'[x][i] = queue'[y][j] => x = y /\ i = j
      BY <2>3, <2>4 DEF CommandInv, OnePlace
    <3>2. \A x, y \in Companions : \A i \in 1..Len(queue'[x]) : queue'[x][i] # comp[y].job
      BY <2>3, <2>4 DEF CommandInv, OnePlace
    <3> QED BY <1>1, <3>1, <3>2 DEF CommandInv, OnePlace
  <2>7. QueuedIsWaited'
    BY <2>1, <2>4 DEF CommandInv, QueuedIsWaited
  <2>8. ASSUME NEW e \in Uses
        PROVE  /\ call'[e].at \in {"idle", "preparing", "posted"} => runs[e] = 0
               /\ call'[e].at = "idle" => call'[e].res = None
               /\ call'[e].kind = "execute" /\ call'[e].res = "ok" => runs[e] = 1
               /\ e = c => runs[e] = 0
    BY <1>1, <2>2, <2>5 DEF CommandInv, RunsFit, Calls
  <2>9. ASSUME NEW e \in Uses, NEW x \in Companions, NEW i \in 1..Len(queue'[x]),
               queue'[x][i] = [call |-> e, kind |-> "execute"]
        PROVE  runs[e] = 0
    <3>1. CASE i \in 1..Len(queue[x]) /\ queue'[x][i] = queue[x][i]
      BY <2>9, <3>1 DEF CommandInv, RunsFit
    <3>2. CASE queue'[x][i] = k
      <4>1. e = c
        BY <2>3, <2>9, <3>2
      <4> QED BY <2>8, <4>1
    <3> QED BY <2>4, <3>1, <3>2
  <2>10. RunsFit'
    BY <1>1, <2>8, <2>9 DEF CommandInv, RunsFit
  <2> QED BY <2>6, <2>7, <2>10 DEF CommandInv
<1> QED BY <1>2, <1>3

\* What a caller is told of an execute that no companion ran.
LEMMA ToldFacts ==
  ASSUME GrantInv, CommandInv, NEW k \in Commands, NEW res, call' = Told(k, res),
         res = "ok" /\ k.kind = "execute" => runs[k.call] = 1
  PROVE  \A e \in Uses :
           /\ call'[e].at \in {"idle", "preparing", "posted"} => runs[e] = 0
           /\ call'[e].at = "idle" => call'[e].res = None
           /\ call'[e].kind = "execute" /\ call'[e].res = "ok" => runs[e] = 1
<1>1. ChromeTypeOK /\ k.call \in Calls /\ call[k.call] \in CallRecords
  BY DEF GrantInv, Commands, ChromeTypeOK
<1> DEFINE r == [call[k.call] EXCEPT !.at = "back", !.res = res]
<1>2. /\ r.at = "back" /\ r.res = res /\ r.kind = call[k.call].kind
      /\ \/ call' = call
         \/ call' = [call EXCEPT ![k.call] = r] /\ call[k.call].kind = k.kind
  BY <1>1 DEF Told, Back, CallRecords
<1> HIDE DEF r
<1>3. \A e \in Uses : \/ call'[e] = call[e]
                      \/ e = k.call /\ call'[e] = r /\ call[e].kind = k.kind
  BY <1>1, <1>2 DEF ChromeTypeOK, Calls
<1> QED BY <1>2, <1>3 DEF CommandInv, RunsFit

\* A command that times out leaves its one place.
LEMMA CommandTimeoutPlaces ==
  ASSUME GrantInv, CommandInv, NEW k \in waiters, CommandTimeout(k)
  PROVE  CommandInv'
<1>1. /\ k \in Commands /\ call' = Told(k, "thrown") /\ Dropped(k)
      /\ waiters' = waiters \ {k} /\ comp' = comp /\ runs' = runs
      /\ queue \in [Companions -> Seq(Commands)]
  BY DEF CommandTimeout, past, GrantInv, ChromeTypeOK
<1>2. \A e \in Uses :
        /\ call'[e].at \in {"idle", "preparing", "posted"} => runs[e] = 0
        /\ call'[e].at = "idle" => call'[e].res = None
        /\ call'[e].kind = "execute" /\ call'[e].res = "ok" => runs[e] = 1
  BY <1>1, ToldFacts
<1>3. \A x \in Companions : \A i \in 1..Len(queue'[x]) :
        \E j \in 1..Len(queue[x]) : queue'[x][i] = queue[x][j]
  BY <1>1, DroppedKeepsOld
<1>4. RunsFit'
  BY <1>1, <1>2, <1>3 DEF CommandInv, RunsFit
<1>5. /\ \A x, y \in Companions : \A i \in 1..Len(queue'[x]), j \in 1..Len(queue'[y]) :
           queue'[x][i] = queue'[y][j] => x = y /\ i = j
      /\ \A x \in Companions : \A i \in 1..Len(queue'[x]) : queue'[x][i] # k
  <2>1. CASE UNCHANGED queue /\ \A x \in Companions : \A i \in 1..Len(queue[x]) : queue[x][i] # k
    BY <2>1 DEF CommandInv, OnePlace
  <2>2. ASSUME NEW p \in Companions, NEW i \in 1..Len(queue[p]), queue[p][i] = k,
               \A x \in Companions \ {p} : queue'[x] = queue[x],
               Len(queue'[p]) = Len(queue[p]) - 1,
               \A j \in 1..(Len(queue[p]) - 1) : queue'[p][j] = queue[p][IF j < i THEN j ELSE j + 1]
        PROVE  <1>5!1 /\ <1>5!2
    <3> DEFINE f(x, j) == IF x = p /\ ~(j < i) THEN j + 1 ELSE j
    <3>1. Len(queue[p]) \in Nat /\ \A x \in Companions : Len(queue[x]) \in Nat
      BY <1>1, LenProperties
    <3>2. \A x \in Companions : \A j \in 1..Len(queue'[x]) :
            /\ f(x, j) \in 1..Len(queue[x]) /\ queue'[x][j] = queue[x][f(x, j)]
            /\ x = p => f(x, j) # i
      BY <2>2, <3>1
    <3>3. \A x \in Companions : \A j, l \in 1..Len(queue'[x]) : f(x, j) = f(x, l) => j = l
      BY <2>2, <3>1
    <3> HIDE DEF f
    <3>4. <1>5!1
      BY <3>2, <3>3 DEF CommandInv, OnePlace
    <3>5. <1>5!2
      <4> TAKE x \in Companions
      <4> TAKE j \in 1..Len(queue'[x])
      <4>1. f(x, j) \in 1..Len(queue[x]) /\ queue'[x][j] = queue[x][f(x, j)] /\ (x = p => f(x, j) # i)
        BY <3>2
      <4>2. queue[x][f(x, j)] = queue[p][i] => x = p /\ f(x, j) = i
        BY <2>2, <4>1 DEF CommandInv, OnePlace
      <4> QED BY <2>2, <4>1, <4>2
    <3> QED BY <3>4, <3>5
  <2> QED BY <1>1, <2>1, <2>2, DroppedGives
<1>6. OnePlace'
  <2>1. \A x, y \in Companions : \A i \in 1..Len(queue'[x]) : queue'[x][i] # comp[y].job
    BY <1>3 DEF CommandInv, OnePlace
  <2> QED BY <1>1, <1>5, <2>1 DEF CommandInv, OnePlace
<1>7. QueuedIsWaited'
  BY <1>1, <1>3, <1>5 DEF CommandInv, QueuedIsWaited
<1> QED BY <1>4, <1>6, <1>7 DEF CommandInv

LEMMA StopServerPlaces ==
  ASSUME GrantInv, CommandInv, StopServer
  PROVE  CommandInv'
<1>1. /\ comp' = comp /\ runs' = runs
      /\ \A p \in Companions : queue'[p] = <<>> /\ Len(queue'[p]) = 0
  BY DEF StopServer
<1>2. \A e \in Uses :
        \/ call'[e] = call[e]
        \/ /\ call'[e].at = "back" /\ call'[e].res = "thrown"
           /\ call'[e].kind = call[e].kind
  <2> TAKE e \in Uses
  <2>1. call[e] \in CallRecords /\ e \in Calls
    BY DEF GrantInv, ChromeTypeOK, Calls
  <2>2. call'[e] \in {call[e], [call[e] EXCEPT !.at = "back", !.res = "thrown"]}
    BY <2>1 DEF StopServer
  <2> QED BY <2>1, <2>2 DEF CallRecords
<1>3. OnePlace' /\ QueuedIsWaited'
  BY <1>1 DEF CommandInv, OnePlace, QueuedIsWaited
<1>4. RunsFit'
  BY <1>1, <1>2 DEF CommandInv, RunsFit
<1> QED BY <1>3, <1>4 DEF CommandInv

\* A companion goes on with its command or forgets it, and runs nothing.
LEMMA CompanionPlaces ==
  ASSUME GrantInv, CommandInv, NEW p \in Companions, NEW r, comp' = [comp EXCEPT ![p] = r],
         UNCHANGED <<call, queue, waiters, runs>>,
         r.job \in {comp[p].job, None},
         r.job # None /\ r.at = "got" => comp[p].at = "got",
         r.job # None /\ r.job.kind = "execute" /\ (r.at = "running" \/ r.res = "ok")
           => comp[p].at = "running" \/ comp[p].res = "ok"
  PROVE  CommandInv'
<1>1. \A x \in Companions : comp'[x] = IF x = p THEN r ELSE comp[x]
  BY DEF GrantInv, ChromeTypeOK
<1>2. \A x \in Companions : \A i \in 1..Len(queue[x]) : queue[x][i] # None
  BY ElementOfSeq, ChromeAssumption DEF GrantInv, ChromeTypeOK
<1>3. OnePlace'
  BY <1>1, <1>2 DEF CommandInv, OnePlace
<1>4. QueuedIsWaited'
  BY DEF CommandInv, QueuedIsWaited
<1>5. ASSUME NEW e \in Uses, NEW k, k = [call |-> e, kind |-> "execute"], r.job = k
      PROVE  /\ r.at = "got" => runs[e] = 0
             /\ r.at = "running" \/ r.res = "ok" => runs[e] = 1
  <2>1. k \in Commands /\ k.kind = "execute" /\ k # None
    BY <1>5, ChromeAssumption DEF Commands, Calls, Kinds
  <2>2. comp[p].job = k
    BY <1>5, <2>1
  <2>3. /\ comp[p].at = "got" => runs[e] = 0
        /\ comp[p].at = "running" \/ comp[p].res = "ok" => runs[e] = 1
    BY <1>5, <2>2 DEF CommandInv, RunsFit
  <2> QED BY <1>5, <2>1, <2>3
<1>6. RunsFit'
  BY <1>1, <1>5 DEF CommandInv, RunsFit
<1> QED BY <1>3, <1>4, <1>6 DEF CommandInv

\* A companion that may runs its execute, for the first time.
LEMMA RunPlaces ==
  ASSUME GrantInv, CommandInv, NEW p \in Companions, CheckExecute(p),
         Matches(p) /\ comp[p].leased
  PROVE  CommandInv'
<1>1. /\ comp[p].at = "got" /\ comp[p].job.kind = "execute" /\ comp[p].at # "idle"
      /\ UNCHANGED <<call, queue, waiters>>
  BY DEF CheckExecute, bridge
<1>2. /\ comp[p] \in CompanionRecords /\ comp[p].job \in Commands /\ Sane(comp[p].job)
      /\ comp[p].job.call \in Uses /\ runs \in [Uses -> Nat]
  BY <1>1, JobFits
<1>3. PICK e \in Uses : e = comp[p].job.call
  BY <1>2
<1> DEFINE k == [call |-> e, kind |-> "execute"]
           r == [comp[p] EXCEPT !.at = "running"]
<1>4. comp[p].job = k /\ k # None
  BY <1>1, <1>2, <1>3, ChromeAssumption DEF Commands
<1>5. /\ r.at = "running" /\ r.job = k /\ r.res = comp[p].res
      /\ comp' = [comp EXCEPT ![p] = r] /\ runs' = [runs EXCEPT ![e] = runs[e] + 1]
  BY <1>2, <1>3, <1>4 DEF CheckExecute, CompanionRecords
<1> HIDE DEF r
<1>6. /\ \A x \in Companions : comp'[x] = IF x = p THEN r ELSE comp[x]
      /\ \A d \in Uses : runs'[d] = IF d = e THEN runs[e] + 1 ELSE runs[d]
  BY <1>2, <1>5 DEF GrantInv, ChromeTypeOK
<1>7. runs[e] = 0 /\ runs'[e] = 1
  BY <1>1, <1>4, <1>6 DEF CommandInv, RunsFit
<1>8. /\ \A x \in Companions : \A i \in 1..Len(queue[x]) : queue[x][i] # k
      /\ \A x \in Companions \ {p} : comp[x].job # k
  BY <1>4 DEF CommandInv, OnePlace
<1>9. call[e].at \notin {"idle", "preparing", "posted"}
  BY <1>2, <1>3, <1>1 DEF Sane
<1>10. OnePlace' /\ QueuedIsWaited'
  BY <1>1, <1>4, <1>5, <1>6 DEF CommandInv, OnePlace, QueuedIsWaited
<1>11. RunsFit'
  <2> SUFFICES ASSUME NEW d \in Uses
               PROVE  LET z == [call |-> d, kind |-> "execute"] IN
                      /\ runs'[d] \in {0, 1}
                      /\ call[d].at \in {"idle", "preparing", "posted"} => runs'[d] = 0
                      /\ call[d].at = "idle" => call[d].res = None
                      /\ call[d].kind = "execute" /\ call[d].res = "ok" => runs'[d] = 1
                      /\ \A x \in Companions : \A i \in 1..Len(queue[x]) :
                           queue[x][i] = z => runs'[d] = 0
                      /\ \A x \in Companions :
                           comp'[x].job = z =>
                             /\ comp'[x].at = "got" => runs'[d] = 0
                             /\ comp'[x].at = "running" \/ comp'[x].res = "ok" => runs'[d] = 1
    BY <1>1 DEF RunsFit
  <2>1. CASE d = e
    BY <1>5, <1>6, <1>7, <1>8, <1>9, <2>1 DEF CommandInv, RunsFit
  <2>2. CASE d # e
    <3>1. k # [call |-> d, kind |-> "execute"] /\ runs'[d] = runs[d]
      BY <1>6, <2>2
    <3> QED BY <1>5, <1>6, <3>1 DEF CommandInv, RunsFit
  <2> QED BY <2>1, <2>2
<1> QED BY <1>10, <1>11 DEF CommandInv

\* The other steps of a companion that leave the bridge alone.
LEMMA ObeyPlaces ==
  ASSUME GrantInv, CommandInv, NEW p \in Companions,
         \/ RefuseRoute(p) \/ OnAuthorize(p) \/ OnRenew(p) \/ OnRevoke(p) \/ OperationEnds(p)
         \/ CheckExecute(p) /\ ~(Matches(p) /\ comp[p].leased)
         \/ LeaseRunsOut(p) \/ LeaseAlarm(p) \/ WorkerDies(p)
  PROVE  CommandInv'
<1>1. comp[p] \in CompanionRecords /\ None # "ok"
  BY ChromeAssumption DEF GrantInv, ChromeTypeOK, Answers
<1>2. ASSUME NEW res, NEW g, NEW leased, Obeyed(p, res, g, leased),
             UNCHANGED <<call, queue, waiters, runs>>,
             comp[p].job.kind = "execute" /\ res = "ok" => comp[p].at = "running"
      PROVE  CommandInv'
  <2> DEFINE r == [at |-> "posting", job |-> comp[p].job, res |-> res, grant |-> g, leased |-> leased]
  <2>1. r.at = "posting" /\ r.job = comp[p].job /\ r.res = res /\ comp' = [comp EXCEPT ![p] = r]
    BY <1>2 DEF Obeyed
  <2> HIDE DEF r
  <2> QED BY <1>2, <2>1, CompanionPlaces
<1>3. CASE OnAuthorize(p) \/ OnRenew(p) \/ OnRevoke(p)
  BY <1>2, <1>3 DEF OnAuthorize, OnRenew, OnRevoke, bridge, past
<1>4. CASE OperationEnds(p)
  BY <1>2, <1>4 DEF OperationEnds, bridge, past
<1>5. CASE CheckExecute(p) /\ ~(Matches(p) /\ comp[p].leased)
  BY <1>2, <1>5 DEF CheckExecute, bridge
<1>6. CASE LeaseRunsOut(p)
  <2> DEFINE r == [comp[p] EXCEPT !.leased = FALSE]
  <2>1. /\ comp' = [comp EXCEPT ![p] = r] /\ UNCHANGED <<call, queue, waiters, runs>>
        /\ r.at = comp[p].at /\ r.job = comp[p].job /\ r.res = comp[p].res
    BY <1>1, <1>6 DEF LeaseRunsOut, bridge, past, CompanionRecords
  <2> HIDE DEF r
  <2> QED BY <2>1, CompanionPlaces
<1>7. CASE LeaseAlarm(p)
  <2> DEFINE r == [comp[p] EXCEPT !.grant = None]
  <2>1. /\ comp' = [comp EXCEPT ![p] = r] /\ UNCHANGED <<call, queue, waiters, runs>>
        /\ r.at = comp[p].at /\ r.job = comp[p].job /\ r.res = comp[p].res
    BY <1>1, <1>7 DEF LeaseAlarm, bridge, past, CompanionRecords
  <2> HIDE DEF r
  <2> QED BY <2>1, CompanionPlaces
<1>8. CASE WorkerDies(p)
  BY <1>1, <1>8, CompanionPlaces DEF WorkerDies, Forgotten
<1>9. CASE RefuseRoute(p)
  <2> DEFINE r == [comp[p] EXCEPT !.at = "idle", !.job = None, !.res = None]
  <2>1. /\ UNCHANGED <<call, queue, waiters, runs>>
        /\ Obeyed(p, "error", comp[p].grant, comp[p].leased) \/ comp' = [comp EXCEPT ![p] = r]
    BY <1>9 DEF RefuseRoute, bridge
  <2>2. r.at = "idle" /\ r.job = None
    BY <1>1 DEF CompanionRecords
  <2> HIDE DEF r
  <2> QED BY <1>2, <2>1, <2>2, CompanionPlaces
<1> QED BY <1>3, <1>4, <1>5, <1>6, <1>7, <1>8, <1>9

\* A command moves from the head of the queue to its companion.
LEMMA HandleNextPlaces ==
  ASSUME GrantInv, CommandInv, NEW p \in Companions, HandleNext(p)
  PROVE  CommandInv'
<1>1. queue[p] \in Seq(Commands) /\ queue[p] # <<>> /\ comp[p] \in CompanionRecords
  BY DEF HandleNext, GrantInv, ChromeTypeOK
<1> DEFINE r == [comp[p] EXCEPT !.at = "got", !.job = Head(queue[p])]
           q == Tail(queue[p])
<1>2. /\ comp' = [comp EXCEPT ![p] = r] /\ queue' = [queue EXCEPT ![p] = q]
      /\ UNCHANGED <<call, waiters, runs>> /\ comp[p].at = "idle"
  BY DEF HandleNext, past
<1>3. /\ Head(queue[p]) = queue[p][1]
      /\ Len(q) = Len(queue[p]) - 1
      /\ \A i \in 1..Len(q) : q[i] = queue[p][i + 1]
      /\ Len(queue[p]) \in Nat /\ Len(queue[p]) # 0
  BY <1>1, HeadTailProperties, LenProperties, EmptySeq
<1>4. comp[p].res = None /\ comp[p].job = None
  BY <1>2 DEF GrantInv, CommandsAreSane
<1>5. r.at = "got" /\ r.job = queue[p][1] /\ r.res = None
  BY <1>1, <1>3, <1>4 DEF CompanionRecords
<1> HIDE DEF r, q
<1>6. /\ \A x \in Companions : queue'[x] = IF x = p THEN q ELSE queue[x]
      /\ \A x \in Companions : comp'[x] = IF x = p THEN r ELSE comp[x]
  BY <1>2 DEF GrantInv, ChromeTypeOK
<1> DEFINE f(x, j) == IF x = p THEN j + 1 ELSE j
<1>7. \A x \in Companions : \A j \in 1..Len(queue'[x]) :
        /\ f(x, j) \in 1..Len(queue[x]) /\ queue'[x][j] = queue[x][f(x, j)]
        /\ x = p => f(x, j) # 1
  BY <1>3, <1>6
<1>8. \A x \in Companions : \A j, l \in 1..Len(queue'[x]) : f(x, j) = f(x, l) => j = l
  BY <1>3, <1>6
<1>9. 1 \in 1..Len(queue[p])
  BY <1>3
<1> HIDE DEF f
<1>10. OnePlace'
  <2>1. \A x, y \in Companions : \A i \in 1..Len(queue'[x]), j \in 1..Len(queue'[y]) :
          queue'[x][i] = queue'[y][j] => x = y /\ i = j
    <3> TAKE x, y \in Companions
    <3> TAKE i \in 1..Len(queue'[x]), j \in 1..Len(queue'[y])
    <3>1. /\ f(x, i) \in 1..Len(queue[x]) /\ queue'[x][i] = queue[x][f(x, i)]
          /\ f(y, j) \in 1..Len(queue[y]) /\ queue'[y][j] = queue[y][f(y, j)]
      BY <1>7
    <3>2. queue[x][f(x, i)] = queue[y][f(y, j)] => x = y /\ f(x, i) = f(y, j)
      BY <3>1 DEF CommandInv, OnePlace
    <3> QED BY <1>8, <3>1, <3>2
  <2>2. \A x \in Companions : \A i \in 1..Len(queue'[x]) : queue'[x][i] # queue[p][1]
    <3> TAKE x \in Companions
    <3> TAKE i \in 1..Len(queue'[x])
    <3>1. f(x, i) \in 1..Len(queue[x]) /\ queue'[x][i] = queue[x][f(x, i)] /\ (x = p => f(x, i) # 1)
      BY <1>7
    <3>2. queue[x][f(x, i)] = queue[p][1] => x = p /\ f(x, i) = 1
      BY <1>9, <3>1 DEF CommandInv, OnePlace
    <3> QED BY <3>1, <3>2
  <2>3. \A x, y \in Companions : \A i \in 1..Len(queue'[x]) : queue'[x][i] # comp'[y].job
    <3> TAKE x, y \in Companions
    <3> TAKE i \in 1..Len(queue'[x])
    <3>1. f(x, i) \in 1..Len(queue[x]) /\ queue'[x][i] = queue[x][f(x, i)]
      BY <1>7
    <3>2. queue[x][f(x, i)] # comp[y].job
      BY <3>1 DEF CommandInv, OnePlace
    <3> QED BY <1>5, <1>6, <2>2, <3>1, <3>2
  <2>4. \A x, y \in Companions : comp'[x].job = comp'[y].job => x = y \/ comp'[x].job = None
    BY <1>5, <1>6, <1>9 DEF CommandInv, OnePlace
  <2> QED BY <2>1, <2>3, <2>4 DEF OnePlace
<1>11. QueuedIsWaited'
  BY <1>2, <1>7 DEF CommandInv, QueuedIsWaited
<1>12. RunsFit'
  <2> SUFFICES ASSUME NEW e \in Uses, NEW k, k = [call |-> e, kind |-> "execute"]
               PROVE  /\ \A x \in Companions : \A i \in 1..Len(queue'[x]) :
                           queue'[x][i] = k => runs[e] = 0
                      /\ \A x \in Companions :
                           comp'[x].job = k => /\ comp'[x].at = "got" => runs[e] = 0
                                               /\ comp'[x].at = "running" \/ comp'[x].res = "ok"
                                                    => runs[e] = 1
    BY <1>2 DEF CommandInv, RunsFit
  <2>1. \A x \in Companions : \A i \in 1..Len(queue[x]) : queue[x][i] = k => runs[e] = 0
    BY DEF CommandInv, RunsFit
  <2>2. \A x \in Companions : comp[x].job = k => /\ comp[x].at = "got" => runs[e] = 0
                                                 /\ comp[x].at = "running" \/ comp[x].res = "ok"
                                                      => runs[e] = 1
    BY DEF CommandInv, RunsFit
  <2>3. None # "ok"
    BY ChromeAssumption DEF Answers
  <2> QED BY <1>5, <1>6, <1>7, <1>9, <2>1, <2>2, <2>3
<1> QED BY <1>10, <1>11, <1>12 DEF CommandInv

\* A result goes to whoever waits for it, and its command is gone.
LEMMA HandleResultPlaces ==
  ASSUME GrantInv, CommandInv, NEW p \in Companions, HandleResult(p)
  PROVE  CommandInv'
<1>1. /\ comp[p].at = "posting" /\ comp[p].at # "idle" /\ comp[p] \in CompanionRecords
      /\ UNCHANGED <<queue, runs>>
  BY DEF HandleResult, GrantInv, ChromeTypeOK
<1>2. PICK k, res : k = comp[p].job /\ res = comp[p].res
  OBVIOUS
<1>3. k \in Commands /\ (k.kind = "execute" => k.call \in Uses)
  BY <1>1, <1>2, JobFits
<1> DEFINE r == [comp[p] EXCEPT !.at = "idle", !.job = None, !.res = None]
<1>4. /\ r.job = None /\ r.at = "idle" /\ comp' = [comp EXCEPT ![p] = r]
      /\ call' \in {call, Told(k, res)} /\ waiters' \in {waiters, waiters \ {k}}
  BY <1>1, <1>2 DEF HandleResult, CompanionRecords
<1> HIDE DEF r
<1>5. \A x \in Companions : comp'[x] = IF x = p THEN r ELSE comp[x]
  BY <1>4 DEF GrantInv, ChromeTypeOK
<1>6. \A x \in Companions : \A i \in 1..Len(queue[x]) : queue[x][i] # None
  BY ElementOfSeq, ChromeAssumption DEF GrantInv, ChromeTypeOK
<1>7. OnePlace'
  BY <1>1, <1>4, <1>5, <1>6 DEF CommandInv, OnePlace
<1>8. QueuedIsWaited'
  BY <1>1, <1>2, <1>4 DEF CommandInv, OnePlace, QueuedIsWaited
<1>9. res = "ok" /\ k.kind = "execute" => runs[k.call] = 1
  <2> SUFFICES ASSUME res = "ok", k.kind = "execute" PROVE runs[k.call] = 1
    OBVIOUS
  <2>1. PICK e \in Uses : e = k.call
    BY <1>3
  <2>2. k = [call |-> e, kind |-> "execute"]
    BY <1>3, <2>1 DEF Commands
  <2> QED BY <1>2, <2>1, <2>2 DEF CommandInv, RunsFit
<1>10. \A e \in Uses :
         /\ call'[e].at \in {"idle", "preparing", "posted"} => runs[e] = 0
         /\ call'[e].at = "idle" => call'[e].res = None
         /\ call'[e].kind = "execute" /\ call'[e].res = "ok" => runs[e] = 1
  <2>1. CASE call' = call
    BY <2>1 DEF CommandInv, RunsFit
  <2>2. CASE call' = Told(k, res)
    BY <1>3, <1>9, <2>2, ToldFacts
  <2> QED BY <1>4, <2>1, <2>2
<1>11. \A e \in Uses : [call |-> e, kind |-> "execute"] # None
  BY ChromeAssumption DEF Commands, Calls, Kinds
<1>12. RunsFit'
  BY <1>1, <1>4, <1>5, <1>10, <1>11 DEF CommandInv, RunsFit
<1> QED BY <1>7, <1>8, <1>12 DEF CommandInv

LEMMA CommandInit == ChromeInit => CommandInv
<1> SUFFICES ASSUME ChromeInit PROVE CommandInv
  OBVIOUS
<1>1. OnePlace /\ QueuedIsWaited
  BY DEF ChromeInit, OnePlace, QueuedIsWaited, Forgotten
<1>2. RunsFit
  BY ChromeAssumption DEF ChromeInit, RunsFit, Forgotten, Calls, Commands, Kinds
<1> QED BY <1>1, <1>2 DEF CommandInv

LEMMA CommandNext == ASSUME GrantInv, CommandInv, [ChromeNext]_vars PROVE CommandInv'
<1>1. CASE ChromeNext
  <2>1. ASSUME NEW c \in Calls, CallStep(c) PROVE CommandInv'
    BY <2>1, HandleCommandPlaces, CallerPlaces
  <2>2. ASSUME NEW p \in Companions, HandleRegister(p) PROVE CommandInv'
    BY <2>2, CalmKeeps DEF HandleRegister, past, Calm
  <2>3. ASSUME NEW p \in Companions, CompanionStep(p) PROVE CommandInv'
    BY <2>2, <2>3, HandleNextPlaces, HandleResultPlaces, RunPlaces, ObeyPlaces DEF CompanionStep
  <2>4. ASSUME Revoke PROVE CommandInv'
    <3>1. PICK g : g = Read(auth).live
      OBVIOUS
    <3>2. g # None => g \in Calls /\ g \notin Uses
      BY <3>1, ReadKeeps, ChromeAssumption DEF GrantInv, ChromeTypeOK, Grants, Calls
    <3>3. /\ (g # None /\ Posts(g, "revoke", g, target)) \/ UNCHANGED call
          /\ UNCHANGED <<queue, comp, waiters, runs>>
      BY <2>4, <3>1 DEF Revoke, bridge
    <3>4. ChromeTypeOK
      BY DEF GrantInv
    <3>5. CASE UNCHANGED call
      BY <3>3, <3>5, CalmKeeps DEF Calm
    <3>6. CASE g # None /\ Posts(g, "revoke", g, target)
      BY <3>2, <3>3, <3>4, <3>6, PostsCalmly
    <3> QED BY <3>3, <3>5, <3>6
  <2>5. ASSUME NEW g \in Authorizes, Lapse(g) PROVE CommandInv'
    BY <2>5, CalmKeeps DEF Lapse, Calm, bridge
  <2>6. ASSUME NEW b \in BOOLEAN, SetAutomationEnabled(b) PROVE CommandInv'
    BY <2>6, CalmKeeps DEF SetAutomationEnabled, Calm, bridge
  <2> QED BY <1>1, <2>1, <2>3, <2>4, <2>5, <2>6, CommandTimeoutPlaces, StopServerPlaces
          DEF ChromeNext, ChromeStep
<1>2. CASE UNCHANGED vars
  BY <1>2, CalmKeeps DEF vars, bridge, past, Calm
<1> QED BY <1>1, <1>2

THEOREM CommandInvariant == ChromeSpec => []CommandInv
<1>1. ChromeInit => CommandInv
  BY CommandInit
<1>2. GrantInv /\ CommandInv /\ [ChromeNext]_vars => CommandInv'
  BY CommandNext
<1> QED BY <1>1, <1>2, GrantInvariant, PTL DEF ChromeSpec

\* An execute that is a success was run by a companion, and never twice.
THEOREM SuccessAlwaysWasRun == ChromeSpec => []SuccessWasRun
<1>1. ASSUME CommandInv PROVE SuccessWasRun
  <2> SUFFICES ASSUME NEW e \in Uses
               PROVE  /\ runs[e] <= 1
                      /\ call[e].kind = "execute" /\ call[e].res = "ok" => runs[e] = 1
    BY DEF SuccessWasRun
  <2>1. /\ runs[e] = 0 \/ runs[e] = 1
        /\ call[e].kind = "execute" /\ call[e].res = "ok" => runs[e] = 1
    BY <1>1 DEF CommandInv, RunsFit
  <2>2. runs[e] <= 1
    BY <2>1
  <2> QED BY <2>1, <2>2
<1> QED BY <1>1, CommandInvariant, PTL

\* What is queued for a companion has a request waiting in the bridge server: a
\* request that times out or is closed takes its command along.  Whether the
\* adapter's caller still waits is not said.
THEOREM QueuedIsAlwaysWaited == ChromeSpec => []QueuedIsWaited
<1>1. CommandInv => QueuedIsWaited
  BY DEF CommandInv
<1> QED BY <1>1, CommandInvariant, PTL
=============================================================================
