------------------------ MODULE ScraplingBridgeProofs ------------------------
(***************************************************************************)
(* Proofs about the Scrapling bridge, for any pages and any bound on the   *)
(* subprocesses.                                                           *)
(***************************************************************************)
EXTENDS ScraplingBridge, SequenceTheorems, TLAPS

\* The caller makes one fetch at a time.
OneFetch == \A f, g \in Pages : pc[f] \in Going /\ pc[g] \in Going => f = g

\* The pending callbacks are those of a fetch that waits for its command.
PendingWaits == pending # 0 => pc[pending] = "await" /\ target \in Procs

\* While the bridge is open it listens to its child only, but for subprocesses
\* whose exit it knows of.
ListensToChild ==
  \A p \in Procs : ears[p] /\ p \notin noticed /\ ~closed => p = child

\* A fetch that is about to replace the subprocess has let go of the old one.
RestartIsBare == \A f \in Pages : pc[f] = "restart" => child = NoProc

\* A closed bridge has no child and nothing pending, and no lookup goes on
\* that would spawn one.
ClosedIsBare ==
  closed => child = NoProc /\ pending = 0 /\ \A f \in Pages : pc[f] # "dns"

BridgeInv == /\ BridgeTypeOK
             /\ NobodyForgotten
             /\ OneFetch
             /\ PendingWaits
             /\ ListensToChild
             /\ RestartIsBare
             /\ ClosedIsBare

-----------------------------------------------------------------------------
(* Types *)

\* Moving a fetch to a state keeps the type of pc.
LEMMA MovesType ==
  ASSUME BridgeTypeOK, NEW f \in Pages, NEW s \in {"idle"} \cup Going \cup Ended, Moves(f, s)
  PROVE  /\ pc' \in [Pages -> {"idle"} \cup Going \cup Ended]
         /\ pc'[f] = s /\ \A g \in Pages : g # f => pc'[g] = pc[g]
  BY DEF Moves, BridgeTypeOK

\* What the spawning of p leaves behind.
LEMMA SpawnType ==
  ASSUME BridgeTypeOK, NEW p \in Procs, Spawn(p)
  PROVE  /\ born' \in 0..MaxSpawns /\ child' = p
         /\ os' \in [Procs -> {"none", "running", "dead"}]
         /\ ears' \in [Procs -> BOOLEAN]
         /\ \A q \in Procs : q # p => os'[q] = os[q]
         /\ \A q \in Procs : ears'[q] => q = p \/ (ears[q] /\ q # child)
<1> USE BridgeAssumption DEF BridgeTypeOK, Spawn, Procs
<1>1. born' \in 0..MaxSpawns
  OBVIOUS
<1>2. /\ os' \in [Procs -> {"none", "running", "dead"}]
      /\ \A q \in Procs : q # p => os'[q] = os[q]
  OBVIOUS
<1>3. /\ ears' \in [Procs -> BOOLEAN]
      /\ \A q \in Procs : ears'[q] => q = p \/ (ears[q] /\ q # child)
  OBVIOUS
<1> QED
  BY <1>1, <1>2, <1>3

\* What sending the command of f to p does.
LEMMA SendType ==
  ASSUME BridgeTypeOK, NEW f \in Pages, NEW p \in Procs, Send(f, p)
  PROVE  /\ pending' = f /\ target' = p
         /\ cmd' \in [Procs -> Seq(Pages)]
         /\ Moves(f, "await")
<1>1. cmd[p] \in Seq(Pages) /\ Append(cmd[p], f) \in Seq(Pages)
  BY DEF BridgeTypeOK
<1>2. cmd' = [cmd EXCEPT ![p] = IF os'[p] = "running" THEN Append(cmd[p], f) ELSE cmd[p]]
  BY DEF Send, BridgeTypeOK
<1> QED
  BY <1>1, <1>2 DEF Send, BridgeTypeOK

\* killChild, whatever the child.
LEMMA KillChildType ==
  ASSUME BridgeTypeOK, KillChild
  PROVE  /\ child' = NoProc
         /\ ears' \in [Procs -> BOOLEAN]
         /\ sig' \in [Procs -> {"none", "term", "kill"}]
         /\ \A q \in Procs : ears'[q] => ears[q] /\ q # child
         /\ \A q \in Procs : sig[q] # "none" \/ q = child => sig'[q] # "none"
<1> USE BridgeAssumption DEF BridgeTypeOK, KillChild, Procs, NoProc
<1>1. CASE child = NoProc
  BY <1>1
<1>2. CASE child # NoProc
  BY <1>2
<1> QED
  BY <1>1, <1>2

\* A failed attempt moves on to the restart, its child gone, or to the
\* fallback, the child kept.
LEMMA FailedType ==
  ASSUME BridgeTypeOK, NEW f \in Pages, AttemptFailed(f)
  PROVE  /\ child' \in {child, NoProc}
         /\ ears' \in [Procs -> BOOLEAN]
         /\ sig' \in [Procs -> {"none", "term", "kill"}]
         /\ \A q \in Procs : ears'[q] => ears[q] /\ (q = child => child' = child)
         /\ \A q \in Procs : sig[q] # "none" => sig'[q] # "none"
         /\ child' # child => child # NoProc /\ sig'[child] # "none"
         /\ \E s \in {"restart", "fallback"} : Moves(f, s) /\ (s = "restart" => child' = NoProc)
<1>1. CASE try[f] = 2
  BY <1>1 DEF AttemptFailed, BridgeTypeOK
<1>2. CASE try[f] # 2
  <2>1. KillChild /\ Moves(f, "restart")
    BY <1>2 DEF AttemptFailed
  <2> QED
    BY <2>1, KillChildType, BridgeAssumption DEF BridgeTypeOK, Procs, NoProc
<1> QED
  BY <1>1, <1>2

-----------------------------------------------------------------------------
(* One lemma for each kind of step *)

\* A fetch moves, and nothing else does.
LEMMA OnlyMoves ==
  ASSUME BridgeInv, NEW f \in Pages, NEW s \in {"check", "page", "plain", "blocked", "rejected"},
         pc[f] \in {"dns", "check", "fallback"}, Moves(f, s),
         UNCHANGED <<try, got, promise, child, closed, killing, procs, probe, late>>
  PROVE  BridgeInv'
<1> USE DEF promise, procs, probe
<1>1. /\ pc' \in [Pages -> {"idle"} \cup Going \cup Ended]
      /\ pc'[f] = s /\ \A g \in Pages : g # f => pc'[g] = pc[g]
  BY MovesType DEF BridgeInv, Going, Ended
<1>2. BridgeTypeOK'
  BY <1>1 DEF BridgeInv, BridgeTypeOK
<1>3. NobodyForgotten' /\ ListensToChild'
  BY DEF BridgeInv, NobodyForgotten, ListensToChild
<1>4. OneFetch' /\ RestartIsBare'
  BY <1>1 DEF BridgeInv, OneFetch, RestartIsBare, Going, Ended
<1>5. PendingWaits' /\ ClosedIsBare'
  BY <1>1 DEF BridgeInv, BridgeTypeOK, PendingWaits, ClosedIsBare
<1> QED
  BY <1>2, <1>3, <1>4, <1>5 DEF BridgeInv

LEMMA FetchKeeps ==
  ASSUME BridgeInv, NEW f \in Pages, Fetch(f)
  PROVE  BridgeInv'
<1> USE DEF promise, procs, probe
<1>0. PICK s \in {"closed", "dns"} : Moves(f, s) /\ (s = "dns" => ~closed)
  BY DEF Fetch
<1>1. /\ pc' \in [Pages -> {"idle"} \cup Going \cup Ended]
      /\ pc'[f] = s /\ \A g \in Pages : g # f => pc'[g] = pc[g]
  BY <1>0, MovesType DEF BridgeInv, Going, Ended
<1>2. BridgeTypeOK'
  BY <1>1 DEF BridgeInv, BridgeTypeOK, Fetch
<1>3. NobodyForgotten' /\ ListensToChild'
  BY DEF BridgeInv, NobodyForgotten, ListensToChild, Fetch
<1>4. \A g \in Pages : pc[g] \notin Going
  BY DEF Fetch, InFlight
<1>5. OneFetch' /\ RestartIsBare'
  BY <1>1, <1>4 DEF BridgeInv, OneFetch, RestartIsBare, Going, Fetch
<1>6. PendingWaits' /\ ClosedIsBare'
  BY <1>0, <1>1 DEF BridgeInv, BridgeTypeOK, PendingWaits, ClosedIsBare, Fetch
<1> QED
  BY <1>2, <1>3, <1>5, <1>6 DEF BridgeInv

\* A command goes out to p, kept or just spawned.
LEMMA SendKeeps ==
  ASSUME BridgeInv, NEW f \in Pages, NEW p \in Procs, pc[f] \in {"dns", "restart"},
         Send(f, p), ~closed,
         \/ p = child /\ UNCHANGED <<born, child, os, ears>>
         \/ Spawn(p) /\ (child # NoProc => sig[child] # "none"),
         try' \in [Pages -> 1..2],
         UNCHANGED <<got, closed, killing, sig, noticed, out, probe, late>>
  PROVE  BridgeInv'
<1> USE DEF probe
<1>1. /\ pc' \in [Pages -> {"idle"} \cup Going \cup Ended]
      /\ pc'[f] = "await" /\ \A g \in Pages : g # f => pc'[g] = pc[g]
      /\ pending' = f /\ target' = p /\ cmd' \in [Procs -> Seq(Pages)]
  BY SendType, MovesType DEF BridgeInv, Going, Ended
<1>2. /\ born' \in 0..MaxSpawns /\ child' = p
      /\ os' \in [Procs -> {"none", "running", "dead"}] /\ ears' \in [Procs -> BOOLEAN]
      /\ \A q \in Procs : q # p => os'[q] = os[q]
      /\ \A q \in Procs : ears'[q] => q = p \/ (ears[q] /\ q # child) \/ child = p
      /\ \A q \in Procs : q # p => q # child \/ sig[q] # "none"
      /\ child = p => \A q \in Procs : ears'[q] => q = p \/ ears[q]
  <2>1. CASE p = child /\ UNCHANGED <<born, child, os, ears>>
    BY <2>1 DEF BridgeInv, BridgeTypeOK
  <2>2. CASE Spawn(p) /\ (child # NoProc => sig[child] # "none")
    BY <2>2, SpawnType, BridgeAssumption DEF BridgeInv, Procs, NoProc
  <2> QED
    BY <2>1, <2>2
<1>3. BridgeTypeOK'
  BY <1>1, <1>2 DEF BridgeInv, BridgeTypeOK
<1>4. NobodyForgotten'
  BY <1>2 DEF BridgeInv, NobodyForgotten
<1>5. ListensToChild'
  BY <1>2 DEF BridgeInv, ListensToChild
<1>6. OneFetch' /\ RestartIsBare'
  BY <1>1 DEF BridgeInv, OneFetch, RestartIsBare, Going
<1>7. PendingWaits' /\ ClosedIsBare'
  BY <1>1 DEF BridgeInv, PendingWaits, ClosedIsBare
<1> QED
  BY <1>3, <1>4, <1>5, <1>6, <1>7 DEF BridgeInv

LEMMA LookupDoneKeeps ==
  ASSUME BridgeInv, NEW f \in Pages, LookupDone(f)
  PROVE  BridgeInv'
<1>1. ~closed /\ try' \in [Pages -> 1..2]
  BY DEF LookupDone, BridgeInv, ClosedIsBare, BridgeTypeOK
<1>2. CASE child # NoProc /\ sig[child] = "none" /\ UNCHANGED <<born, child, os, ears>>
  <2>1. child \in Procs /\ Send(f, child)
    BY <1>2 DEF LookupDone, BridgeInv, BridgeTypeOK
  <2> QED
    BY <1>1, <1>2, <2>1, SendKeeps DEF LookupDone
<1>3. CASE (child # NoProc => sig[child] # "none") /\ \E p \in Procs : Spawn(p)
  <2>1. PICK p \in Procs : Spawn(p)
    BY <1>3
  <2>2. Send(f, p)
    BY <2>1 DEF LookupDone, Spawn
  <2> QED
    BY <1>1, <1>3, <2>1, <2>2, SendKeeps DEF LookupDone
<1> QED
  BY <1>2, <1>3 DEF LookupDone

LEMMA RestartedKeeps ==
  ASSUME BridgeInv, NEW f \in Pages, Restarted(f)
  PROVE  BridgeInv'
<1>1. try' \in [Pages -> 1..2]
  BY DEF Restarted, BridgeInv, BridgeTypeOK
<1>2. CASE closed
  <2> USE DEF promise, probe
  <2>1. Moves(f, "closed") /\ UNCHANGED <<promise, child, born, os, ears, cmd>>
    BY <1>2 DEF Restarted
  <2>2. /\ pc' \in [Pages -> {"idle"} \cup Going \cup Ended]
        /\ pc'[f] = "closed" /\ \A g \in Pages : g # f => pc'[g] = pc[g]
    BY <2>1, MovesType DEF BridgeInv, Ended
  <2>3. BridgeTypeOK'
    BY <1>1, <2>1, <2>2 DEF BridgeInv, BridgeTypeOK, Restarted
  <2>4. NobodyForgotten' /\ ListensToChild'
    BY <2>1 DEF BridgeInv, NobodyForgotten, ListensToChild, Restarted
  <2>5. OneFetch' /\ RestartIsBare'
    BY <2>1, <2>2 DEF BridgeInv, OneFetch, RestartIsBare, Going
  <2>6. PendingWaits' /\ ClosedIsBare'
    BY <1>2, <2>1, <2>2 DEF BridgeInv, PendingWaits, ClosedIsBare, Restarted
  <2> QED
    BY <2>3, <2>4, <2>5, <2>6 DEF BridgeInv
<1>3. CASE ~closed
  <2>1. PICK p \in Procs : Spawn(p)
    BY <1>3 DEF Restarted
  <2>2. Send(f, p)
    BY <1>3, <2>1 DEF Restarted, Spawn
  <2>3. child = NoProc
    BY DEF BridgeInv, RestartIsBare, Restarted
  <2> QED
    BY <1>1, <1>3, <2>1, <2>2, <2>3, SendKeeps DEF Restarted
<1> QED
  BY <1>2, <1>3

LEMMA ReplyKeeps ==
  ASSUME BridgeInv, NEW p \in Procs, Reply(p)
  PROVE  BridgeInv'
<1> USE DEF fetches, promise, probe
<1>1. out' \in [Procs -> Seq(Lines)]
  <2>1. out[p] \in Seq(Lines)
    BY DEF BridgeInv, BridgeTypeOK
  <2>2. PICK n \in 1..Len(out[p]) : out' = [out EXCEPT ![p] = SubSeq(@, n + 1, Len(@))]
    BY DEF Reply
  <2>3. SubSeq(out[p], n + 1, Len(out[p])) \in Seq(Lines)
    <3>1. n + 1 \in 1..Len(out[p]) + 1
      BY <2>1, LenProperties
    <3>2. \A i \in n + 1 .. Len(out[p]) : out[p][i] \in Lines
      BY <2>1, LenProperties
    <3> QED
      BY <2>1, <3>1, <3>2, SubSeqProperties, LenProperties
  <2> QED
    BY <2>2, <2>3 DEF BridgeInv, BridgeTypeOK
<1>2. CASE pending = 0
  <2>1. UNCHANGED <<fetches, promise, child, ears, sig, closed, killing, born, os, noticed, cmd, probe, late>>
    BY <1>2 DEF Reply
  <2>2. BridgeTypeOK'
    BY <1>1, <2>1 DEF BridgeInv, BridgeTypeOK
  <2>3. NobodyForgotten' /\ ListensToChild' /\ RestartIsBare'
    BY <2>1 DEF BridgeInv, NobodyForgotten, ListensToChild, RestartIsBare
  <2>4. OneFetch' /\ PendingWaits' /\ ClosedIsBare'
    BY <2>1 DEF BridgeInv, OneFetch, PendingWaits, ClosedIsBare
  <2> QED
    BY <2>2, <2>3, <2>4 DEF BridgeInv
<1>3. CASE pending # 0
  <2>1. /\ pending' = 0 /\ target' = NoProc /\ pending \in Pages /\ pc[pending] = "await"
        /\ UNCHANGED <<try, closed, killing, born, os, noticed, cmd, probe, late>>
    BY <1>3 DEF Reply, BridgeInv, BridgeTypeOK, PendingWaits
  <2>2. /\ child' \in {child, NoProc}
        /\ ears' \in [Procs -> BOOLEAN]
        /\ sig' \in [Procs -> {"none", "term", "kill"}]
        /\ \A q \in Procs : ears'[q] => ears[q] /\ (q = child => child' = child)
        /\ \A q \in Procs : sig[q] # "none" => sig'[q] # "none"
        /\ child' # child => child # NoProc /\ sig'[child] # "none"
        /\ got' \in [Pages -> Pages \cup {0}]
        /\ \E s \in {"restart", "fallback", "check"} :
             Moves(pending, s) /\ (s = "restart" => child' = NoProc)
    <3>1. CASE out[p][1].ok
      <4>1. out[p][1] \in Lines
        BY DEF Reply, BridgeInv, BridgeTypeOK
      <4> QED
        BY <1>3, <2>1, <3>1, <4>1 DEF Reply, BridgeInv, BridgeTypeOK, Lines
    <3>2. CASE ~out[p][1].ok
      <4>1. AttemptFailed(pending) /\ UNCHANGED got
        BY <1>3, <3>2 DEF Reply
      <4>2. BridgeTypeOK
        BY DEF BridgeInv
      <4>3. got' \in [Pages -> Pages \cup {0}]
        BY <4>1, <4>2 DEF BridgeTypeOK
      <4> QED
        BY <2>1, <4>1, <4>2, <4>3, FailedType
    <3> QED
      BY <3>1, <3>2
  <2>3. PICK s \in {"restart", "fallback", "check"} :
          Moves(pending, s) /\ (s = "restart" => child' = NoProc)
    BY <2>2
  <2>4. /\ pc' \in [Pages -> {"idle"} \cup Going \cup Ended]
        /\ pc'[pending] = s /\ \A g \in Pages : g # pending => pc'[g] = pc[g]
    BY <2>1, <2>3, MovesType DEF BridgeInv, Going
  <2>5. BridgeTypeOK'
    BY <1>1, <2>1, <2>2, <2>4 DEF BridgeInv, BridgeTypeOK
  <2>6. NobodyForgotten' /\ ListensToChild'
    BY <2>1, <2>2 DEF BridgeInv, NobodyForgotten, ListensToChild
  <2>7. OneFetch' /\ RestartIsBare'
    BY <2>1, <2>2, <2>3, <2>4 DEF BridgeInv, OneFetch, RestartIsBare, Going
  <2>8. PendingWaits' /\ ClosedIsBare'
    BY <1>3, <2>1, <2>4 DEF BridgeInv, PendingWaits, ClosedIsBare
  <2> QED
    BY <2>5, <2>6, <2>7, <2>8 DEF BridgeInv
<1> QED
  BY <1>2, <1>3

LEMMA ExitKeeps ==
  ASSUME BridgeInv, NEW p \in Procs, Exit(p)
  PROVE  BridgeInv'
<1> USE DEF promise, probe
<1>1. /\ os[p] = "dead" /\ ears[p] /\ p \notin noticed /\ noticed' = noticed \cup {p}
      /\ child' = NoProc /\ killing' \in {killing, NoProc}
      /\ UNCHANGED <<try, got, closed, born, os, sig, ears, cmd, out, probe, late>>
  BY DEF Exit
<1>2. /\ pending' = 0 /\ target' \in {target, NoProc}
      /\ pc' \in [Pages -> {"idle"} \cup Going \cup Ended]
      /\ \A g \in Pages : pc'[g] = pc[g] \/ (pc[g] = "await" /\ pc'[g] \in {"restart", "fallback"})
  <2>1. CASE pending = 0
    BY <2>1 DEF Exit, BridgeInv, BridgeTypeOK
  <2>2. CASE pending # 0
    <3>1. /\ pending \in Pages /\ pc[pending] = "await" /\ pending' = 0 /\ target' = NoProc
          /\ \E s \in {"restart", "fallback"} : Moves(pending, s)
      BY <2>2 DEF Exit, BridgeInv, BridgeTypeOK, PendingWaits
    <3>2. PICK s \in {"restart", "fallback"} : Moves(pending, s)
      BY <3>1
    <3> QED
      BY <3>1, <3>2, MovesType DEF BridgeInv, Going
  <2> QED
    BY <2>1, <2>2
<1>3. BridgeTypeOK'
  BY <1>1, <1>2 DEF BridgeInv, BridgeTypeOK
<1>4. NobodyForgotten'
  <2> SUFFICES ASSUME NEW q \in Procs, os[q] = "running", sig[q] = "none" PROVE FALSE
    BY <1>1 DEF NobodyForgotten
  <2>1. q = child /\ ~closed
    BY DEF BridgeInv, NobodyForgotten
  <2>2. p = child
    BY <1>1, <2>1 DEF BridgeInv, ListensToChild
  <2> QED
    BY <1>1, <2>1, <2>2
<1>5. ListensToChild'
  BY <1>1 DEF BridgeInv, ListensToChild
<1>6. OneFetch' /\ RestartIsBare'
  BY <1>1, <1>2 DEF BridgeInv, OneFetch, RestartIsBare, Going
<1>7. PendingWaits' /\ ClosedIsBare'
  BY <1>1, <1>2 DEF BridgeInv, PendingWaits, ClosedIsBare
<1> QED
  BY <1>3, <1>4, <1>5, <1>6, <1>7 DEF BridgeInv

\* Timers send signals, close() and the caller's abort let go of the child.
LEMMA SignalsKeep ==
  ASSUME BridgeInv, TimeOut \/ KillTimer \/ Close \/ Abort
  PROVE  BridgeInv'
<1> USE DEF fetches, promise, probe
<1>1. /\ sig' \in [Procs -> {"none", "term", "kill"}]
      /\ \A q \in Procs : sig[q] # "none" => sig'[q] # "none"
      /\ UNCHANGED <<try, got, born, os, ears, noticed, cmd, out, probe>>
  <2>1. /\ sig \in [Procs -> {"none", "term", "kill"}]
        /\ child \in Procs \cup {NoProc} /\ target \in Procs \cup {NoProc}
        /\ killing \in Procs \cup {NoProc}
    BY DEF BridgeInv, BridgeTypeOK
  <2>2. CASE TimeOut
    BY <2>1, <2>2 DEF TimeOut
  <2>3. CASE KillTimer
    BY <2>1, <2>3 DEF KillTimer
  <2>4. CASE Close \/ Abort
    <3>1. CloseBridge /\ UNCHANGED <<try, got, born, os, ears, noticed, cmd, out, probe>>
      BY <2>4 DEF Close, Abort
    <3> QED
      BY <2>1, <3>1 DEF CloseBridge
  <2> QED
    BY <2>2, <2>3, <2>4
<1>2. CASE TimeOut \/ KillTimer
  <2>1. /\ UNCHANGED <<fetches, child, closed>>
        /\ late' \subseteq Pages /\ killing' \in {killing, NoProc}
        /\ (pending' = 0 /\ target' = NoProc) \/ UNCHANGED <<pending, target>>
    BY <1>2 DEF TimeOut, KillTimer, BridgeInv, BridgeTypeOK
  <2>2. BridgeTypeOK'
    BY <1>1, <2>1 DEF BridgeInv, BridgeTypeOK
  <2>3. NobodyForgotten' /\ ListensToChild'
    BY <1>1, <2>1 DEF BridgeInv, NobodyForgotten, ListensToChild
  <2>4. OneFetch' /\ RestartIsBare' /\ PendingWaits' /\ ClosedIsBare'
    BY <2>1 DEF BridgeInv, OneFetch, RestartIsBare, PendingWaits, ClosedIsBare
  <2> QED
    BY <2>2, <2>3, <2>4 DEF BridgeInv
<1>3. CASE Close \/ Abort
  <2>1. /\ closed' = TRUE /\ child' = NoProc /\ ~closed
        /\ killing' \in Procs \cup {NoProc} /\ UNCHANGED late
        /\ child \in Procs => sig'[child] # "none"
    BY <1>3, BridgeAssumption DEF Close, Abort, CloseBridge, BridgeInv, BridgeTypeOK, Procs, NoProc
  <2>2. /\ pending' = 0 /\ target' \in {target, NoProc}
        /\ pc' \in [Pages -> {"idle"} \cup Going \cup Ended]
        /\ \A g \in Pages : pc'[g] # "dns" /\ pc'[g] \in {pc[g]} \cup Ended
    <3>1. CASE Close
      <4>1. \A g \in Pages : pc[g] \notin Going
        BY <3>1 DEF Close, InFlight
      <4>2. pending = 0
        BY <4>1 DEF BridgeInv, BridgeTypeOK, PendingWaits, Going
      <4> QED
        BY <3>1, <4>1, <4>2 DEF Close, BridgeInv, BridgeTypeOK, Going
    <3>2. CASE Abort
      BY <3>2 DEF Abort, BridgeInv, BridgeTypeOK, Ended
    <3> QED
      BY <1>3, <3>1, <3>2
  <2>3. BridgeTypeOK'
    BY <1>1, <2>1, <2>2 DEF BridgeInv, BridgeTypeOK
  <2>4. NobodyForgotten' /\ ListensToChild'
    BY <1>1, <2>1 DEF BridgeInv, NobodyForgotten, ListensToChild
  <2>5. OneFetch' /\ RestartIsBare'
    BY <2>1, <2>2 DEF BridgeInv, OneFetch, RestartIsBare, Going, Ended
  <2>6. PendingWaits' /\ ClosedIsBare'
    BY <2>1, <2>2 DEF BridgeInv, PendingWaits, ClosedIsBare
  <2> QED
    BY <2>3, <2>4, <2>5, <2>6 DEF BridgeInv
<1> QED
  BY <1>2, <1>3

\* What the subprocesses do, and the probe.
LEMMA OthersKeep ==
  ASSUME BridgeInv,
         \/ \E p \in Procs : Answers(p) \/ Dies(p)
         \/ Health \/ HealthTimeOut \/ ShotEnds
         \/ \E verdict \in {"yes", "no"} : HealthAnswered(verdict)
  PROVE  BridgeInv'
<1> USE DEF fetches, promise, procs, probe
<1>1. /\ UNCHANGED <<pc, try, got, pending, target, child, closed, killing, born, sig, ears, noticed, late>>
      /\ os' \in [Procs -> {"none", "running", "dead"}]
      /\ \A q \in Procs : os'[q] = "running" => os[q] = "running"
      /\ cmd' \in [Procs -> Seq(Pages)] /\ out' \in [Procs -> Seq(Lines)]
      /\ health' \in {"unknown", "asking", "yes", "no"}
      /\ shot' \in {"none", "running", "killed", "dead"}
  <2>1. ASSUME NEW p \in Procs, Answers(p)
        PROVE  cmd' \in [Procs -> Seq(Pages)] /\ out' \in [Procs -> Seq(Lines)]
    <3>1. cmd[p] \in Seq(Pages) /\ cmd[p] # <<>> /\ out[p] \in Seq(Lines)
      BY <2>1 DEF Answers, BridgeInv, BridgeTypeOK
    <3>2. PICK ok \in BOOLEAN : out' = [out EXCEPT ![p] = Append(@, [of |-> cmd[p][1], ok |-> ok])]
      BY <2>1 DEF Answers
    <3>3. cmd[p][1] \in Pages /\ Tail(cmd[p]) \in Seq(Pages)
      BY <3>1, LenProperties
    <3>4. Append(out[p], [of |-> cmd[p][1], ok |-> ok]) \in Seq(Lines)
      BY <3>1, <3>3 DEF Lines
    <3> QED
      BY <2>1, <3>2, <3>3, <3>4 DEF Answers, BridgeInv, BridgeTypeOK
  <2>2. CASE \E p \in Procs : Answers(p)
    BY <2>1, <2>2 DEF Answers, BridgeInv, BridgeTypeOK
  <2>3. CASE \E p \in Procs : Dies(p)
    BY <2>3 DEF Dies, BridgeInv, BridgeTypeOK
  <2>4. CASE \/ Health \/ HealthTimeOut \/ ShotEnds
             \/ \E verdict \in {"yes", "no"} : HealthAnswered(verdict)
    BY <2>4 DEF Health, HealthTimeOut, ShotEnds, HealthAnswered, BridgeInv, BridgeTypeOK
  <2> QED
    BY <2>2, <2>3, <2>4
<1>2. BridgeTypeOK'
  BY <1>1 DEF BridgeInv, BridgeTypeOK
<1>3. NobodyForgotten' /\ ListensToChild'
  BY <1>1 DEF BridgeInv, NobodyForgotten, ListensToChild
<1>4. OneFetch' /\ RestartIsBare' /\ PendingWaits' /\ ClosedIsBare'
  BY <1>1 DEF BridgeInv, OneFetch, RestartIsBare, PendingWaits, ClosedIsBare
<1> QED
  BY <1>2, <1>3, <1>4 DEF BridgeInv

-----------------------------------------------------------------------------
LEMMA BridgeInvHolds == BridgeSpec => []BridgeInv
<1>1. BridgeInit => BridgeInv
  <2> SUFFICES ASSUME BridgeInit PROVE BridgeInv
    OBVIOUS
  <2>1. BridgeTypeOK
    <3>1. /\ try \in [Pages -> 1..2] /\ born \in 0..MaxSpawns
      BY BridgeAssumption DEF BridgeInit
    <3>2. /\ cmd \in [Procs -> Seq(Pages)] /\ out \in [Procs -> Seq(Lines)]
      BY DEF BridgeInit
    <3>3. /\ os \in [Procs -> {"none", "running", "dead"}] /\ ears \in [Procs -> BOOLEAN]
          /\ sig \in [Procs -> {"none", "term", "kill"}]
      BY DEF BridgeInit
    <3>4. /\ pc \in [Pages -> {"idle"} \cup Going \cup Ended]
          /\ got \in [Pages -> Pages \cup {0}]
      BY DEF BridgeInit
    <3> QED
      BY <3>1, <3>2, <3>3, <3>4 DEF BridgeInit, BridgeTypeOK
  <2>2. \A f \in Pages : pc[f] = "idle"
    BY DEF BridgeInit
  <2>3. OneFetch /\ RestartIsBare
    BY <2>2 DEF OneFetch, RestartIsBare, Going
  <2>4. NobodyForgotten /\ ListensToChild /\ PendingWaits /\ ClosedIsBare
    BY DEF BridgeInit, NobodyForgotten, ListensToChild, PendingWaits, ClosedIsBare
  <2> QED
    BY <2>1, <2>3, <2>4 DEF BridgeInv
<1>2. BridgeInv /\ [BridgeNext]_bridgeVars => BridgeInv'
  <2> SUFFICES ASSUME BridgeInv, [BridgeNext]_bridgeVars
               PROVE  BridgeInv'
    OBVIOUS
  <2>1. ASSUME NEW f \in Pages, Fetch(f) PROVE BridgeInv'
    BY <2>1, FetchKeeps
  <2>2. ASSUME NEW f \in Pages, LookupFails(f) \/ Checked(f) \/ FellBack(f) PROVE BridgeInv'
    <3>1. CASE LookupFails(f)
      BY <3>1, OnlyMoves DEF LookupFails
    <3>2. CASE Checked(f)
      BY <3>2, OnlyMoves DEF Checked
    <3>3. CASE FellBack(f)
      BY <3>3, OnlyMoves DEF FellBack
    <3> QED
      BY <2>2, <3>1, <3>2, <3>3
  <2>3. ASSUME NEW f \in Pages, LookupDone(f) PROVE BridgeInv'
    BY <2>3, LookupDoneKeeps
  <2>4. ASSUME NEW f \in Pages, Restarted(f) PROVE BridgeInv'
    BY <2>4, RestartedKeeps
  <2>5. ASSUME NEW p \in Procs, Reply(p) PROVE BridgeInv'
    BY <2>5, ReplyKeeps
  <2>6. ASSUME NEW p \in Procs, Exit(p) PROVE BridgeInv'
    BY <2>6, ExitKeeps
  <2>7. CASE TimeOut \/ KillTimer \/ Close \/ Abort
    BY <2>7, SignalsKeep
  <2>8. CASE \/ \E p \in Procs : Answers(p) \/ Dies(p)
             \/ Health \/ HealthTimeOut \/ ShotEnds
             \/ \E verdict \in {"yes", "no"} : HealthAnswered(verdict)
    BY <2>8, OthersKeep
  <2>9. CASE UNCHANGED bridgeVars
    BY <2>9 DEF bridgeVars, fetches, promise, procs, probe, BridgeInv, BridgeTypeOK,
       NobodyForgotten, OneFetch, PendingWaits, ListensToChild, RestartIsBare, ClosedIsBare
  <2> QED
    BY <2>1, <2>2, <2>3, <2>4, <2>5, <2>6, <2>7, <2>8, <2>9 DEF BridgeNext
<1> QED
  BY <1>1, <1>2, PTL DEF BridgeSpec

\* The variables of the bridge have their types: scrapling-bridge.ts:218-230.
THEOREM BridgeTypeCorrect == BridgeSpec => []BridgeTypeOK
<1>1. BridgeInv => BridgeTypeOK
  BY DEF BridgeInv
<1> QED
  BY <1>1, BridgeInvHolds, PTL

\* However restarts, exits, timers, close() and the abort signal interleave, a
\* subprocess that runs is the child of an open bridge or has been signalled:
\* scrapling-bridge.ts:426-465, 496-536, 551-567.
THEOREM NobodyIsForgotten == BridgeSpec => []NobodyForgotten
<1>1. BridgeInv => NobodyForgotten
  BY DEF BridgeInv
<1> QED
  BY <1>1, BridgeInvHolds, PTL

-----------------------------------------------------------------------------
(* What the liveness of the bridge rests on: no step loses the callbacks of  *)
(* a fetch that waits, or the timer of a subprocess that was asked to end.   *)

\* A subprocess that was asked to end, and runs on, is the one that the timer
\* of close() will kill.
TermIsWatched == \A p \in Procs : sig[p] = "term" /\ os[p] = "running" => killing = p

\* Nobody is asked to end before the bridge is closed.
OpenAsksNobody == ~closed => \A p \in Procs : sig[p] # "term"

SettleInv == WaitsAreSettled /\ TermIsWatched /\ OpenAsksNobody

\* A fetch whose command goes out is the only one that waits.
LEMMA SendSettles ==
  ASSUME BridgeInv, WaitsAreSettled, NEW f \in Pages, NEW p \in Procs,
         pc[f] \in {"dns", "restart"}, Send(f, p), UNCHANGED late
  PROVE  WaitsAreSettled'
<1>1. pc'[f] = "await" /\ pending' = f /\ \A g \in Pages : g # f => pc'[g] = pc[g]
  BY SendType, MovesType DEF BridgeInv, Going
<1>2. \A g \in Pages : g # f => pc[g] # "await"
  BY DEF BridgeInv, OneFetch, Going
<1> QED
  BY <1>1, <1>2 DEF WaitsAreSettled

\* A spawned subprocess has been sent nothing yet that close() would watch.
LEMMA SpawnWatched ==
  ASSUME BridgeInv, SettleInv, ~closed, NEW p \in Procs, Spawn(p),
         UNCHANGED <<closed, killing, sig>>
  PROVE  TermIsWatched' /\ OpenAsksNobody'
  BY DEF SettleInv, TermIsWatched, OpenAsksNobody

\* The steps of a fetch.
LEMMA FetchSettles ==
  ASSUME BridgeInv, SettleInv, NEW f \in Pages,
         \/ Fetch(f) \/ LookupFails(f) \/ LookupDone(f)
         \/ Restarted(f) \/ Checked(f) \/ FellBack(f)
  PROVE  SettleInv'
<1> USE DEF promise, procs
<1>1. ASSUME NEW s \in {"dns", "closed", "rejected", "blocked", "page", "plain"},
             Moves(f, s), UNCHANGED <<promise, closed, killing, os, sig, late>>
      PROVE  SettleInv'
  <2>1. pc'[f] = s /\ \A g \in Pages : g # f => pc'[g] = pc[g]
    BY <1>1, MovesType DEF BridgeInv, Going, Ended
  <2>2. WaitsAreSettled'
    BY <1>1, <2>1 DEF SettleInv, WaitsAreSettled
  <2>3. TermIsWatched' /\ OpenAsksNobody'
    BY <1>1 DEF SettleInv, TermIsWatched, OpenAsksNobody
  <2> QED
    BY <2>2, <2>3 DEF SettleInv
<1>2. CASE Fetch(f) \/ LookupFails(f) \/ Checked(f) \/ FellBack(f)
  BY <1>1, <1>2 DEF Fetch, LookupFails, Checked, FellBack
<1>3. CASE LookupDone(f)
  <2>1. ~closed
    BY <1>3 DEF LookupDone, BridgeInv, ClosedIsBare
  <2>2. CASE child # NoProc /\ UNCHANGED <<born, child, os, ears>>
    <3>1. child \in Procs /\ Send(f, child)
      BY <1>3, <2>2 DEF LookupDone, BridgeInv, BridgeTypeOK
    <3>2. WaitsAreSettled'
      BY <1>3, <3>1, SendSettles DEF LookupDone, SettleInv
    <3>3. TermIsWatched' /\ OpenAsksNobody'
      BY <1>3, <2>2 DEF LookupDone, SettleInv, TermIsWatched, OpenAsksNobody
    <3> QED
      BY <3>2, <3>3 DEF SettleInv
  <2>3. CASE \E p \in Procs : Spawn(p)
    <3>1. PICK p \in Procs : Spawn(p)
      BY <2>3
    <3>2. Send(f, p)
      BY <1>3, <3>1 DEF LookupDone, Spawn
    <3> QED
      BY <1>3, <2>1, <3>1, <3>2, SendSettles, SpawnWatched DEF LookupDone, SettleInv
  <2> QED
    BY <1>3, <2>2, <2>3 DEF LookupDone
<1>4. CASE Restarted(f)
  <2>1. CASE closed
    <3>1. Moves(f, "closed") /\ UNCHANGED <<promise, closed, killing, os, sig, late>>
      BY <1>4, <2>1 DEF Restarted
    <3> QED
      BY <1>1, <3>1
  <2>2. CASE ~closed
    <3>1. PICK p \in Procs : Spawn(p)
      BY <1>4, <2>2 DEF Restarted
    <3>2. Send(f, p)
      BY <1>4, <2>2, <3>1 DEF Restarted, Spawn
    <3> QED
      BY <1>4, <2>2, <3>1, <3>2, SendSettles, SpawnWatched DEF Restarted, SettleInv
  <2> QED
    BY <2>1, <2>2
<1> QED
  BY <1>2, <1>3, <1>4

\* The first line settles what is pending; a failed attempt kills its child.
LEMMA ReplySettles ==
  ASSUME BridgeInv, SettleInv, NEW p \in Procs, Reply(p)
  PROVE  SettleInv'
<1> USE DEF fetches, promise
<1>1. /\ UNCHANGED <<closed, killing, os, late>>
      /\ \A q \in Procs : sig'[q] \in {sig[q], "kill"}
  <2>1. CASE pending = 0 \/ out[p][1].ok
    BY <2>1 DEF Reply
  <2>2. CASE pending # 0 /\ ~out[p][1].ok
    BY <2>2 DEF Reply, AttemptFailed, KillChild, BridgeInv, BridgeTypeOK
  <2> QED
    BY <2>1, <2>2 DEF Reply
<1>2. TermIsWatched' /\ OpenAsksNobody'
  BY <1>1 DEF SettleInv, TermIsWatched, OpenAsksNobody
<1>3. WaitsAreSettled'
  <2>1. CASE pending = 0
    BY <1>1, <2>1 DEF Reply, SettleInv, WaitsAreSettled
  <2>2. CASE pending # 0
    <3>1. pending \in Pages
      BY <2>2 DEF BridgeInv, BridgeTypeOK
    <3>2. PICK s \in {"check", "restart", "fallback"} : Moves(pending, s)
      BY <2>2 DEF Reply, AttemptFailed
    <3>3. pc'[pending] = s /\ \A g \in Pages : g # pending => pc'[g] = pc[g]
      BY <3>1, <3>2, MovesType DEF BridgeInv, Going
    <3> QED
      BY <1>1, <3>1, <3>3 DEF SettleInv, WaitsAreSettled
  <2> QED
    BY <2>1, <2>2
<1> QED
  BY <1>2, <1>3 DEF SettleInv

\* An exit settles what is pending, and ends the watch of the dead only.
LEMMA ExitSettles ==
  ASSUME BridgeInv, SettleInv, NEW p \in Procs, Exit(p)
  PROVE  SettleInv'
<1> USE DEF promise
<1>1. TermIsWatched' /\ OpenAsksNobody'
  BY DEF Exit, SettleInv, TermIsWatched, OpenAsksNobody
<1>2. WaitsAreSettled'
  <2>1. CASE pending = 0
    BY <2>1 DEF Exit, SettleInv, WaitsAreSettled
  <2>2. CASE pending # 0
    <3>1. pending \in Pages
      BY <2>2 DEF BridgeInv, BridgeTypeOK
    <3>2. PICK s \in {"restart", "fallback"} : Moves(pending, s)
      BY <2>2 DEF Exit
    <3>3. pc'[pending] = s /\ \A g \in Pages : g # pending => pc'[g] = pc[g]
      BY <3>1, <3>2, MovesType DEF BridgeInv, Going
    <3> QED
      BY <3>1, <3>3 DEF Exit, SettleInv, WaitsAreSettled
  <2> QED
    BY <2>1, <2>2
<1> QED
  BY <1>1, <1>2 DEF SettleInv

\* Timers, close() and the abort signal.
LEMMA SignalsSettle ==
  ASSUME BridgeInv, SettleInv, TimeOut \/ KillTimer \/ Close \/ Abort
  PROVE  SettleInv'
<1> USE DEF fetches, promise
<1>1. CASE TimeOut
  <2>1. /\ UNCHANGED <<pc, closed, killing, os>> /\ late' = late \cup {pending}
        /\ \A q \in Procs : sig'[q] \in {sig[q], "kill"}
    BY <1>1 DEF TimeOut, BridgeInv, BridgeTypeOK
  <2>2. TermIsWatched' /\ OpenAsksNobody'
    BY <2>1 DEF SettleInv, TermIsWatched, OpenAsksNobody
  <2>3. WaitsAreSettled'
    BY <2>1 DEF SettleInv, WaitsAreSettled
  <2> QED
    BY <2>2, <2>3 DEF SettleInv
<1>2. CASE KillTimer
  <2>1. /\ UNCHANGED <<pc, pending, late, closed, os>> /\ killing \in Procs
        /\ \A q \in Procs : sig'[q] = IF q = killing THEN "kill" ELSE sig[q]
    BY <1>2 DEF KillTimer, BridgeInv, BridgeTypeOK
  <2>2. TermIsWatched' /\ OpenAsksNobody'
    BY <2>1 DEF SettleInv, TermIsWatched, OpenAsksNobody
  <2>3. WaitsAreSettled'
    BY <2>1 DEF SettleInv, WaitsAreSettled
  <2> QED
    BY <2>2, <2>3 DEF SettleInv
<1>3. CASE Close \/ Abort
  <2>1. CloseBridge /\ UNCHANGED <<os, late>>
    BY <1>3 DEF Close, Abort
  <2>2. OpenAsksNobody' /\ \A q \in Procs : sig[q] # "term"
    BY <2>1 DEF CloseBridge, SettleInv, OpenAsksNobody
  <2>3. TermIsWatched'
    BY <2>1, <2>2 DEF CloseBridge, TermIsWatched, BridgeInv, BridgeTypeOK
  <2>4. WaitsAreSettled'
    <3>1. CASE Close
      BY <3>1 DEF Close, SettleInv, WaitsAreSettled
    <3>2. CASE Abort
      BY <3>2, <2>1 DEF Abort, SettleInv, WaitsAreSettled, BridgeInv, BridgeTypeOK
    <3> QED
      BY <1>3, <3>1, <3>2
  <2> QED
    BY <2>2, <2>3, <2>4 DEF SettleInv
<1> QED
  BY <1>1, <1>2, <1>3

LEMMA SettleInvHolds == BridgeSpec => []SettleInv
<1>1. BridgeInit => SettleInv
  BY DEF BridgeInit, SettleInv, WaitsAreSettled, TermIsWatched, OpenAsksNobody
<1>2. BridgeInv /\ SettleInv /\ [BridgeNext]_bridgeVars => SettleInv'
  <2> SUFFICES ASSUME BridgeInv, SettleInv, [BridgeNext]_bridgeVars
               PROVE  SettleInv'
    OBVIOUS
  <2>1. ASSUME NEW f \in Pages,
               \/ Fetch(f) \/ LookupFails(f) \/ LookupDone(f)
               \/ Restarted(f) \/ Checked(f) \/ FellBack(f)
        PROVE  SettleInv'
    BY <2>1, FetchSettles
  <2>2. ASSUME NEW p \in Procs, Reply(p) PROVE SettleInv'
    BY <2>2, ReplySettles
  <2>3. ASSUME NEW p \in Procs, Exit(p) PROVE SettleInv'
    BY <2>3, ExitSettles
  <2>4. CASE TimeOut \/ KillTimer \/ Close \/ Abort
    BY <2>4, SignalsSettle
  <2>5. CASE \/ \E p \in Procs : Answers(p) \/ Dies(p)
             \/ Health \/ HealthTimeOut \/ ShotEnds
             \/ \E verdict \in {"yes", "no"} : HealthAnswered(verdict)
             \/ UNCHANGED bridgeVars
    <3>1. /\ UNCHANGED <<pc, pending, closed, killing, sig, late>>
          /\ \A q \in Procs : os'[q] = "running" => os[q] = "running"
      BY <2>5 DEF Answers, Dies, Health, HealthTimeOut, ShotEnds, HealthAnswered,
         bridgeVars, fetches, promise, procs, BridgeInv, BridgeTypeOK
    <3>2. TermIsWatched' /\ OpenAsksNobody'
      BY <3>1 DEF SettleInv, TermIsWatched, OpenAsksNobody
    <3>3. WaitsAreSettled'
      BY <3>1 DEF SettleInv, WaitsAreSettled
    <3> QED
      BY <3>2, <3>3 DEF SettleInv
  <2> QED
    BY <2>1, <2>2, <2>3, <2>4, <2>5 DEF BridgeNext
<1> QED
  BY <1>1, <1>2, BridgeInvHolds, PTL DEF BridgeSpec

\* A fetch that waits can still be settled, unless its timer gave up on it:
\* scrapling-bridge.ts:496-536, 575-617.
THEOREM WaitsAlwaysSettled == BridgeSpec => []WaitsAreSettled
<1>1. SettleInv => WaitsAreSettled
  BY DEF SettleInv
<1> QED
  BY <1>1, SettleInvHolds, PTL

\* On a closed bridge whoever runs has been killed or will be by the timer:
\* scrapling-bridge.ts:426-465.
THEOREM ClosedAlwaysInsists == BridgeSpec => []ClosedInsists
<1>1. BridgeInv /\ SettleInv => ClosedInsists
  BY DEF BridgeInv, BridgeTypeOK, NobodyForgotten, SettleInv, TermIsWatched, ClosedInsists
<1> QED
  BY <1>1, BridgeInvHolds, SettleInvHolds, PTL
=============================================================================
