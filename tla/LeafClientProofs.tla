--------------------------- MODULE LeafClientProofs ---------------------------
(***************************************************************************)
(* Proofs about the leaf runtime client, for any number of calls and       *)
(* clients and for every limit of the list of known runs.                  *)
(***************************************************************************)
EXTENDS LeafClient, SequenceTheorems, TLAPS

\* A call is on a client once it has begun, waits only for one that is not
\* disposed, and has its result when it is done, as has that of a stray start.
CallsFit ==
  /\ live \notin gone /\ Nobody \notin gone
  /\ \A c \in stray : call[c].at = "done"
  /\ \A c \in Calls : /\ call[c].at = "idle" <=> call[c].client = Nobody
                      /\ call[c].at \in Waiting => call[c].client \notin gone
                      /\ call[c].res # "none" => call[c].at = "done"

\* A client tracks runs of its own calls, each once, after they were started.
TrackedFit ==
  \A k \in Clients :
    /\ \A i \in 1..Len(tracked[k]) :
         /\ call[tracked[k][i]].client = k
         /\ call[tracked[k][i]].at \in Polling \cup {"done"}
         /\ tracked[k][i] \notin stray
    /\ \A i, j \in 1..Len(tracked[k]) : tracked[k][i] = tracked[k][j] => i = j

\* What is known was tracked, in the same order: behind the run at place i of
\* the list there are as many in the history as there are in the list.
KnownFit ==
  \A k \in Clients :
    /\ k \in gone => known[k] = <<>>
    /\ Len(known[k]) <= MaxKnown
    /\ \A i \in 1..Len(known[k]) : \E p \in 1..Len(tracked[k]) :
         /\ tracked[k][p] = known[k][i]
         /\ p <= Len(tracked[k]) - (Len(known[k]) - i)

ClientInv ==
  /\ ClientTypeOK /\ CallsFit /\ TrackedFit /\ KnownFit
  /\ TimedOutIsCancelled /\ CancelIsForTimeout /\ PolledIsKnown

CallRecords == [at : Steps, client : Clients \cup {Nobody}, res : Results]

-----------------------------------------------------------------------------
(* How the calls change.                                                   *)

\* Only call c changes, from a state that is not its last, and to r.
Sets(c, r) ==
  /\ call' \in [Calls -> CallRecords]
  /\ call'[c] = r
  /\ \A d \in Calls \ {c} : call'[d] = call[d]

\* An EXCEPT for one call is what it says.
LEMMA SetCall ==
  ASSUME ClientTypeOK, NEW c \in Calls, NEW r \in CallRecords, call' = [call EXCEPT ![c] = r]
  PROVE  Sets(c, r)
BY DEF ClientTypeOK, Sets, CallRecords

\* A call that moves keeps its client and its result.
LEMMA MovesSets ==
  ASSUME ClientTypeOK, NEW c \in Calls, NEW at \in Steps, Moves(c, at)
  PROVE  Sets(c, [at |-> at, client |-> call[c].client, res |-> call[c].res])
<1> DEFINE r == [at |-> at, client |-> call[c].client, res |-> call[c].res]
<1>1. call[c] \in CallRecords
  BY DEF ClientTypeOK, CallRecords
<1>2. r \in CallRecords /\ [call[c] EXCEPT !.at = at] = r
  BY <1>1 DEF CallRecords
<1>3. call' = [call EXCEPT ![c] = r]
  BY <1>2 DEF Moves
<1> QED BY <1>2, <1>3, SetCall

\* A call that ends keeps its client.
LEMMA EndsSets ==
  ASSUME ClientTypeOK, NEW c \in Calls, NEW res \in Results, Ends(c, res)
  PROVE  Sets(c, [at |-> "done", client |-> call[c].client, res |-> res])
<1> DEFINE r == [at |-> "done", client |-> call[c].client, res |-> res]
<1>1. call[c] \in CallRecords
  BY DEF ClientTypeOK, CallRecords
<1>2. "done" \in Steps
  BY DEF Steps
<1>3. r \in CallRecords
  BY <1>1, <1>2 DEF CallRecords
<1>4. call' = [call EXCEPT ![c] = r]
  BY DEF Ends
<1> QED BY <1>3, <1>4, SetCall

\* What a client knows of are runs of its own calls, started and answered.
LEMMA KnownIsTracked ==
  ASSUME ClientInv, NEW k \in Clients, NEW c \in Known(k)
  PROVE  /\ c \in Leaves /\ call[c].client = k /\ k \notin gone
         /\ call[c].at \in Polling \cup {"done"} /\ c \notin stray
<1>1. known[k] \in Seq(Leaves) /\ tracked[k] \in Seq(Leaves)
  BY DEF ClientInv, ClientTypeOK
<1>2. PICK i \in DOMAIN known[k] : c = known[k][i]
  BY DEF Known, Range
<1>3. i \in 1..Len(known[k])
  BY <1>1, <1>2, LenProperties
<1>4. PICK p \in 1..Len(tracked[k]) : tracked[k][p] = known[k][i]
  BY <1>3 DEF ClientInv, KnownFit
<1>5. tracked[k][p] \in Leaves
  BY <1>1, <1>4, ElementOfSeq
<1>6. k \notin gone
  <2>1. known[k] # <<>>
    BY <1>1, <1>3, EmptySeq
  <2> QED BY <2>1 DEF ClientInv, KnownFit
<1> QED BY <1>2, <1>4, <1>5, <1>6 DEF ClientInv, TrackedFit

\* Calls that were polled or done stay so, and are as stray as they were.
CallsGoOn ==
  \A d \in Calls : call[d].at \in Polling \cup {"done"} =>
    /\ call'[d].at \in Polling \cup {"done"}
    /\ call'[d].client = call[d].client
    /\ d \in stray' => d \in stray

\* The lists fit as long as nobody touches them.
LEMMA ListsStay ==
  ASSUME ClientInv, UNCHANGED <<known, tracked, gone>>, CallsGoOn
  PROVE  TrackedFit' /\ KnownFit'
<1>1. KnownFit'
  BY DEF ClientInv, KnownFit
<1>2. ASSUME NEW k \in Clients, NEW i \in 1..Len(tracked[k])
      PROVE  /\ call'[tracked[k][i]].client = k
             /\ call'[tracked[k][i]].at \in Polling \cup {"done"}
             /\ tracked[k][i] \notin stray'
  <2>1. tracked[k][i] \in Calls
    BY ElementOfSeq DEF ClientInv, ClientTypeOK, Calls
  <2> QED BY <2>1 DEF ClientInv, TrackedFit, CallsGoOn
<1>3. TrackedFit'
  BY <1>2 DEF ClientInv, TrackedFit
<1> QED BY <1>1, <1>3

\* So does what they say of the calls that are polled.
LEMMA PolledStay ==
  ASSUME ClientInv, UNCHANGED <<known, tracked, gone>>,
         \A d \in Leaves : call'[d].at \in Polling =>
           call[d].at \in Polling /\ call'[d].client = call[d].client
  PROVE  PolledIsKnown'
BY DEF ClientInv, PolledIsKnown, Newest, Known

\* A call that has timed out is the reason for cancellations ever after.
LEMMA ReasonsStay ==
  ASSUME ClientInv,
         \A d \in Calls : call[d].at = "done" => call'[d] = call[d],
         \A d \in Leaves : call'[d].client = call[d].client \/ call[d].at = "idle",
         \A d \in doomed' : d \in doomed \/ \E e \in Calls :
           call'[e].client = call'[d].client /\ call'[e].res = "timeout"
  PROVE  CancelIsForTimeout'
<1>0. doomed \subseteq Leaves
  BY DEF ClientInv, ClientTypeOK
<1> SUFFICES ASSUME NEW c \in doomed
             PROVE  \E d \in Calls : call'[d].client = call'[c].client /\ call'[d].res = "timeout"
  BY DEF CancelIsForTimeout
<1>1. PICK d \in Calls : call[d].client = call[c].client /\ call[d].res = "timeout"
  BY DEF ClientInv, CancelIsForTimeout
<1>2. call'[d] = call[d]
  BY <1>1 DEF ClientInv, CallsFit
<1>3. call[d].at # "idle"
  BY <1>1 DEF ClientInv, CallsFit
<1>4. call[c].at # "idle"
  BY <1>0, <1>1, <1>3 DEF ClientInv, CallsFit, Calls
<1> QED BY <1>0, <1>1, <1>2, <1>4

\* What the answer to a request, its time-out or the end of a pause may do to
\* its call, which goes on as r, and to the runtime.
Answers(c, r) ==
  /\ Sets(c, r) /\ r.client = call[c].client
  /\ call[c].at \in Waiting \cup {"sleeping"} /\ r.at # "idle"
  /\ r.res # "none" => r.at = "done"
  /\ r.at \in Waiting => call[c].client \notin gone
  /\ r.at \in Polling => call[c].at \in Polling
  /\ call[c].at \in Polling => r.at \in Polling \cup {"done"}
  /\ UNCHANGED <<late, live, made, gone, known, tracked>>
  /\ \/ runs' = runs
     \/ call[c].at = "starting" /\ r.res # "timeout" /\ runs' = [runs EXCEPT ![c] = "going"]
  /\ \/ stray' = stray
     \/ r.at = "done" /\ stray' = stray \cup Strays({c})
  /\ \/ doomed' = doomed /\ (r.res = "timeout" => call[c].client \in gone)
     \/ r.res = "timeout" /\ doomed' = doomed \cup Known(call[c].client)

\* Such a step keeps the invariant.
LEMMA AnswersKeep ==
  ASSUME ClientInv, NEW c \in Calls, NEW r \in CallRecords, Answers(c, r)
  PROVE  ClientInv'
<1> DEFINE k == call[c].client
<1>1. /\ call \in [Calls -> CallRecords] /\ runs \in [Leaves -> {"none", "going", "completed", "failed", "cancelled"}]
      /\ stray \subseteq Leaves /\ doomed \subseteq Leaves
  BY DEF ClientInv, ClientTypeOK, CallRecords
<1>2. call[c] \in CallRecords /\ call[c].at \notin {"idle", "done"} /\ k \in Clients
  <2>1. call[c].at \notin {"idle", "done"}
    BY DEF Answers, Waiting
  <2>2. call[c] \in CallRecords /\ k # Nobody
    BY <1>1, <2>1 DEF ClientInv, CallsFit
  <2> QED BY <2>1, <2>2 DEF CallRecords
<1>3. /\ call' \in [Calls -> CallRecords] /\ call'[c] = r
      /\ \A d \in Calls \ {c} : call'[d] = call[d]
  BY DEF Answers, Sets
<1>4. Known(k) \subseteq Leaves
  BY <1>2, KnownIsTracked
<1>5. runs' \in [Leaves -> {"none", "going", "completed", "failed", "cancelled"}]
  BY <1>1 DEF Answers
<1>6. stray' \subseteq Leaves /\ doomed' \subseteq Leaves
  BY <1>1, <1>4 DEF Answers, Strays
<1>7. ClientTypeOK'
  BY <1>3, <1>5, <1>6 DEF ClientInv, ClientTypeOK, Answers, CallRecords
<1>8. CallsFit'
  <2>1. r.at # "idle" /\ r.client # Nobody /\ (r.res # "none" => r.at = "done")
        /\ (r.at \in Waiting => r.client \notin gone)
    BY <1>2 DEF Answers, ClientInv, CallsFit
  <2>2. \A d \in stray' : call'[d].at = "done"
    BY <1>1, <1>2, <1>3 DEF Answers, ClientInv, CallsFit, Strays, Calls
  <2> QED BY <1>3, <2>1, <2>2 DEF Answers, ClientInv, CallsFit
<1>9. CallsGoOn
  <2> SUFFICES ASSUME NEW d \in Calls, call[d].at \in Polling \cup {"done"}
               PROVE  /\ call'[d].at \in Polling \cup {"done"}
                      /\ call'[d].client = call[d].client
                      /\ d \in stray' => d \in stray
    BY DEF CallsGoOn
  <2>1. d \notin Strays({c})
    BY <1>2 DEF Strays, Polling
  <2>2. d \in stray' => d \in stray
    BY <2>1 DEF Answers
  <2>3. CASE d = c
    BY <1>2, <1>3, <2>2, <2>3 DEF Answers
  <2>4. CASE d # c
    BY <1>3, <2>2, <2>4
  <2> QED BY <2>3, <2>4
<1>10. TrackedFit' /\ KnownFit'
  BY <1>9, ListsStay DEF Answers
<1>11. \A d \in Leaves : call'[d].at \in Polling =>
         call[d].at \in Polling /\ call'[d].client = call[d].client
  BY <1>3 DEF Answers, Calls
<1>12. PolledIsKnown'
  BY <1>11, PolledStay DEF Answers
<1>13. \A d \in Calls : /\ call[d].at = "done" => call'[d] = call[d]
                        /\ call'[d].client = call[d].client
  BY <1>2, <1>3 DEF Answers
<1>15. ASSUME NEW d \in doomed', d \notin doomed
       PROVE  call'[c].client = call'[d].client /\ call'[c].res = "timeout"
  <2>1. r.res = "timeout" /\ d \in Known(k)
    BY <1>15 DEF Answers
  <2>2. call[d].client = k /\ d \in Calls
    BY <1>2, <2>1, KnownIsTracked DEF Calls
  <2> QED BY <1>3, <1>13, <2>1, <2>2
<1>16. CancelIsForTimeout'
  BY <1>13, <1>15, ReasonsStay DEF Calls
<1>17. TimedOutIsCancelled'
  <2> SUFFICES ASSUME NEW d \in Leaves, call'[d].res = "timeout", runs'[d] = "going",
                      call'[d].client # Nobody, d \in Known(call'[d].client)
               PROVE  d \in doomed'
    BY DEF TimedOutIsCancelled, Known, Answers
  <2>0. d \in Calls /\ d \in Known(call[d].client)
    BY <1>13 DEF Calls
  <2>1. CASE d = c
    <3>1. r.res = "timeout" /\ runs' = runs
      BY <1>3, <2>1 DEF Answers
    <3>2. k \notin gone /\ c \in Known(k)
      BY <1>2, <1>13, <2>0, <2>1, KnownIsTracked
    <3> QED BY <2>1, <3>1, <3>2 DEF Answers
  <2>2. CASE d # c
    <3>1. call[d].res = "timeout" /\ call[d].client # Nobody /\ d \in Known(call[d].client)
      BY <1>3, <1>13, <2>0, <2>2
    <3>2. runs[d] = "going"
      BY <1>1, <2>2 DEF Answers
    <3> QED BY <3>1, <3>2 DEF Answers, ClientInv, TimedOutIsCancelled
  <2> QED BY <2>1, <2>2
<1> QED BY <1>7, <1>8, <1>10, <1>12, <1>16, <1>17 DEF ClientInv

\* The records that the calls of the model become.
LEMMA MovedAnswers ==
  ASSUME ClientInv, NEW c \in Calls, NEW at \in Steps, Moves(c, at),
         call[c].at \in Waiting \cup {"sleeping"}, at \notin {"idle", "done"},
         at \in Waiting => call[c].client \notin gone,
         at \in Polling <=> call[c].at \in Polling,
         UNCHANGED <<late, live, made, gone, known, tracked, runs, stray, doomed>>
  PROVE  ClientInv'
<1> DEFINE r == [at |-> at, client |-> call[c].client, res |-> call[c].res]
<1>1. Sets(c, r)
  BY MovesSets DEF ClientInv
<1>2. r \in CallRecords /\ call[c].res = "none"
  BY DEF ClientInv, ClientTypeOK, CallRecords, CallsFit, Waiting
<1>3. Answers(c, r)
  BY <1>1, <1>2 DEF Answers
<1> QED BY <1>2, <1>3, AnswersKeep

\* Likewise for a call that ends without a time-out of its own.
LEMMA EndedAnswers ==
  ASSUME ClientInv, NEW c \in Calls, NEW res \in Results, Ends(c, res),
         call[c].at \in Waiting \cup {"sleeping"},
         res # "timeout",
         UNCHANGED <<late, live, made, gone, known, tracked, stray, doomed>>,
         \/ runs' = runs
         \/ call[c].at = "starting" /\ runs' = [runs EXCEPT ![c] = "going"]
  PROVE  ClientInv'
<1> DEFINE r == [at |-> "done", client |-> call[c].client, res |-> res]
<1>1. Sets(c, r)
  BY EndsSets DEF ClientInv
<1>2. "done" \in Steps /\ "done" \notin Waiting /\ "done" \notin Polling
  BY DEF Steps, Waiting, Polling
<1>3. r \in CallRecords
  BY <1>2 DEF ClientInv, ClientTypeOK, CallRecords
<1>4. Answers(c, r)
  BY <1>1, <1>2 DEF Answers
<1> QED BY <1>3, <1>4, AnswersKeep

\* And for one that times out, with or without a request outstanding.
LEMMA TimedOutAnswers ==
  ASSUME ClientInv, NEW c \in Calls, TimesOut(c, known),
         call[c].at \in Waiting \cup {"sleeping"},
         UNCHANGED <<late, live, made, gone, known, tracked, runs>>,
         stray' = stray \/ stray' = stray \cup Strays({c})
  PROVE  ClientInv'
<1> DEFINE r == [at |-> "done", client |-> call[c].client, res |-> "timeout"]
<1>1. Sets(c, r)
  BY EndsSets DEF ClientInv, TimesOut, Results
<1>2. "done" \in Steps /\ "done" \notin Waiting /\ "done" \notin Polling /\ "timeout" \in Results
  BY DEF Steps, Waiting, Polling, Results
<1>3. r \in CallRecords
  BY <1>2 DEF ClientInv, ClientTypeOK, CallRecords
<1>4. \/ doomed' = doomed /\ call[c].client \in gone
      \/ doomed' = doomed \cup Known(call[c].client)
  BY DEF TimesOut, CancelKnownRuns, Known
<1>5. Answers(c, r)
  BY <1>1, <1>2, <1>4 DEF Answers
<1> QED BY <1>3, <1>5, AnswersKeep

LEMMA RequestsKeep ==
  ASSUME ClientInv, NEW c \in Calls,
         Negotiated(c) \/ Wake(c) \/ RequestTimeout(c)
  PROVE  ClientInv'
<1>0. "starting" \in Steps /\ "asking" \in Steps /\ "ok" \in Results /\ "disposed" \in Results
      /\ Errors \subseteq Results \ {"timeout"}
  BY DEF Steps, Waiting, Results, Errors
<1>1. CASE Negotiated(c)
  <2>1. UNCHANGED <<late, live, made, gone, known, tracked, runs, stray, doomed>>
        /\ call[c].at = "negotiating" /\ "negotiating" \in Waiting /\ "negotiating" \notin Polling
        /\ "starting" \notin Polling
    BY <1>1 DEF Negotiated, clients, runtime, Waiting, Polling
  <2>2. CASE Moves(c, "starting")
    <3>1. call[c].client \notin gone
      BY <2>1 DEF ClientInv, CallsFit
    <3> QED BY <1>0, <2>1, <2>2, <3>1, MovedAnswers
  <2>3. CASE Ends(c, "ok")
    BY <1>0, <2>1, <2>3, EndedAnswers
  <2>4. CASE \E res \in Errors : Ends(c, res)
    BY <1>0, <2>1, <2>4, EndedAnswers
  <2> QED BY <1>1, <2>2, <2>3, <2>4 DEF Negotiated
<1>2. CASE Wake(c)
  <2>1. UNCHANGED <<late, live, made, gone, known, tracked, runs, stray>>
        /\ call[c].at = "sleeping" /\ "sleeping" \in Polling /\ "asking" \in Polling
    BY <1>2 DEF Wake, clients, Polling
  <2>2. CASE TimesOut(c, known)
    BY <2>1, <2>2, TimedOutAnswers
  <2>3. CASE UNCHANGED doomed /\ Ends(c, "disposed")
    BY <1>0, <2>1, <2>3, EndedAnswers
  <2>4. CASE UNCHANGED doomed /\ call[c].client \notin gone /\ Moves(c, "asking")
    BY <1>0, <2>1, <2>4, MovedAnswers
  <2> QED BY <1>2, <2>2, <2>3, <2>4 DEF Wake
<1>3. CASE RequestTimeout(c)
  BY <1>3, TimedOutAnswers DEF RequestTimeout, clients
<1> QED BY <1>1, <1>2, <1>3

LEMMA PollsKeep ==
  ASSUME ClientInv, NEW c \in Leaves, StartFails(c) \/ Status(c)
  PROVE  ClientInv'
<1>0. "sleeping" \in Steps /\ "fetching" \in Steps /\ Errors \subseteq Results \ {"timeout"}
      /\ "expired" \in Errors /\ c \in Calls
  BY DEF Steps, Waiting, Results, Errors, Calls
<1>1. CASE StartFails(c)
  <2>1. UNCHANGED <<late, live, made, gone, known, tracked, stray, doomed>>
        /\ call[c].at \in Waiting
    BY <1>1 DEF StartFails, clients, Waiting
  <2> QED BY <1>0, <1>1, <2>1, EndedAnswers DEF StartFails
<1>2. CASE Status(c)
  <2>1. UNCHANGED <<late, live, made, gone, known, tracked, runs, stray>>
        /\ call[c].at \in Waiting /\ call[c].at \in Polling
        /\ "sleeping" \in Polling /\ "fetching" \in Polling
    BY <1>2 DEF Status, clients, Polling, Waiting
  <2>2. call[c].client \notin gone
    BY <1>0, <2>1 DEF ClientInv, CallsFit
  <2>3. CASE TimesOut(c, known)
    BY <1>0, <2>1, <2>3, TimedOutAnswers
  <2>4. CASE UNCHANGED doomed /\ (Moves(c, "sleeping") \/ Moves(c, "fetching"))
    BY <1>0, <2>1, <2>2, <2>4, MovedAnswers
  <2>5. CASE UNCHANGED doomed /\ \E res \in Errors : Ends(c, res)
    BY <1>0, <2>1, <2>5, EndedAnswers
  <2> QED BY <1>0, <1>2, <2>3, <2>4, <2>5 DEF Status, GoesOn
<1> QED BY <1>1, <1>2

\* A list that takes up a run, at its limit for its oldest one.
Grown(q, c) == Append(IF Len(q) >= MaxKnown THEN Tail(q) ELSE q, c)

\* What is in the grown list, and where it was before.
LEMMA GrownGives ==
  ASSUME NEW q \in Seq(Leaves), NEW c \in Leaves, Len(q) <= MaxKnown
  PROVE  /\ Grown(q, c) \in Seq(Leaves) /\ Len(Grown(q, c)) <= MaxKnown
         /\ Grown(q, c)[Len(Grown(q, c))] = c /\ Len(Grown(q, c)) >= 1
         /\ \E o \in {0, 1} :
              /\ Len(q) = Len(Grown(q, c)) - 1 + o /\ (o = 1 => Len(q) = MaxKnown)
              /\ \A i \in 1..(Len(Grown(q, c)) - 1) : Grown(q, c)[i] = q[i + o]
<1> DEFINE t == Grown(q, c)
           u == Tail(q)
<1>1. MaxKnown \in Nat \ {0} /\ Len(q) \in Nat
  BY LeafClientAssumption, LenProperties
<1>2. CASE Len(q) >= MaxKnown
  <2>1. q # <<>>
    BY <1>1, <1>2, EmptySeq
  <2>2. /\ u \in Seq(Leaves) /\ Len(u) = Len(q) - 1
        /\ \A i \in 1..Len(u) : u[i] = q[i + 1]
    BY <2>1, HeadTailProperties
  <2> HIDE DEF u
  <2>3. t = Append(u, c)
    BY <1>2 DEF Grown, u
  <2> HIDE DEF t
  <2>4. /\ t \in Seq(Leaves) /\ Len(t) = Len(u) + 1 /\ t[Len(t)] = c
        /\ \A i \in 1..Len(u) : t[i] = u[i]
    BY <2>2, <2>3, AppendProperties
  <2>5. Len(q) = MaxKnown /\ Len(t) = Len(q) /\ Len(u) = Len(t) - 1
    BY <1>1, <1>2, <2>2, <2>4
  <2>6. \A i \in 1..(Len(t) - 1) : t[i] = q[i + 1]
    BY <2>2, <2>4, <2>5
  <2>7. Len(t) <= MaxKnown /\ Len(t) >= 1 /\ Len(q) = Len(t) - 1 + 1
    BY <1>1, <2>5
  <2> QED BY <2>4, <2>5, <2>6, <2>7 DEF t
<1>3. CASE ~(Len(q) >= MaxKnown)
  <2>1. t = Append(q, c)
    BY <1>3 DEF Grown
  <2> HIDE DEF t
  <2>2. /\ t \in Seq(Leaves) /\ Len(t) = Len(q) + 1 /\ t[Len(t)] = c
        /\ \A i \in 1..Len(q) : t[i] = q[i]
    BY <2>1, AppendProperties
  <2>3. Len(t) <= MaxKnown /\ Len(t) >= 1 /\ Len(q) = Len(t) - 1 + 0
    BY <1>1, <1>3, <2>2
  <2>4. \A i \in 1..(Len(t) - 1) : i \in 1..Len(q) /\ i + 0 = i
    BY <1>1, <2>2
  <2>5. \A i \in 1..(Len(t) - 1) : t[i] = q[i + 0]
    BY <2>2, <2>4
  <2>6. \E o \in {0, 1} :
          /\ Len(q) = Len(t) - 1 + o /\ (o = 1 => Len(q) = MaxKnown)
          /\ \A i \in 1..(Len(t) - 1) : t[i] = q[i + o]
    <3> WITNESS 0 \in {0, 1}
    <3> QED BY <2>3, <2>5
  <2> QED BY <2>2, <2>3, <2>6 DEF t
<1> QED BY <1>2, <1>3

\* The lists of its client after a run has been tracked.
LEMMA TracksKeep ==
  ASSUME ClientInv, NEW c \in Leaves, NEW k \in Clients,
         k = call[c].client, call[c].at = "starting", k \notin gone, Tracks(k, c),
         call' \in [Calls -> CallRecords],
         \A d \in Calls \ {c} : call'[d] = call[d],
         call'[c].at \in {"sleeping", "done"}, call'[c].client = k,
         UNCHANGED <<gone, stray>>
  PROVE  /\ TrackedFit' /\ KnownFit' /\ PolledIsKnown'
         /\ known' \in [Clients -> Seq(Leaves)] /\ tracked' \in [Clients -> Seq(Leaves)]
         /\ \A e \in Clients \ {k} : known'[e] = known[e]
         /\ Range(known'[k]) \subseteq Range(known[k]) \cup {c}
<1> DEFINE q == known[k]
           t == known'[k]
           h == tracked[k]
           g == tracked'[k]
<1>1. /\ known \in [Clients -> Seq(Leaves)] /\ tracked \in [Clients -> Seq(Leaves)]
      /\ c \in Calls
  BY DEF ClientInv, ClientTypeOK, Calls
<1>2. q \in Seq(Leaves) /\ h \in Seq(Leaves) /\ Len(q) <= MaxKnown
  BY <1>1 DEF ClientInv, KnownFit
<1>3. /\ t = Grown(q, c) /\ g = Append(h, c)
      /\ \A e \in Clients \ {k} : known'[e] = known[e] /\ tracked'[e] = tracked[e]
  BY <1>1 DEF Tracks, Grown
<1>0. /\ Grown(q, c) \in Seq(Leaves) /\ Len(Grown(q, c)) <= MaxKnown
      /\ Grown(q, c)[Len(Grown(q, c))] = c /\ Len(Grown(q, c)) >= 1
      /\ \E o \in {0, 1} :
           /\ Len(q) = Len(Grown(q, c)) - 1 + o /\ (o = 1 => Len(q) = MaxKnown)
           /\ \A i \in 1..(Len(Grown(q, c)) - 1) : Grown(q, c)[i] = q[i + o]
  <2> HIDE DEF q
  <2> QED BY <1>2, GrownGives
<1>4. PICK o \in {0, 1} :
        /\ Len(q) = Len(t) - 1 + o /\ (o = 1 => Len(q) = MaxKnown)
        /\ \A i \in 1..(Len(t) - 1) : t[i] = q[i + o]
  <2> HIDE DEF q, t
  <2> QED BY <1>0, <1>3
<1>5. t \in Seq(Leaves) /\ Len(t) <= MaxKnown /\ t[Len(t)] = c /\ Len(t) >= 1
  <2> HIDE DEF q, t
  <2> QED BY <1>0, <1>3
<1>6. /\ g \in Seq(Leaves) /\ Len(g) = Len(h) + 1 /\ g[Len(g)] = c
      /\ \A i \in 1..Len(h) : g[i] = h[i]
  BY <1>2, <1>3, AppendProperties
<1>7. known' \in [Clients -> Seq(Leaves)] /\ tracked' \in [Clients -> Seq(Leaves)]
  <2>1. /\ known' = [known EXCEPT ![k] = t]
        /\ tracked' = [tracked EXCEPT ![k] = g]
    BY <1>1, <1>3 DEF Tracks
  <2> QED BY <1>1, <1>5, <1>6, <2>1
<1>8. Len(q) \in Nat /\ Len(t) \in Nat /\ Len(h) \in Nat /\ Len(g) \in Nat
      /\ MaxKnown \in Nat
  BY <1>2, <1>5, <1>6, LenProperties, LeafClientAssumption
<1>9. \A i \in 1..Len(h) :
        /\ call[h[i]].client = k /\ call[h[i]].at \in Polling \cup {"done"}
        /\ h[i] \notin stray /\ h[i] \in Calls /\ h[i] # c
  <2>1. \A i \in 1..Len(h) : h[i] \in Leaves
    BY <1>2, ElementOfSeq
  <2> QED BY <2>1 DEF ClientInv, TrackedFit, Calls, Polling
<1>10. \A i, j \in 1..Len(h) : h[i] = h[j] => i = j
  BY DEF ClientInv, TrackedFit
<1>11. \A i \in 1..Len(q) : \E p \in 1..Len(h) : h[p] = q[i] /\ p <= Len(h) - (Len(q) - i)
  BY DEF ClientInv, KnownFit
<1>12. c \notin stray /\ call'[c].at \in Polling \cup {"done"}
  BY DEF ClientInv, CallsFit, Polling
<1>13. \A i \in 1..Len(g) : i = Len(g) \/ i \in 1..Len(h)
  BY <1>6, <1>8
<1> HIDE DEF q, t, h, g
<1>14. \A i \in 1..Len(g) :
         /\ call'[g[i]].client = k /\ call'[g[i]].at \in Polling \cup {"done"}
         /\ g[i] \notin stray'
  BY <1>6, <1>9, <1>12, <1>13
<1>15. ASSUME NEW i \in 1..Len(g), NEW j \in 1..Len(g), g[i] = g[j]
       PROVE  i = j
  BY <1>6, <1>9, <1>10, <1>13, <1>15
<1>16. \A e \in Clients \ {k} :
         /\ \A i \in 1..Len(tracked'[e]) :
              /\ call'[tracked'[e][i]].client = e
              /\ call'[tracked'[e][i]].at \in Polling \cup {"done"}
              /\ tracked'[e][i] \notin stray'
         /\ \A i, j \in 1..Len(tracked'[e]) : tracked'[e][i] = tracked'[e][j] => i = j
  <2> TAKE e \in Clients \ {k}
  <2>1. tracked'[e] = tracked[e]
    BY <1>3
  <2>2. ASSUME NEW i \in 1..Len(tracked[e])
        PROVE  /\ call'[tracked[e][i]].client = e
               /\ call'[tracked[e][i]].at \in Polling \cup {"done"}
               /\ tracked[e][i] \notin stray'
    <3>1. tracked[e][i] \in Calls
      BY <1>1, ElementOfSeq DEF Calls
    <3>2. call[tracked[e][i]].client = e
      BY DEF ClientInv, TrackedFit
    <3> QED BY <3>1, <3>2 DEF ClientInv, TrackedFit
  <2> QED BY <2>1, <2>2 DEF ClientInv, TrackedFit
<1>17. TrackedFit'
  BY <1>14, <1>15, <1>16 DEF TrackedFit, g
<1>18. ASSUME NEW i \in 1..Len(t)
       PROVE  \E p \in 1..Len(g) : g[p] = t[i] /\ p <= Len(g) - (Len(t) - i)
  <2>1. CASE i = Len(t)
    <3>1. Len(g) \in 1..Len(g) /\ Len(g) <= Len(g) - (Len(t) - i)
      BY <1>6, <1>8, <2>1
    <3> QED BY <1>5, <1>6, <2>1, <3>1
  <2>2. CASE i # Len(t)
    <3>1. i \in 1..(Len(t) - 1) /\ i + o \in 1..Len(q)
      BY <1>4, <1>8, <2>2
    <3>2. t[i] = q[i + o]
      BY <1>4, <3>1
    <3>3. PICK p \in 1..Len(h) : h[p] = q[i + o] /\ p <= Len(h) - (Len(q) - (i + o))
      BY <1>11, <3>1
    <3>4. p \in 1..Len(g) /\ p <= Len(g) - (Len(t) - i)
      BY <1>4, <1>6, <1>8, <3>3
    <3> QED BY <1>6, <3>2, <3>3, <3>4
  <2> QED BY <2>1, <2>2
<1>19. KnownFit'
  <2>1. \A e \in Clients \ {k} : known'[e] = known[e] /\ tracked'[e] = tracked[e]
    BY <1>3
  <2> QED BY <1>5, <1>18, <2>1 DEF ClientInv, KnownFit, t, g
<1>20. \A i \in 1..Len(t) : t[i] = c \/ \E j \in 1..Len(q) : t[i] = q[j]
  <2> TAKE i \in 1..Len(t)
  <2>1. i = Len(t) \/ (i \in 1..(Len(t) - 1) /\ i + o \in 1..Len(q))
    BY <1>4, <1>8
  <2> QED BY <1>4, <1>5, <2>1
<1>21. Range(t) \subseteq Range(q) \cup {c}
  <2>1. DOMAIN t = 1..Len(t) /\ DOMAIN q = 1..Len(q)
    BY <1>2, <1>5, LenProperties
  <2> QED BY <1>20, <2>1 DEF Range
<1>22. ASSUME NEW d \in Leaves, call'[d].at \in Polling, call'[d].client = k,
              NEW j \in 1..Len(g), d = g[j], j > Len(g) - MaxKnown
       PROVE  d \in Range(t)
  <2>0. DOMAIN t = 1..Len(t) /\ DOMAIN q = 1..Len(q) /\ Len(t) \in 1..Len(t)
    BY <1>2, <1>5, <1>8, LenProperties
  <2>1. CASE d = c
    BY <1>5, <2>0, <2>1 DEF Range
  <2>2. CASE d # c
    <3>1. j \in 1..Len(h) /\ h[j] = d
      BY <1>6, <1>13, <1>22, <2>2
    <3>2. j > Len(h) - MaxKnown
      BY <1>6, <1>8, <1>22
    <3>3. call[d].at \in Polling /\ call[d].client = k /\ d \in Calls
      BY <1>9, <1>22, <2>2, <3>1
    <3>4. d \in Newest(k)
      BY <3>1, <3>2 DEF Newest, h
    <3>5. d \in Range(q)
      BY <3>3, <3>4 DEF ClientInv, PolledIsKnown, Known, q
    <3>6. PICK i \in 1..Len(q) : q[i] = d
      BY <2>0, <3>5 DEF Range
    <3>7. PICK p \in 1..Len(h) : h[p] = q[i] /\ p <= Len(h) - (Len(q) - i)
      BY <1>11
    <3>8. p = j
      BY <1>10, <3>1, <3>6, <3>7
    <3>9. i - o \in 1..(Len(t) - 1)
      BY <1>4, <1>6, <1>8, <1>22, <3>7, <3>8
    <3>10. t[i - o] = q[(i - o) + o] /\ (i - o) + o = i /\ i - o \in 1..Len(t)
      BY <1>4, <1>8, <3>9
    <3> QED BY <2>0, <3>6, <3>10 DEF Range
  <2> QED BY <2>1, <2>2
<1>23. PolledIsKnown'
  <2> SUFFICES ASSUME NEW d \in Leaves, NEW e, e = call'[d].client,
                      call'[d].at \in Polling, e \notin gone', d \in Newest(e)'
               PROVE  d \in Known(e)'
    BY DEF PolledIsKnown
  <2>1. CASE e = k
    <3>1. PICK j \in 1..Len(g) : j > Len(g) - MaxKnown /\ d = g[j]
      BY <2>1 DEF Newest, g
    <3>2. d \in Range(t)
      BY <1>22, <2>1, <3>1
    <3> QED BY <2>1, <3>2 DEF Known, t
  <2>2. CASE e # k
    <3>1. d # c /\ d \in Calls
      BY <2>2 DEF Calls
    <3>2. call'[d] = call[d]
      BY <3>1
    <3>3. e \in Clients
      BY <2>2, <3>1, <3>2 DEF ClientInv, CallsFit, ClientTypeOK, CallRecords, Polling
    <3>4. known'[e] = known[e] /\ tracked'[e] = tracked[e]
      BY <1>3, <2>2, <3>3
    <3> QED BY <3>2, <3>4 DEF ClientInv, PolledIsKnown, Newest, Known
  <2> QED BY <2>1, <2>2
<1> QED BY <1>3, <1>7, <1>17, <1>19, <1>21, <1>23 DEF t, q

\* A run that starts is tracked, and cancelled at once if its time is over.
LEMMA StartedKeeps ==
  ASSUME ClientInv, NEW c \in Leaves, Started(c)
  PROVE  ClientInv'
<1> DEFINE k == call[c].client
           e == IF c \in late THEN "done" ELSE "sleeping"
           x == IF c \in late THEN "timeout" ELSE call[c].res
           r == [at |-> e, client |-> k, res |-> x]
<1>0. /\ c \in Calls /\ call[c].at = "starting" /\ call[c].at \in Waiting /\ call[c] \in CallRecords
      /\ "sleeping" \in Steps /\ "done" \in Steps /\ "timeout" \in Results
  BY DEF Started, Waiting, Calls, ClientInv, ClientTypeOK, CallRecords, Steps, Results
<1>1. k \in Clients /\ k \notin gone /\ call[c].res = "none"
  BY <1>0 DEF ClientInv, CallsFit, CallRecords
<1>2. Sets(c, r) /\ r \in CallRecords
  <2>1. CASE c \in late
    BY <1>0, <2>1, EndsSets DEF Started, GoesOn, TimesOut, ClientInv, CallRecords
  <2>2. CASE c \notin late
    BY <1>0, <2>2, MovesSets DEF Started, GoesOn, ClientInv, CallRecords
  <2> QED BY <2>1, <2>2
<1>3. /\ call' \in [Calls -> CallRecords] /\ call'[c] = r
      /\ \A d \in Calls \ {c} : call'[d] = call[d]
  BY <1>2 DEF Sets
<1>4. /\ UNCHANGED <<late, live, made, gone, stray>> /\ Tracks(k, c)
      /\ runs' = [runs EXCEPT ![c] = "going"]
  BY DEF Started, clients
<1>5. doomed' = IF c \in late THEN doomed \cup Range(known'[k]) ELSE doomed
  BY <1>1 DEF Started, GoesOn, TimesOut, CancelKnownRuns
<1> HIDE DEF r, k
<1>6. r.at = e /\ r.client = k /\ r.res = x
  BY DEF r
<1>7. /\ TrackedFit' /\ KnownFit' /\ PolledIsKnown'
      /\ known' \in [Clients -> Seq(Leaves)] /\ tracked' \in [Clients -> Seq(Leaves)]
      /\ \A f \in Clients \ {k} : known'[f] = known[f]
      /\ Range(known'[k]) \subseteq Range(known[k]) \cup {c}
  BY <1>0, <1>1, <1>3, <1>4, <1>6, TracksKeep DEF k
<1>8. \A d \in Range(known[k]) : d \in Leaves /\ call[d].client = k
  BY <1>1, KnownIsTracked DEF Known
<1>9. /\ runs \in [Leaves -> {"none", "going", "completed", "failed", "cancelled"}]
      /\ doomed \subseteq Leaves
  BY DEF ClientInv, ClientTypeOK
<1>10. ClientTypeOK'
  <2>1. runs' \in [Leaves -> {"none", "going", "completed", "failed", "cancelled"}]
    BY <1>4, <1>9
  <2>2. doomed' \subseteq Leaves
    BY <1>5, <1>7, <1>8, <1>9
  <2> QED BY <1>3, <1>4, <1>7, <2>1, <2>2 DEF ClientInv, ClientTypeOK, CallRecords
<1>11. CallsFit'
  <2>1. /\ r.at \notin Waiting /\ r.at # "idle" /\ r.client # Nobody
        /\ r.res # "none" => r.at = "done"
    BY <1>1, <1>6 DEF Waiting, Clients, Nobody, k
  <2>2. c \notin stray
    BY <1>0 DEF ClientInv, CallsFit
  <2> QED BY <1>3, <1>4, <2>1, <2>2 DEF ClientInv, ClientTypeOK, CallsFit, Calls
<1>12. CancelIsForTimeout'
  <2>1. \A d \in Calls : call[d].at = "done" => call'[d] = call[d]
    BY <1>0, <1>3
  <2>2. \A d \in Leaves : call'[d].client = call[d].client
    BY <1>3, <1>6 DEF Calls, k
  <2>4. ASSUME NEW d \in doomed', d \notin doomed
        PROVE  call'[c].client = call'[d].client /\ call'[c].res = "timeout"
    <3>1. c \in late /\ d \in Range(known[k]) \cup {c}
      BY <1>5, <1>7, <2>4
    <3>2. call[d].client = k /\ d \in Leaves
      BY <1>8, <3>1 DEF k
    <3> QED BY <1>3, <1>6, <2>2, <3>1, <3>2
  <2> QED BY <1>0, <2>1, <2>2, <2>4, ReasonsStay
<1>13. TimedOutIsCancelled'
  <2> SUFFICES ASSUME NEW d \in Leaves, call'[d].res = "timeout", runs'[d] = "going",
                      NEW f, f = call'[d].client, f # Nobody, d \in Range(known'[f])
               PROVE  d \in doomed'
    BY DEF TimedOutIsCancelled, Known
  <2>1. CASE d = c
    <3>1. c \in late
      BY <1>1, <1>3, <1>6, <2>1
    <3>2. f = k
      BY <1>3, <1>6, <2>1
    <3> QED BY <1>5, <2>1, <3>1, <3>2
  <2>2. CASE d # c
    <3>1. call'[d] = call[d] /\ runs[d] = "going"
      BY <1>3, <1>4, <1>9, <2>2 DEF Calls
    <3>2. f \in Clients
      BY <3>1 DEF ClientInv, ClientTypeOK, Calls
    <3>3. d \in Known(f)
      BY <1>7, <2>2, <3>2 DEF Known
    <3>4. d \in doomed
      BY <3>1, <3>3 DEF ClientInv, TimedOutIsCancelled
    <3> QED BY <1>5, <3>4
  <2> QED BY <2>1, <2>2
<1> QED BY <1>7, <1>10, <1>11, <1>12, <1>13 DEF ClientInv

\* Removing one element of a sequence.
LEMMA RemoveAtGives ==
  ASSUME NEW S, NEW q \in Seq(S), NEW i \in 1..Len(q)
  PROVE  /\ RemoveAt(q, i) \in Seq(S)
         /\ Len(RemoveAt(q, i)) = Len(q) - 1
         /\ \A j \in 1..(Len(q) - 1) : RemoveAt(q, i)[j] = q[IF j < i THEN j ELSE j + 1]
<1> DEFINE a == SubSeq(q, 1, i - 1)
           b == SubSeq(q, i + 1, Len(q))
<1>1. Len(q) \in Nat /\ i \in 1..Len(q) /\ i - 1 \in Nat
  BY LenProperties
<1>2. /\ a \in Seq(S) /\ Len(a) = i - 1
      /\ \A j \in 1..(i - 1) : a[j] = q[j]
  BY <1>1, SubSeqProperties
<1>3. /\ b \in Seq(S) /\ Len(b) = Len(q) - i
      /\ \A j \in 1..(Len(q) - i) : b[j] = q[i + j]
  BY <1>1, SubSeqProperties
<1>4. RemoveAt(q, i) = a \o b
  BY DEF RemoveAt
<1> HIDE DEF a, b
<1>5. /\ a \o b \in Seq(S) /\ Len(a \o b) = Len(q) - 1
      /\ \A j \in 1..(Len(q) - 1) : (a \o b)[j] = IF j <= i - 1 THEN a[j] ELSE b[j - (i - 1)]
  <2>1. /\ a \o b \in Seq(S) /\ Len(a \o b) = Len(a) + Len(b)
        /\ \A j \in 1..(Len(a) + Len(b)) : (a \o b)[j] = IF j <= Len(a) THEN a[j] ELSE b[j - Len(a)]
    BY <1>2, <1>3, ConcatProperties
  <2>2. Len(a) + Len(b) = Len(q) - 1
    BY <1>1, <1>2, <1>3
  <2> QED BY <1>2, <2>1, <2>2
<1>6. ASSUME NEW j \in 1..(Len(q) - 1)
      PROVE  (a \o b)[j] = q[IF j < i THEN j ELSE j + 1]
  <2>1. CASE j < i
    BY <1>1, <1>2, <1>5, <2>1
  <2>2. CASE ~(j < i)
    <3>1. j - (i - 1) \in 1..(Len(q) - i) /\ i + (j - (i - 1)) = j + 1 /\ ~(j <= i - 1)
      BY <1>1, <2>2
    <3> QED BY <1>3, <1>5, <2>2, <3>1
  <2> QED BY <2>1, <2>2
<1> QED BY <1>4, <1>5, <1>6

\* The lists after one run of client k has left its list.
LEMMA ForgetsKeep ==
  ASSUME ClientInv, NEW k \in Clients, NEW n \in 1..Len(known[k]), NEW c, c = known[k][n],
         known' = [known EXCEPT ![k] = RemoveAt(@, n)], UNCHANGED <<tracked, gone>>,
         CallsGoOn,
         \A d \in Leaves : call'[d].at \in Polling =>
           d # c /\ call[d].at \in Polling /\ call'[d].client = call[d].client
  PROVE  /\ TrackedFit' /\ KnownFit' /\ PolledIsKnown'
         /\ known' \in [Clients -> Seq(Leaves)]
         /\ \A e \in Clients : Range(known'[e]) \subseteq Range(known[e])
<1> DEFINE q == known[k]
           t == known'[k]
           h == tracked[k]
<1>1. known \in [Clients -> Seq(Leaves)] /\ tracked \in [Clients -> Seq(Leaves)]
  BY DEF ClientInv, ClientTypeOK
<1>2. q \in Seq(Leaves) /\ h \in Seq(Leaves)
  BY <1>1
<1>3. t = RemoveAt(q, n) /\ \A e \in Clients \ {k} : known'[e] = known[e]
  BY <1>1
<1>4. known' = [known EXCEPT ![k] = t]
  BY <1>3
<1>5. \A i \in 1..Len(q) : \E p \in 1..Len(h) : h[p] = q[i] /\ p <= Len(h) - (Len(q) - i)
  BY DEF ClientInv, KnownFit
<1>6. Len(q) <= MaxKnown /\ MaxKnown \in Nat /\ k \notin gone
  <2>1. q # <<>>
    BY <1>2, EmptySeq
  <2> QED BY <2>1, LeafClientAssumption DEF ClientInv, KnownFit
<1> HIDE DEF q, t, h
<1>7. n \in 1..Len(q) /\ c = q[n]
  BY DEF q
<1>8. /\ t \in Seq(Leaves) /\ Len(t) = Len(q) - 1
      /\ \A j \in 1..(Len(q) - 1) : t[j] = q[IF j < n THEN j ELSE j + 1]
  BY <1>2, <1>3, <1>7, RemoveAtGives
<1>9. Len(q) \in Nat /\ Len(t) \in Nat /\ Len(h) \in Nat /\ DOMAIN t = 1..Len(t) /\ DOMAIN q = 1..Len(q)
  BY <1>2, <1>8, LenProperties
<1>10. known' \in [Clients -> Seq(Leaves)]
  BY <1>1, <1>4, <1>8
<1>11. ASSUME NEW i \in 1..Len(t)
       PROVE  \E p \in 1..Len(h) : h[p] = t[i] /\ p <= Len(h) - (Len(t) - i)
  <2>1. CASE i < n
    <3>1. i \in 1..Len(q) /\ t[i] = q[i]
      BY <1>7, <1>8, <1>9, <2>1
    <3>2. PICK p \in 1..Len(h) : h[p] = q[i] /\ p <= Len(h) - (Len(q) - i)
      BY <1>5, <3>1
    <3>3. p <= Len(h) - (Len(t) - i)
      BY <1>8, <1>9, <3>2
    <3> QED BY <3>1, <3>2, <3>3
  <2>2. CASE ~(i < n)
    <3>1. i + 1 \in 1..Len(q) /\ t[i] = q[i + 1]
      BY <1>7, <1>8, <1>9, <2>2
    <3>2. PICK p \in 1..Len(h) : h[p] = q[i + 1] /\ p <= Len(h) - (Len(q) - (i + 1))
      BY <1>5, <3>1
    <3>3. p <= Len(h) - (Len(t) - i)
      BY <1>8, <1>9, <3>2
    <3> QED BY <3>1, <3>2, <3>3
  <2> QED BY <2>1, <2>2
<1>12. Len(t) <= MaxKnown
  BY <1>6, <1>8, <1>9
<1>13. KnownFit'
  <2> SUFFICES ASSUME NEW e \in Clients
               PROVE  /\ e \in gone => known'[e] = <<>>
                      /\ Len(known'[e]) <= MaxKnown
                      /\ \A i \in 1..Len(known'[e]) : \E p \in 1..Len(tracked[e]) :
                           /\ tracked[e][p] = known'[e][i]
                           /\ p <= Len(tracked[e]) - (Len(known'[e]) - i)
    BY DEF KnownFit
  <2>1. CASE e = k
    BY <1>6, <1>11, <1>12, <2>1 DEF t, h
  <2>2. CASE e # k
    BY <1>3, <2>2 DEF ClientInv, KnownFit
  <2> QED BY <2>1, <2>2
<1>14. Range(t) \subseteq Range(q)
  <2>1. \A i \in 1..Len(t) : \E j \in 1..Len(q) : t[i] = q[j]
    <3> TAKE i \in 1..Len(t)
    <3>1. (IF i < n THEN i ELSE i + 1) \in 1..Len(q)
      BY <1>7, <1>8, <1>9
    <3> QED BY <1>8, <3>1
  <2> QED BY <1>9, <2>1 DEF Range
<1>15. \A e \in Clients : Range(known'[e]) \subseteq Range(known[e])
  BY <1>3, <1>14 DEF t, q
<1>16. TrackedFit'
  <2>1. ASSUME NEW e \in Clients, NEW i \in 1..Len(tracked[e])
        PROVE  /\ call'[tracked[e][i]].client = e
               /\ call'[tracked[e][i]].at \in Polling \cup {"done"}
               /\ tracked[e][i] \notin stray'
    <3>1. tracked[e][i] \in Calls
      BY <1>1, ElementOfSeq DEF Calls
    <3> QED BY <3>1 DEF ClientInv, TrackedFit, CallsGoOn
  <2> QED BY <2>1 DEF ClientInv, TrackedFit
<1>17. ASSUME NEW d \in Range(q), d # c
       PROVE  d \in Range(t)
  <2>1. PICK j \in 1..Len(q) : q[j] = d
    BY <1>9 DEF Range
  <2>2. CASE j < n
    <3>1. j \in 1..Len(t) /\ t[j] = q[j]
      BY <1>7, <1>8, <1>9, <2>2
    <3> QED BY <1>9, <2>1, <3>1 DEF Range
  <2>3. CASE j > n
    <3>1. j - 1 \in 1..Len(t) /\ t[j - 1] = q[(j - 1) + 1] /\ (j - 1) + 1 = j
      BY <1>7, <1>8, <1>9, <2>3
    <3> QED BY <1>9, <2>1, <3>1 DEF Range
  <2>4. j # n
    BY <1>7, <1>17, <2>1
  <2> QED BY <1>7, <1>9, <2>2, <2>3, <2>4
<1>18. PolledIsKnown'
  <2> SUFFICES ASSUME NEW d \in Leaves, NEW e, e = call'[d].client,
                      call'[d].at \in Polling, e \notin gone, d \in Newest(e)
               PROVE  d \in Range(known'[e])
    BY DEF PolledIsKnown, Known, Newest
  <2>1. d # c /\ d \in Range(known[e])
    BY DEF ClientInv, PolledIsKnown, Known
  <2>2. CASE e = k
    BY <1>17, <2>1, <2>2 DEF q, t
  <2>3. CASE e # k
    <3>1. known'[e] = known[e]
      <4>0. d \in Calls
        BY DEF Calls
      <4>1. call[d].at \in Polling /\ e = call[d].client
        OBVIOUS
      <4>2. e \in Clients \cup {Nobody}
        BY <4>0, <4>1 DEF ClientInv, ClientTypeOK
      <4>3. call[d].at # "idle"
        BY <4>1 DEF Polling
      <4>4. e # Nobody
        BY <4>0, <4>1, <4>3 DEF ClientInv, CallsFit
      <4>5. e \in Clients
        BY <4>2, <4>4
      <4> QED BY <1>3, <2>3, <4>5
    <3> QED BY <2>1, <3>1
  <2> QED BY <2>2, <2>3
<1> QED BY <1>10, <1>13, <1>15, <1>16, <1>18

\* A result that is read, and forgotten with its run, keeps the invariant.
LEMMA ResultKeeps ==
  ASSUME ClientInv, NEW c \in Leaves, Result(c)
  PROVE  ClientInv'
<1> DEFINE k == call[c].client
<1>1. /\ UNCHANGED <<late, live, made, gone, runs, stray, doomed, tracked>>
      /\ c \in Calls /\ call[c].at = "fetching" /\ "fetching" \in Waiting /\ "fetching" \in Polling
      /\ "ok" \in Results /\ Errors \subseteq Results \ {"timeout"}
  BY DEF Result, clients, runtime, Waiting, Polling, Results, Errors, Calls
<1>2. k \in Clients
  BY <1>1 DEF ClientInv, ClientTypeOK, CallsFit
<1>3. CASE (\E res \in Errors : Ends(c, res)) /\ UNCHANGED known
  BY <1>1, <1>3, EndedAnswers
<1>4. CASE Ends(c, "ok") /\ c \notin Known(k) /\ UNCHANGED known
  BY <1>1, <1>4, EndedAnswers
<1>5. ASSUME Ends(c, "ok"), NEW n \in 1..Len(known[k]), known[k][n] = c,
             known' = [known EXCEPT ![k] = RemoveAt(@, n)]
      PROVE  ClientInv'
  <2> DEFINE r == [at |-> "done", client |-> k, res |-> "ok"]
  <2>1. Sets(c, r)
    BY <1>1, <1>5, EndsSets DEF ClientInv
  <2>2. /\ call' \in [Calls -> CallRecords] /\ call'[c] = r
        /\ \A d \in Calls \ {c} : call'[d] = call[d]
    BY <2>1 DEF Sets
  <2>3. /\ call'[c].at = "done" /\ call'[c].client = k /\ call'[c].res = "ok"
        /\ "done" \notin Waiting /\ "done" \notin Polling
    BY <2>2 DEF Waiting, Polling
  <2>4. CallsGoOn
    BY <1>1, <2>2, <2>3 DEF CallsGoOn
  <2>5. \A d \in Leaves : call'[d].at \in Polling =>
          d # c /\ call[d].at \in Polling /\ call'[d].client = call[d].client
    BY <2>2, <2>3 DEF Calls
  <2>6. /\ TrackedFit' /\ KnownFit' /\ PolledIsKnown'
        /\ known' \in [Clients -> Seq(Leaves)]
        /\ \A e \in Clients : Range(known'[e]) \subseteq Range(known[e])
    BY <1>1, <1>2, <1>5, <2>4, <2>5, ForgetsKeep
  <2>7. ClientTypeOK'
    BY <1>1, <2>2, <2>6 DEF ClientInv, ClientTypeOK, CallRecords
  <2>8. CallsFit'
    <3>1. ASSUME NEW d \in Calls
          PROVE  /\ call'[d].at = "idle" <=> call'[d].client = Nobody
                 /\ call'[d].at \in Waiting => call'[d].client \notin gone
                 /\ call'[d].res # "none" => call'[d].at = "done"
      <4>1. CASE d = c
        BY <1>2, <2>3, <4>1, LeafClientAssumption DEF Nobody, Clients
      <4>2. CASE d # c
        BY <2>2, <4>2 DEF ClientInv, CallsFit
      <4> QED BY <4>1, <4>2
    <3>2. \A d \in stray : call'[d].at = "done"
      <4>1. stray \subseteq Calls
        BY DEF ClientInv, ClientTypeOK, Calls
      <4> QED BY <2>2, <2>3, <4>1 DEF ClientInv, CallsFit
    <3> QED BY <1>1, <3>1, <3>2 DEF ClientInv, CallsFit
  <2>9. CancelIsForTimeout'
    <3>1. \A d \in Calls : call[d].at = "done" => call'[d] = call[d]
      BY <1>1, <2>2
    <3>2. \A d \in Leaves : call'[d].client = call[d].client
      BY <2>2, <2>3 DEF Calls
    <3> QED BY <1>1, <3>1, <3>2, ReasonsStay
  <2>10. TimedOutIsCancelled'
    <3> SUFFICES ASSUME NEW d \in Leaves, call'[d].res = "timeout", runs[d] = "going",
                        NEW f, f = call'[d].client, f # Nobody, d \in Range(known'[f])
                 PROVE  d \in doomed
      BY <1>1 DEF TimedOutIsCancelled, Known
    <3>1. d # c /\ d \in Calls
      BY <2>3 DEF Calls
    <3>2. call'[d] = call[d]
      BY <2>2, <3>1
    <3>3. f \in Clients
      BY <3>1, <3>2 DEF ClientInv, ClientTypeOK
    <3>4. d \in Known(f)
      BY <2>6, <3>3 DEF Known
    <3> QED BY <3>2, <3>4 DEF ClientInv, TimedOutIsCancelled
  <2> QED BY <2>6, <2>7, <2>8, <2>9, <2>10 DEF ClientInv
<1> QED BY <1>3, <1>4, <1>5 DEF Result, Forgets

-----------------------------------------------------------------------------
(* Steps that answer nobody.                                               *)

\* A call that begins is on the provider, and nothing is known of it.
LEMMA BeginKeeps ==
  ASSUME ClientInv, NEW c \in Calls, Begin(c)
  PROVE  ClientInv'
<1> DEFINE r == [at |-> "negotiating", client |-> live, res |-> "none"]
<1>1. /\ UNCHANGED <<late, live, made, gone, known, runs, stray, doomed, tracked>>
      /\ call[c].at = "idle" /\ live # Nobody
  BY DEF Begin, clients, runtime
<1>2. live \in Clients /\ live \notin gone
  <2>1. made \in 0..MaxClients /\ live \in 0..made /\ MaxClients \in Nat
    BY LeafClientAssumption DEF ClientInv, ClientTypeOK
  <2>2. live \in 1..MaxClients
    BY <1>1, <2>1 DEF Nobody
  <2> QED BY <2>2 DEF ClientInv, CallsFit, Clients
<1>3. /\ "negotiating" \in Steps /\ "negotiating" \in Waiting /\ "none" \in Results
      /\ "negotiating" \notin Polling \cup {"done"} /\ "idle" \notin Polling \cup {"done"}
  BY DEF Steps, Waiting, Polling, Results
<1>4. r \in CallRecords
  BY <1>2, <1>3 DEF CallRecords
<1>5. Sets(c, r)
  BY <1>4, SetCall DEF Begin, ClientInv
<1>6. /\ call' \in [Calls -> CallRecords] /\ call'[c] = r
      /\ \A d \in Calls \ {c} : call'[d] = call[d]
  BY <1>5 DEF Sets
<1>7. call'[c].at = "negotiating" /\ call'[c].client = live /\ call'[c].res = "none"
  BY <1>6
<1>8. CallsGoOn
  BY <1>1, <1>3, <1>6 DEF CallsGoOn
<1>9. \A d \in Leaves : call'[d].at \in Polling =>
        call[d].at \in Polling /\ call'[d].client = call[d].client
  BY <1>3, <1>6, <1>7 DEF Calls
<1>10. TrackedFit' /\ KnownFit' /\ PolledIsKnown'
  BY <1>1, <1>8, <1>9, ListsStay, PolledStay
<1>11. ClientTypeOK'
  BY <1>1, <1>6 DEF ClientInv, ClientTypeOK, CallRecords
<1>12. CallsFit'
  <2>1. ASSUME NEW d \in Calls
        PROVE  /\ call'[d].at = "idle" <=> call'[d].client = Nobody
               /\ call'[d].at \in Waiting => call'[d].client \notin gone
               /\ call'[d].res # "none" => call'[d].at = "done"
    <3>1. CASE d = c
      BY <1>1, <1>2, <1>7, <3>1
    <3>2. CASE d # c
      BY <1>6, <3>2 DEF ClientInv, CallsFit
    <3> QED BY <3>1, <3>2
  <2>2. \A d \in stray : call'[d].at = "done"
    <3>1. stray \subseteq Calls
      BY DEF ClientInv, ClientTypeOK, Calls
    <3> QED BY <1>1, <1>6, <3>1 DEF ClientInv, CallsFit
  <2> QED BY <1>1, <2>1, <2>2 DEF ClientInv, CallsFit
<1>13. CancelIsForTimeout'
  <2>1. \A d \in Calls : call[d].at = "done" => call'[d] = call[d]
    BY <1>1, <1>6
  <2>2. \A d \in Leaves : call'[d].client = call[d].client \/ call[d].at = "idle"
    BY <1>1, <1>6 DEF Calls
  <2> QED BY <1>1, <2>1, <2>2, ReasonsStay
<1>14. TimedOutIsCancelled'
  <2>1. \A d \in Leaves : call'[d].res = "timeout" => call'[d] = call[d]
    BY <1>6, <1>7 DEF Calls
  <2> QED BY <1>1, <2>1 DEF ClientInv, TimedOutIsCancelled, Known
<1> QED BY <1>10, <1>11, <1>12, <1>13, <1>14 DEF ClientInv

LEMMA DeadlineKeeps ==
  ASSUME ClientInv, NEW c \in Calls, Deadline(c)
  PROVE  ClientInv'
<1>1. /\ UNCHANGED <<call, live, made, gone, known, runs, stray, doomed, tracked>>
      /\ late' = late \cup {c} /\ c \in Leaves
  BY DEF Deadline, clients, runtime
<1>2. ClientTypeOK'
  BY <1>1 DEF ClientInv, ClientTypeOK
<1>3. CallsFit' /\ TrackedFit' /\ KnownFit'
  BY <1>1 DEF ClientInv, CallsFit, TrackedFit, KnownFit
<1>4. TimedOutIsCancelled' /\ CancelIsForTimeout' /\ PolledIsKnown'
  BY <1>1 DEF ClientInv, TimedOutIsCancelled, CancelIsForTimeout, PolledIsKnown, Known, Newest
<1> QED BY <1>2, <1>3, <1>4 DEF ClientInv

\* What the runtime does of itself changes no call and no list: a run that it
\* ends was going, one that it cancels was doomed, one that it starts had no
\* call that was told of it.
LEMMA RuntimeKeeps ==
  ASSUME ClientInv, NEW c \in Leaves, RuntimeStep(c)
  PROVE  ClientInv'
<1> USE DEF ClientInv
<1>1. UNCHANGED <<call, late, live, made, gone, known, tracked>>
  BY DEF RuntimeStep, StartsStray, RunEnds, CancelAndSettle, clients
<1>2. /\ stray' \subseteq stray /\ doomed' \subseteq doomed
      /\ runs' \in [Leaves -> {"none", "going", "completed", "failed", "cancelled"}]
      /\ \A d \in Leaves : d \in doomed => d \in doomed' \/ runs'[d] # "going"
      /\ \A d \in Leaves : runs'[d] = "going" => runs[d] = "going" \/ d \in stray
  BY DEF RuntimeStep, StartsStray, RunEnds, CancelAndSettle, ClientTypeOK
<1>3. ClientTypeOK'
  BY <1>1, <1>2 DEF ClientTypeOK
<1>4. CallsFit' /\ KnownFit'
  BY <1>1, <1>2 DEF CallsFit, KnownFit
<1>5. TrackedFit'
  BY <1>1, <1>2 DEF TrackedFit
<1>6. PolledIsKnown'
  BY <1>1 DEF PolledIsKnown, Known, Newest
<1>7. CancelIsForTimeout'
  BY <1>1, <1>2, ReasonsStay
<1>8. TimedOutIsCancelled'
  <2> SUFFICES ASSUME NEW d \in Leaves, call[d].res = "timeout", runs'[d] = "going",
                      call[d].client # Nobody, d \in Known(call[d].client)
               PROVE  d \in doomed'
    BY <1>1 DEF TimedOutIsCancelled, Known
  <2>1. call[d].client \in Clients
    BY DEF ClientTypeOK, Calls
  <2>2. d \notin stray
    BY <2>1, KnownIsTracked
  <2>3. d \in doomed
    BY <1>2, <2>2 DEF TimedOutIsCancelled
  <2> QED BY <1>2, <2>3
<1> QED BY <1>3, <1>4, <1>5, <1>6, <1>7, <1>8

-----------------------------------------------------------------------------
(* A provider replaced.                                                    *)

\* The next provider is none, or a client that was never there.
LEMMA NextProvider ==
  ASSUME ClientInv, Rebind
  PROVE  /\ made' \in 0..MaxClients /\ live' \in 0..made' /\ made <= made'
         /\ live' \notin gone \cup ({live} \ {Nobody})
<1>1. /\ made \in 0..MaxClients /\ live \in 0..made /\ gone \subseteq 1..made /\ MaxClients \in Nat
      /\ Nobody = 0
  BY LeafClientAssumption DEF ClientInv, ClientTypeOK, Nobody
<1>2. \/ live' = Nobody /\ made' = made
      \/ made < MaxClients /\ made' = made + 1 /\ live' = made + 1
  BY DEF Rebind
<1>3. CASE live' = Nobody /\ made' = made
  <2>1. live' \notin gone
    BY <1>3 DEF ClientInv, CallsFit
  <2>2. made' \in 0..MaxClients /\ live' \in 0..made' /\ made <= made'
    BY <1>1, <1>3
  <2> QED BY <1>3, <2>1, <2>2
<1>4. CASE made < MaxClients /\ made' = made + 1 /\ live' = made + 1
  <2>1. \A g \in gone \cup {live} : g # made + 1
    BY <1>1
  <2>2. made' \in 0..MaxClients /\ live' \in 0..made' /\ made <= made'
    BY <1>1, <1>4
  <2> QED BY <1>4, <2>1, <2>2
<1> QED BY <1>2, <1>3, <1>4

\* Disposal ends the calls that wait, empties the list and cancels nothing.
LEMMA DisposeKeeps ==
  ASSUME ClientInv, Rebind, live # Nobody
  PROVE  ClientInv'
<1> DEFINE k == live
<1>1. /\ Dispose(k) /\ UNCHANGED <<late, runs, doomed, tracked>>
      /\ gone' = gone \cup {k} /\ stray' = stray \cup Strays(Waiters(k))
  BY DEF Rebind, Dispose
<1>2. k \in Clients /\ k \notin gone
  <2>1. made \in 0..MaxClients /\ live \in 0..made /\ MaxClients \in Nat
    BY LeafClientAssumption DEF ClientInv, ClientTypeOK
  <2>2. live \in 1..MaxClients
    BY <2>1 DEF Nobody
  <2> QED BY <2>2 DEF ClientInv, CallsFit, Clients
<1>3. call \in [Calls -> CallRecords] /\ stray \subseteq Leaves /\ Leaves \subseteq Calls
  BY DEF ClientInv, ClientTypeOK, CallRecords, Calls
<1>4. ASSUME NEW d \in Calls
      PROVE  /\ d \in Waiters(k) =>
                  /\ call'[d].at = "done" /\ call'[d].client = k /\ call'[d].res = "disposed"
                  /\ call'[d] \in CallRecords /\ call[d].client = k /\ call[d].at \in Waiting
             /\ d \notin Waiters(k) => call'[d] = call[d]
  <2>1. "done" \in Steps /\ "disposed" \in Results
    BY DEF Steps, Results
  <2>2. call' = [c \in Calls |->
                   IF c \in Waiters(k)
                   THEN [at |-> "done", client |-> k, res |-> "disposed"] ELSE call[c]]
    BY <1>1 DEF Dispose
  <2>3. CASE d \in Waiters(k)
    <3>1. call'[d] = [at |-> "done", client |-> k, res |-> "disposed"]
      BY <2>2, <2>3
    <3>2. call[d].client = k /\ call[d].at \in Waiting
      BY <2>3 DEF Waiters
    <3> QED BY <1>2, <2>1, <2>3, <3>1, <3>2 DEF CallRecords
  <2>4. CASE d \notin Waiters(k)
    BY <2>2, <2>4
  <2> QED BY <2>3, <2>4
<1>5. call' \in [Calls -> CallRecords]
  <2>1. \A d \in Calls : call'[d] \in CallRecords
    BY <1>3, <1>4
  <2>2. call' = [d \in Calls |-> call'[d]]
    BY <1>1 DEF Dispose
  <2> QED BY <2>1, <2>2
<1>6. \A d \in Strays(Waiters(k)) : d \in Leaves /\ d \in Waiters(k) /\ call[d].at = "starting"
  BY DEF Strays
<1>7. known \in [Clients -> Seq(Leaves)] /\ tracked \in [Clients -> Seq(Leaves)]
  BY DEF ClientInv, ClientTypeOK
<1>8. /\ known' \in [Clients -> Seq(Leaves)] /\ known'[k] = <<>>
      /\ \A e \in Clients \ {k} : known'[e] = known[e]
  <2>1. <<>> \in Seq(Leaves)
    BY EmptySeq
  <2> QED BY <1>1, <1>2, <1>7, <2>1 DEF Dispose
<1>9. ClientTypeOK'
  <2>1. gone' \subseteq 1..made' /\ made' \in 0..MaxClients /\ live' \in 0..made'
    <3>1. made \in Int /\ made' \in Int /\ made <= made' /\ gone \subseteq 1..made /\ live \in 1..made
      BY NextProvider DEF ClientInv, ClientTypeOK, Nobody
    <3> QED BY <1>1, <3>1, NextProvider
  <2>2. stray' \subseteq Leaves
    BY <1>1, <1>3, <1>6
  <2> QED BY <1>1, <1>5, <1>8, <2>1, <2>2 DEF ClientInv, ClientTypeOK, CallRecords
<1>10. CallsFit'
  <2>1. live' \notin gone' /\ Nobody \notin gone'
    BY <1>1, NextProvider DEF ClientInv, CallsFit
  <2>2. \A d \in stray' : call'[d].at = "done"
    <3>1. ASSUME NEW d \in stray
          PROVE  call'[d].at = "done"
      <4>1. d \in Calls /\ call[d].at = "done"
        BY <1>3 DEF ClientInv, CallsFit
      <4> QED BY <1>4, <4>1
    <3>2. \A d \in Strays(Waiters(k)) : call'[d].at = "done"
      BY <1>3, <1>4, <1>6
    <3> QED BY <1>1, <3>1, <3>2
  <2>3. ASSUME NEW d \in Calls
        PROVE  /\ call'[d].at = "idle" <=> call'[d].client = Nobody
               /\ call'[d].at \in Waiting => call'[d].client \notin gone'
               /\ call'[d].res # "none" => call'[d].at = "done"
    <3>1. CASE d \in Waiters(k)
      <4>1. "done" \notin Waiting
        BY DEF Waiting
      <4> QED BY <1>4, <3>1, <4>1
    <3>2. CASE d \notin Waiters(k)
      <4>1. call'[d] = call[d]
        BY <1>4, <3>2
      <4>2. call[d].at \in Waiting => call[d].client # k
        BY <3>2 DEF Waiters
      <4> QED BY <1>1, <4>1, <4>2 DEF ClientInv, CallsFit
    <3> QED BY <3>1, <3>2
  <2> QED BY <2>1, <2>2, <2>3 DEF CallsFit
<1>11. TrackedFit'
  <2>1. ASSUME NEW e \in Clients, NEW i \in 1..Len(tracked[e])
        PROVE  /\ call'[tracked[e][i]].client = e
               /\ call'[tracked[e][i]].at \in Polling \cup {"done"}
               /\ tracked[e][i] \notin stray'
    <3>1. PICK d \in Leaves : d = tracked[e][i]
      BY <1>7, ElementOfSeq
    <3>2. call[d].client = e /\ call[d].at \in Polling \cup {"done"} /\ d \notin stray
      BY <3>1 DEF ClientInv, TrackedFit
    <3>3. d \in Calls
      BY <1>3
    <3>4. call'[d].client = e /\ call'[d].at \in Polling \cup {"done"}
      BY <1>4, <3>2, <3>3
    <3>5. call[d].at # "starting"
      BY <3>2 DEF Polling
    <3> QED BY <1>1, <1>6, <3>1, <3>2, <3>4, <3>5
  <2> QED BY <1>1, <2>1 DEF ClientInv, TrackedFit
<1>12. KnownFit'
  <2> SUFFICES ASSUME NEW e \in Clients
               PROVE  /\ e \in gone' => known'[e] = <<>>
                      /\ Len(known'[e]) <= MaxKnown
                      /\ \A i \in 1..Len(known'[e]) : \E p \in 1..Len(tracked[e]) :
                           /\ tracked[e][p] = known'[e][i]
                           /\ p <= Len(tracked[e]) - (Len(known'[e]) - i)
    BY <1>1 DEF KnownFit
  <2>1. CASE e = k
    <3>1. known'[e] = <<>> /\ Len(known'[e]) = 0 /\ MaxKnown \in Nat
      BY <1>8, <2>1, EmptySeq, LeafClientAssumption
    <3>2. 0 <= MaxKnown /\ 1..0 = {}
      BY <3>1
    <3>3. 1..Len(known'[e]) = {}
      BY <3>1, <3>2
    <3> QED BY <3>1, <3>2, <3>3
  <2>2. CASE e # k
    BY <1>1, <1>8, <2>2 DEF ClientInv, KnownFit
  <2> QED BY <2>1, <2>2
<1>13. CancelIsForTimeout'
  <2>1. \A d \in Calls : call[d].at = "done" => call'[d] = call[d]
    <3>1. "done" \notin Waiting
      BY DEF Waiting
    <3> QED BY <1>4, <3>1
  <2>2. \A d \in Leaves : call'[d].client = call[d].client
    BY <1>3, <1>4
  <2> QED BY <1>1, <2>1, <2>2, ReasonsStay
<1>14. TimedOutIsCancelled'
  <2> SUFFICES ASSUME NEW d \in Leaves, call'[d].res = "timeout", runs[d] = "going",
                      NEW f, f = call'[d].client, f # Nobody, d \in Range(known'[f])
               PROVE  d \in doomed
    BY <1>1 DEF TimedOutIsCancelled, Known
  <2>1. call'[d] = call[d] /\ d \in Calls
    BY <1>3, <1>4
  <2>2. f \in Clients
    BY <2>1 DEF ClientInv, ClientTypeOK
  <2>3. f # k
    <3>1. ASSUME f = k
          PROVE  FALSE
      <4>1. DOMAIN known'[f] = {}
        BY <1>8, <3>1
      <4> QED BY <4>1 DEF Range
    <3> QED BY <3>1
  <2>4. d \in Known(f)
    BY <1>8, <2>2, <2>3 DEF Known
  <2> QED BY <2>1, <2>4 DEF ClientInv, TimedOutIsCancelled
<1>15. PolledIsKnown'
  <2> SUFFICES ASSUME NEW d \in Leaves, NEW e, e = call'[d].client,
                      call'[d].at \in Polling, e \notin gone', d \in Newest(e)
               PROVE  d \in Range(known'[e])
    BY <1>1 DEF PolledIsKnown, Known, Newest
  <2>1. "done" \notin Polling /\ d \in Calls
    BY <1>3 DEF Polling
  <2>2. call'[d] = call[d] /\ e = call[d].client
    BY <1>4, <2>1
  <2>3. d \in Range(known[e])
    BY <1>1, <2>2 DEF ClientInv, PolledIsKnown, Known
  <2>4. call[d].at # "idle"
    BY <2>2 DEF Polling
  <2>5. e \in Clients
    BY <2>1, <2>2, <2>4 DEF ClientInv, ClientTypeOK, CallsFit
  <2>6. known'[e] = known[e]
    BY <1>1, <1>8, <2>5
  <2> QED BY <2>3, <2>6
<1> QED BY <1>9, <1>10, <1>11, <1>12, <1>13, <1>14, <1>15 DEF ClientInv

LEMMA RebindKeeps ==
  ASSUME ClientInv, Rebind
  PROVE  ClientInv'
<1>1. CASE live # Nobody
  BY <1>1, DisposeKeeps
<1>2. CASE live = Nobody
  <2>1. UNCHANGED <<call, late, gone, known, runs, stray, doomed, tracked>>
    BY <1>2 DEF Rebind
  <2>2. ClientTypeOK'
    <3>1. gone' \subseteq 1..made'
      <4>1. made \in Int /\ made' \in Int /\ made <= made' /\ gone \subseteq 1..made
        BY NextProvider DEF ClientInv, ClientTypeOK
      <4> QED BY <2>1, <4>1
    <3> QED BY <2>1, <3>1, NextProvider DEF ClientInv, ClientTypeOK
  <2>3. CallsFit'
    BY <2>1, NextProvider DEF ClientInv, CallsFit
  <2>4. TrackedFit' /\ KnownFit'
    BY <2>1 DEF ClientInv, TrackedFit, KnownFit
  <2>5. TimedOutIsCancelled' /\ CancelIsForTimeout' /\ PolledIsKnown'
    BY <2>1 DEF ClientInv, TimedOutIsCancelled, CancelIsForTimeout, PolledIsKnown, Known, Newest
  <2> QED BY <2>2, <2>3, <2>4, <2>5 DEF ClientInv
<1> QED BY <1>1, <1>2

-----------------------------------------------------------------------------
(* The theorems.                                                           *)

LEMMA ClientInitHolds == ClientInit => ClientInv
<1> SUFFICES ASSUME ClientInit PROVE ClientInv
  OBVIOUS
<1>1. /\ call = [c \in Calls |-> [at |-> "idle", client |-> Nobody, res |-> "none"]]
      /\ late = {} /\ live = Nobody /\ made = 0 /\ gone = {} /\ stray = {} /\ doomed = {}
      /\ runs = [c \in Leaves |-> "none"]
      /\ \A k \in Clients : known[k] = <<>> /\ tracked[k] = <<>>
  BY DEF ClientInit
<1>2. <<>> \in Seq(Leaves) /\ Len(<<>>) = 0 /\ MaxKnown \in Nat /\ MaxClients \in Nat
  BY EmptySeq, LeafClientAssumption
<1>3. \A c \in Calls : call[c].at = "idle" /\ call[c].client = Nobody /\ call[c].res = "none"
  BY <1>1
<1>4. ClientTypeOK
  <2>1. known \in [Clients -> Seq(Leaves)] /\ tracked \in [Clients -> Seq(Leaves)]
    BY <1>2 DEF ClientInit
  <2>2. "idle" \in Steps /\ "none" \in Results
    BY DEF Steps, Results
  <2>3. made \in 0..MaxClients /\ live \in 0..made /\ gone \subseteq 1..made
    BY <1>1, <1>2 DEF Nobody
  <2> QED BY <1>1, <2>1, <2>2, <2>3 DEF ClientTypeOK
<1>5. CallsFit
  <2>1. "idle" \notin Waiting
    BY DEF Waiting
  <2> QED BY <1>1, <1>3, <2>1 DEF CallsFit
<1>6. TrackedFit /\ KnownFit
  <2>1. \A k \in Clients : Len(known[k]) = 0 /\ Len(tracked[k]) = 0
    BY <1>1, <1>2
  <2>2. 1..0 = {} /\ 0 <= MaxKnown
    BY <1>2
  <2> QED BY <1>1, <2>1, <2>2 DEF TrackedFit, KnownFit
<1>7. TimedOutIsCancelled /\ CancelIsForTimeout /\ PolledIsKnown
  <2>1. "idle" \notin Polling
    BY DEF Polling
  <2>2. \A c \in Leaves : c \in Calls
    BY DEF Calls
  <2> QED BY <1>1, <1>3, <2>1, <2>2 DEF TimedOutIsCancelled, CancelIsForTimeout, PolledIsKnown
<1> QED BY <1>4, <1>5, <1>6, <1>7 DEF ClientInv

LEMMA ClientStepKeeps == ClientInv /\ [ClientNext]_clientVars => ClientInv'
<1> SUFFICES ASSUME ClientInv, [ClientNext]_clientVars
             PROVE  ClientInv'
  OBVIOUS
<1>1. ASSUME NEW c \in Calls, ClientStep(c)
      PROVE  ClientInv'
  BY <1>1, BeginKeeps, DeadlineKeeps, RequestsKeep DEF ClientStep
<1>2. ASSUME NEW c \in Leaves, LeafStep(c)
      PROVE  ClientInv'
  BY <1>2, StartedKeeps, PollsKeep, ResultKeeps DEF LeafStep
<1>3. ASSUME NEW c \in Leaves, RuntimeStep(c)
      PROVE  ClientInv'
  BY <1>3, RuntimeKeeps
<1>4. CASE Rebind
  BY <1>4, RebindKeeps
<1>5. CASE UNCHANGED clientVars
  <2>1. UNCHANGED <<call, late, live, made, gone, known, runs, stray, doomed, tracked>>
    BY <1>5 DEF clientVars, clients, runtime
  <2>2. ClientTypeOK' /\ CallsFit' /\ TrackedFit' /\ KnownFit'
    BY <2>1 DEF ClientInv, ClientTypeOK, CallsFit, TrackedFit, KnownFit
  <2>3. TimedOutIsCancelled' /\ CancelIsForTimeout' /\ PolledIsKnown'
    BY <2>1 DEF ClientInv, TimedOutIsCancelled, CancelIsForTimeout, PolledIsKnown, Known, Newest
  <2> QED BY <2>2, <2>3 DEF ClientInv
<1> QED BY <1>1, <1>2, <1>3, <1>4, <1>5 DEF ClientNext

\* The inductive invariant: calls, lists and histories fit together, and what
\* the client promises of time-outs and cancellations holds.
THEOREM ClientInvariant == ClientSpec => []ClientInv
<1> QED BY ClientInitHolds, ClientStepKeeps, PTL DEF ClientSpec

\* Every variable keeps its type.
THEOREM ClientTypeCorrect == ClientSpec => []ClientTypeOK
<1>1. ClientInv => ClientTypeOK
  BY DEF ClientInv
<1> QED BY <1>1, ClientInvariant, PTL

\* request(), leaf-runtime-client.ts: a run that is known and whose call timed
\* out does not go on without a cancellation that is on its way to it.
THEOREM TimedOutAlwaysCancelled == ClientSpec => []TimedOutIsCancelled
<1>1. ClientInv => TimedOutIsCancelled
  BY DEF ClientInv
<1> QED BY <1>1, ClientInvariant, PTL

\* cancelKnownRuns: whenever a run is cancelled, a call of its client timed out.
THEOREM CancelAlwaysForTimeout == ClientSpec => []CancelIsForTimeout
<1>1. ClientInv => CancelIsForTimeout
  BY DEF ClientInv
<1> QED BY <1>1, ClientInvariant, PTL

\* trackRunId and forgetRunId: the list bounded by maxCancelRunIds holds every
\* polled run that is among the newest ones.
THEOREM PolledAlwaysKnown == ClientSpec => []PolledIsKnown
<1>1. ClientInv => PolledIsKnown
  BY DEF ClientInv
<1> QED BY <1>1, ClientInvariant, PTL

\* assertUsable and dispose: no call on a disposed client waits for an answer,
\* and none of them sends a request again.
THEOREM DisposedAlwaysQuiet == ClientSpec => DisposedIsQuiet
<1>1. ASSUME ClientInv, [ClientNext]_clientVars
      PROVE  [\A c \in Calls : call[c].client \in gone =>
               call'[c].at \in {call[c].at, "done"} /\ call[c].at \notin Waiting]_clientVars
  <2> SUFFICES ASSUME ClientNext, NEW c \in Calls, call[c].client \in gone
               PROVE  call'[c].at \in {call[c].at, "done"} /\ call[c].at \notin Waiting
    BY <1>1
  <2>1. call[c].at \notin Waiting /\ call[c].at # "idle"
    BY <1>1 DEF ClientInv, CallsFit
  <2>2. /\ call[c].at \notin {"negotiating", "starting", "asking", "fetching", "idle"}
        /\ ClientTypeOK
    BY <1>1, <2>1 DEF Waiting, ClientInv
  <2>3. ASSUME NEW d \in Calls, ClientStep(d) \/ (d \in Leaves /\ LeafStep(d))
        PROVE  call'[c].at \in {call[c].at, "done"}
    <3>1. CASE d # c
      <4>1. \A at : Moves(d, at) => call'[c] = call[c]
        BY <2>2, <3>1 DEF Moves, ClientTypeOK
      <4>2. \A res : Ends(d, res) => call'[c] = call[c]
        BY <2>2, <3>1 DEF Ends, ClientTypeOK
      <4>3. Begin(d) => call'[c] = call[c]
        BY <2>2, <3>1 DEF Begin, ClientTypeOK
      <4>4. call'[c] = call[c]
        BY <2>3, <4>1, <4>2, <4>3
        DEF ClientStep, LeafStep, Deadline, Negotiated, Wake, RequestTimeout, Started,
            StartFails, Status, Result, GoesOn, TimesOut
      <4> QED BY <4>4
    <3>2. CASE d = c
      <4>1. Deadline(c) \/ Wake(c)
        BY <2>1, <2>2, <2>3, <3>2
        DEF ClientStep, LeafStep, Begin, Negotiated, RequestTimeout, Started, StartFails,
            Status, Result
      <4>2. CASE Deadline(c)
        <5>1. call' = call
          BY <4>2 DEF Deadline
        <5> QED BY <5>1
      <4>3. CASE Wake(c)
        <5>1. Ends(c, "timeout") \/ Ends(c, "disposed")
          BY <4>3 DEF Wake, TimesOut
        <5>2. call'[c].at = "done"
          BY <5>1, <2>2 DEF Ends, ClientTypeOK
        <5> QED BY <5>2
      <4> QED BY <4>1, <4>2, <4>3
    <3> QED BY <3>1, <3>2
  <2>4. ASSUME NEW d \in Leaves, RuntimeStep(d)
        PROVE  call' = call
    BY <2>4 DEF RuntimeStep, StartsStray, RunEnds, CancelAndSettle
  <2>5. ASSUME Rebind
        PROVE  call'[c].at \in {call[c].at, "done"}
    <3>1. CASE live = Nobody
      BY <2>5, <3>1 DEF Rebind
    <3>2. CASE live # Nobody
      <4>1. call'[c].at = IF c \in Waiters(live) THEN "done" ELSE call[c].at
        BY <2>5, <3>2 DEF Rebind, Dispose
      <4> QED BY <4>1
    <3> QED BY <3>1, <3>2
  <2>6. call'[c].at \in {call[c].at, "done"}
    BY <2>3, <2>4, <2>5 DEF ClientNext, Calls
  <2> QED BY <2>1, <2>6
<1> QED BY <1>1, ClientInvariant, PTL DEF ClientSpec, DisposedIsQuiet

-----------------------------------------------------------------------------
(* The runtime behind the client.                                          *)

\* A run has not been started before its call asked for it, nor as long as the
\* start is with a runtime whose caller has left.
Early == {"idle", "negotiating", "starting"}
NotStarted ==
  \A c \in Leaves : call[c].at \in Early \/ c \in stray => runs[c] = "none"

LEMMA NotStartedStays ==
  ASSUME NotStarted, runs' = runs,
         \A c \in Leaves : call'[c].at \in Early => call[c].at \in Early,
         \A c \in stray' : c \in stray \/ call[c].at = "starting"
  PROVE  NotStarted'
BY DEF NotStarted, Early

\* A call that leaves a stage, for another one or for good.
LEMMA LeavesStage ==
  ASSUME ClientInv, NEW c \in Calls,
         \/ \E at \in Steps : Moves(c, at) /\ (at \notin Early \/ call[c].at \in Early)
         \/ \E res \in Results : Ends(c, res)
  PROVE  \A d \in Calls : call'[d].at \in Early => call[d].at \in Early
<1>1. ASSUME NEW at \in Steps, Moves(c, at), at \notin Early \/ call[c].at \in Early
      PROVE  \A d \in Calls : call'[d].at \in Early => call[d].at \in Early
  <2> DEFINE rec == [at |-> at, client |-> call[c].client, res |-> call[c].res]
  <2>1. Sets(c, rec) /\ rec.at = at
    BY <1>1, MovesSets DEF ClientInv
  <2> HIDE DEF rec
  <2> QED BY <1>1, <2>1 DEF Sets
<1>2. ASSUME NEW res \in Results, Ends(c, res)
      PROVE  \A d \in Calls : call'[d].at \in Early => call[d].at \in Early
  <2> DEFINE rec == [at |-> "done", client |-> call[c].client, res |-> res]
  <2>1. Sets(c, rec) /\ rec.at \notin Early
    BY <1>2, EndsSets DEF ClientInv, Early
  <2> HIDE DEF rec
  <2> QED BY <2>1 DEF Sets
<1> QED BY <1>1, <1>2

LEMMA CallKeepsNotStarted ==
  ASSUME ClientInv, NotStarted, NEW c \in Calls,
         ClientStep(c) \/ (c \in Leaves /\ (Status(c) \/ Result(c)))
  PROVE  NotStarted' /\ runs' = runs
<1>1. runs' = runs
  BY DEF ClientStep, Begin, Deadline, Negotiated, Wake, RequestTimeout, Status, Result, runtime
<1>2. \A d \in stray' : d \in stray \/ call[d].at = "starting"
  BY DEF ClientStep, Begin, Deadline, Negotiated, Wake, RequestTimeout, Status, Result,
         runtime, Strays
<1>3. /\ {"starting", "sleeping", "asking", "fetching"} \subseteq Steps
      /\ {"ok", "timeout", "disposed", "expired"} \cup Errors \subseteq Results
      /\ {"sleeping", "asking", "fetching"} \cap Early = {}
  BY DEF Steps, Waiting, Results, Errors, Early
<1>4. \A d \in Calls : call'[d].at \in Early => call[d].at \in Early
  <2>1. CASE Begin(c)
    BY <2>1 DEF Begin, ClientInv, ClientTypeOK, Early
  <2>2. CASE Deadline(c)
    BY <2>2 DEF Deadline
  <2>3. CASE Negotiated(c)
    <3>1. call[c].at \in Early
      BY <2>3 DEF Negotiated, Early
    <3> QED BY <1>3, <2>3, <3>1, LeavesStage DEF Negotiated
  <2>4. CASE Wake(c)
    BY <1>3, <2>4, LeavesStage DEF Wake, TimesOut
  <2>5. CASE RequestTimeout(c)
    BY <1>3, <2>5, LeavesStage DEF RequestTimeout, TimesOut
  <2>6. CASE Status(c)
    BY <1>3, <2>6, LeavesStage DEF Status, GoesOn, TimesOut
  <2>7. CASE Result(c)
    BY <1>3, <2>7, LeavesStage DEF Result
  <2> QED BY <2>1, <2>2, <2>3, <2>4, <2>5, <2>6, <2>7 DEF ClientStep
<1>5. Leaves \subseteq Calls
  BY DEF Calls
<1> QED BY <1>1, <1>2, <1>4, <1>5, NotStartedStays

LEMMA RebindKeepsNotStarted ==
  ASSUME ClientInv, NotStarted, Rebind
  PROVE  NotStarted' /\ runs' = runs
<1>1. runs' = runs
  BY DEF Rebind
<1>2. CASE live = Nobody
  BY <1>1, <1>2, NotStartedStays DEF Rebind
<1>3. CASE live # Nobody
  <2>1. Dispose(live)
    BY <1>3 DEF Rebind
  <2>2. \A c \in Calls : call'[c].at \in Early => call[c].at \in Early
    BY <2>1 DEF Dispose, Early
  <2>3. \A c \in stray' : c \in stray \/ call[c].at = "starting"
    BY <2>1 DEF Dispose, Strays
  <2>4. Leaves \subseteq Calls
    BY DEF Calls
  <2> QED BY <1>1, <2>2, <2>3, <2>4, NotStartedStays
<1> QED BY <1>1, <1>2, <1>3

\* A start is answered, in time or to nobody.
LEMMA StartKeepsNotStarted ==
  ASSUME ClientInv, NotStarted, NEW c \in Leaves,
         Started(c) \/ StartFails(c) \/ StartsStray(c)
  PROVE  /\ NotStarted'
         /\ \/ runs' = runs
            \/ runs[c] = "none" /\ runs' = [runs EXCEPT ![c] = "going"]
<1>1. /\ runs' = runs \/ runs' = [runs EXCEPT ![c] = "going"]
      /\ stray' \subseteq stray
      /\ call[c].at = "starting" \/ c \in stray
  BY DEF Started, StartFails, StartsStray
<1>2. c \in Calls /\ Leaves \subseteq Calls
  BY DEF Calls
<1>3. runs[c] = "none"
  BY <1>1 DEF NotStarted, Early
<1>4. /\ \A d \in Leaves : call'[d].at \in Early => call[d].at \in Early
      /\ call'[c].at \notin Early /\ c \notin stray'
  <2>1. CASE StartsStray(c)
    <3>1. call' = call /\ c \in stray /\ c \notin stray'
      BY <2>1 DEF StartsStray
    <3>2. call[c].at = "done"
      BY <3>1 DEF ClientInv, CallsFit
    <3> QED BY <3>1, <3>2 DEF Early
  <2>2. CASE Started(c) \/ StartFails(c)
    <3>1. /\ "sleeping" \in Steps /\ {"timeout"} \cup Errors \subseteq Results
          /\ "sleeping" \notin Early /\ "done" \notin Early
      BY DEF Steps, Results, Errors, Early
    <3>2. Moves(c, "sleeping") \/ \E res \in {"timeout"} \cup Errors : Ends(c, res)
      BY <2>2 DEF Started, StartFails, GoesOn, TimesOut
    <3>3. call'[c].at \notin Early
      BY <1>2, <3>1, <3>2 DEF Moves, Ends, ClientInv, ClientTypeOK
    <3>4. \A d \in Calls : call'[d].at \in Early => call[d].at \in Early
      BY <1>2, <3>1, <3>2, LeavesStage
    <3>5. c \notin stray /\ stray' = stray
      BY <2>2 DEF Started, StartFails, ClientInv, CallsFit
    <3> QED BY <1>2, <3>3, <3>4, <3>5
  <2> QED BY <2>1, <2>2
<1>5. \A d \in Leaves : d # c => runs'[d] = runs[d]
  BY <1>1 DEF ClientInv, ClientTypeOK
<1>6. NotStarted'
  BY <1>1, <1>4, <1>5 DEF NotStarted
<1> QED BY <1>1, <1>3, <1>6

\* A run that ends was going, so that it is not one that is yet to be started.
LEMMA EndKeepsNotStarted ==
  ASSUME ClientInv, NotStarted, NEW c \in Leaves, RunEnds(c) \/ CancelAndSettle(c)
  PROVE  /\ NotStarted'
         /\ \/ runs' = runs
            \/ /\ runs[c] = "going"
               /\ \E end \in {"completed", "failed", "cancelled"} :
                    runs' = [runs EXCEPT ![c] = end]
<1>1. /\ UNCHANGED <<call, stray>>
      /\ \/ runs' = runs
         \/ /\ runs[c] = "going"
            /\ \E end \in {"completed", "failed", "cancelled"} :
                 runs' = [runs EXCEPT ![c] = end]
  BY DEF RunEnds, CancelAndSettle
<1>2. \A d \in Leaves : runs'[d] = runs[d] \/ runs[d] # "none"
  BY <1>1 DEF ClientInv, ClientTypeOK
<1> QED BY <1>1, <1>2 DEF NotStarted

\* The runs as the contract sees them.
Seen(rs) == [c \in Leaves |-> IF rs[c] = "going" THEN "running" ELSE rs[c]]

LEMMA SeenStarts ==
  ASSUME ClientInv, NEW c \in Leaves, runs[c] = "none", runs' = [runs EXCEPT ![c] = "going"]
  PROVE  Contract!RunsNext
<1>1. /\ Seen(runs)[c] = "none"
      /\ Seen(runs') = [Seen(runs) EXCEPT ![c] = "running"]
  BY DEF ClientInv, ClientTypeOK, Seen
<1>2. Contract!Starts(c)
  BY <1>1 DEF Contract!Starts, Seen
<1> QED BY <1>2 DEF Contract!RunsNext

LEMMA SeenEnds ==
  ASSUME ClientInv, NEW c \in Leaves, NEW end \in {"completed", "failed", "cancelled"},
         runs[c] = "going", runs' = [runs EXCEPT ![c] = end]
  PROVE  Contract!RunsNext
<1>1. /\ Seen(runs)[c] = "running"
      /\ Seen(runs') = [Seen(runs) EXCEPT ![c] = end]
  BY DEF ClientInv, ClientTypeOK, Seen
<1>2. Contract!Finishes(c, end)
  BY <1>1 DEF Contract!Finishes, Seen
<1> QED BY <1>2 DEF Contract!RunsNext, Contract!Ends

\* What this module has the runtime do with runs takes no step that the contract
\* of runs forbids: no run is started twice, not by a start whose caller has
\* left, and no cancellation that arrives late revives or overwrites an end.
\* This is about the model of the runtime: it does not say that every runtime
\* which keeps to the contract suits the client.
THEOREM ClientReliesOnRuns == ClientSpec => ReliesOnRuns
<1>1. ClientInit => NotStarted /\ Contract!RunsInit
  BY DEF ClientInit, NotStarted, Contract!RunsInit
<1>2. ASSUME ClientInv, NotStarted, [ClientNext]_clientVars
      PROVE  NotStarted' /\ [Contract!RunsNext]_(Seen(runs))
  <2>1. ASSUME NEW c \in Calls, ClientStep(c) PROVE NotStarted' /\ runs' = runs
    BY <1>2, <2>1, CallKeepsNotStarted
  <2>2. ASSUME NEW c \in Leaves, Status(c) \/ Result(c) PROVE NotStarted' /\ runs' = runs
    BY <1>2, <2>2, CallKeepsNotStarted DEF Calls
  <2>3. ASSUME NEW c \in Leaves, Started(c) \/ StartFails(c) \/ StartsStray(c)
        PROVE  NotStarted' /\ (runs' = runs \/ Contract!RunsNext)
    BY <1>2, <2>3, StartKeepsNotStarted, SeenStarts
  <2>4. ASSUME NEW c \in Leaves, RunEnds(c) \/ CancelAndSettle(c)
        PROVE  NotStarted' /\ (runs' = runs \/ Contract!RunsNext)
    BY <1>2, <2>4, EndKeepsNotStarted, SeenEnds
  <2>5. CASE Rebind
    BY <1>2, <2>5, RebindKeepsNotStarted
  <2>6. CASE UNCHANGED clientVars
    BY <1>2, <2>6 DEF clientVars, runtime, NotStarted
  <2>7. ASSUME NEW c \in Leaves, LeafStep(c) \/ RuntimeStep(c)
        PROVE  NotStarted' /\ (runs' = runs \/ Contract!RunsNext)
    BY <2>2, <2>3, <2>4, <2>7 DEF LeafStep, RuntimeStep
  <2>8. CASE ClientNext
    BY <2>1, <2>5, <2>7, <2>8 DEF ClientNext
  <2> QED BY <1>2, <2>6, <2>8
<1> QED
  BY <1>1, <1>2, ClientInvariant, PTL
     DEF ClientSpec, ReliesOnRuns, Contract!RunsSpec, Seen
=============================================================================
