------------------------------ MODULE LeafClient ------------------------------
(***************************************************************************)
(* The client through which agent jobs reach a leaf runtime on the event   *)
(* bus (LeafRuntimeClient), and the extension that replaces it when the    *)
(* model changes (rebindLeafRuntime) and lets it go at the end of the      *)
(* session.  A leaf call negotiates, starts a run, polls it and fetches    *)
(* its result; a refresh only negotiates.  A call has one request at a     *)
(* time, answered or timed out, so where the call stands says what is      *)
(* asked; a run is named by the call it was started for.                   *)
(*                                                                         *)
(* The runtime is another extension: it answers when and what it likes,    *)
(* and what it does about a run it does whether or not anybody listens.    *)
(***************************************************************************)
EXTENDS Integers, SequencesExt

CONSTANTS Leaves, Refreshes,  \* the calls
          MaxClients,         \* bound: clients the extension makes in a session
          MaxKnown            \* maxCancelRunIds, 64 in the code

Calls   == Leaves \cup Refreshes
Clients == 1..MaxClients
Nobody  == 0

ASSUME LeafClientAssumption ==
  /\ Leaves \cap Refreshes = {}
  /\ MaxClients \in Nat /\ MaxKnown \in Nat \ {0}

VARIABLES
  call,    \* where each call stands, on which client, and its result
  late,    \* the leaf calls whose deadline has passed
  live,    \* the client that is published as provider
  made,    \* how many clients there have been
  gone,    \* the disposed ones
  known,   \* startedRunIds of each client
  runs,    \* the runs of the runtime
  stray,   \* starts that the runtime has before it and nobody waits for
  doomed,  \* runs named in cancelAndSettle requests that are on their way
  tracked  \* history: the runs that each client ever tracked, in order

clients    == <<live, made, gone>>
runtime    == <<runs, stray, doomed>>
clientVars == <<call, late, clients, known, runtime, tracked>>

Waiting == {"negotiating", "starting", "asking", "fetching"}
Polling == {"sleeping", "asking", "fetching"}
Steps   == {"idle", "sleeping", "done"} \cup Waiting
Results == {"none", "ok", "error", "expired", "timeout", "disposed"}

\* What a reply can end a call with: an error, or the runtime's own word that
\* time is over (code 'timeout'), which cancels nothing.  "timeout" is the call
\* whose time-out the client itself noticed; callers see no difference.
Errors == {"error", "expired"}

ClientTypeOK ==
  /\ call \in [Calls -> [at : Steps, client : Clients \cup {Nobody}, res : Results]]
  /\ late \subseteq Leaves
  /\ made \in 0..MaxClients /\ live \in 0..made /\ gone \subseteq 1..made
  /\ known \in [Clients -> Seq(Leaves)] /\ tracked \in [Clients -> Seq(Leaves)]
  /\ runs \in [Leaves -> {"none", "going", "completed", "failed", "cancelled"}]
  /\ stray \subseteq Leaves /\ doomed \subseteq Leaves

ClientInit ==
  /\ call = [c \in Calls |-> [at |-> "idle", client |-> Nobody, res |-> "none"]]
  /\ late = {} /\ live = Nobody /\ made = 0 /\ gone = {}
  /\ known = [k \in Clients |-> <<>>] /\ tracked = [k \in Clients |-> <<>>]
  /\ runs = [c \in Leaves |-> "none"] /\ stray = {} /\ doomed = {}

-----------------------------------------------------------------------------
Known(k)     == Range(known[k])
Moves(c, at) == call' = [call EXCEPT ![c].at = at]
Ends(c, res) == call' = [call EXCEPT ![c] = [at |-> "done", client |-> @.client, res |-> res]]

\* trackRunId: at its limit the list forgets its oldest run.
Tracks(k, c) ==
  /\ known' = [known EXCEPT ![k] = Append(IF Len(@) >= MaxKnown THEN Tail(@) ELSE @, c)]
  /\ tracked' = [tracked EXCEPT ![k] = Append(@, c)]

\* Mutant of Forgets: with the index of a run that is not there used as it is.
ForgetsAnyway(k, c) ==
  \/ \E i \in 1..Len(known[k]) :
       known[k][i] = c /\ known' = [known EXCEPT ![k] = RemoveAt(@, i)]
  \/ /\ c \notin Known(k)
     /\ known' = [known EXCEPT ![k] = IF @ = <<>> THEN @ ELSE Front(@)]

\* forgetRunId.
Forgets(k, c) ==
  \/ \E i \in 1..Len(known[k]) :
       known[k][i] = c /\ known' = [known EXCEPT ![k] = RemoveAt(@, i)]
  \/ c \notin Known(k) /\ UNCHANGED known

\* Mutant of CancelKnownRuns: whatever the runtime has going on is cancelled.
CancelAllRuns(k, list) == doomed' = doomed \cup {c \in Leaves : runs[c] = "going"}

\* cancelKnownRuns: every run the client knows of, whosever it is.
CancelKnownRuns(k, list) ==
  doomed' = IF k \in gone THEN doomed ELSE doomed \cup Range(list[k])

\* Call c times out; list holds the runs that the clients know of.
TimesOut(c, list) == Ends(c, "timeout") /\ CancelKnownRuns(call[c].client, list)

-----------------------------------------------------------------------------
(* The calls.                                                              *)

\* runLeaf or refreshReady, on the client that is the provider.
Begin(c) ==
  /\ call[c].at = "idle" /\ live # Nobody
  /\ call' = [call EXCEPT ![c] = [at |-> "negotiating", client |-> live, res |-> "none"]]
  /\ UNCHANGED <<late, clients, known, runtime, tracked>>

Deadline(c) ==
  /\ c \in Leaves \ late /\ call[c].at \notin {"idle", "done"}
  /\ late' = late \cup {c}
  /\ UNCHANGED <<call, clients, known, runtime, tracked>>

\* The capabilities are adopted, or the model is not served, or not in time.
Negotiated(c) ==
  /\ call[c].at = "negotiating"
  /\ \/ c \in Leaves /\ Moves(c, "starting")
     \/ c \in Refreshes /\ Ends(c, "ok")
     \/ \E res \in Errors : Ends(c, res)
  /\ UNCHANGED <<late, clients, known, runtime, tracked>>

\* The run goes on; the call polls it unless its time is over.
GoesOn(c, list) ==
  IF c \in late THEN TimesOut(c, list) ELSE Moves(c, "sleeping") /\ UNCHANGED doomed

\* The runtime starts a run and says which.
Started(c) ==
  /\ call[c].at = "starting"
  /\ runs' = [runs EXCEPT ![c] = "going"]
  /\ Tracks(call[c].client, c)
  /\ GoesOn(c, known')
  /\ UNCHANGED <<late, clients, stray>>

\* The runtime refuses, or starts a run and answers what cannot be read.
StartFails(c) ==
  /\ call[c].at = "starting"
  /\ runs' \in {runs, [runs EXCEPT ![c] = "going"]}
  /\ \E res \in Errors : Ends(c, res)
  /\ UNCHANGED <<late, clients, known, stray, doomed, tracked>>

\* A poll is due.  A disposed client sends nothing.
Wake(c) ==
  /\ call[c].at = "sleeping"
  /\ \/ c \in late /\ TimesOut(c, known)
     \/ /\ c \notin late
        /\ IF call[c].client \in gone THEN Ends(c, "disposed") ELSE Moves(c, "asking")
        /\ UNCHANGED doomed
  /\ UNCHANGED <<late, clients, known, runs, stray, tracked>>

\* A run that was cancelled counts as timed out, whoever cancelled it.
Status(c) ==
  /\ call[c].at = "asking"
  /\ \/ runs[c] = "going" /\ GoesOn(c, known)
     \/ runs[c] = "completed" /\ Moves(c, "fetching") /\ UNCHANGED doomed
     \/ runs[c] = "cancelled" /\ Ends(c, "expired") /\ UNCHANGED doomed
     \/ (\E res \in Errors : Ends(c, res)) /\ UNCHANGED doomed
  /\ UNCHANGED <<late, clients, known, runs, stray, tracked>>

\* Only a run whose result was read leaves the list.
Result(c) ==
  /\ call[c].at = "fetching"
  /\ \/ Ends(c, "ok") /\ Forgets(call[c].client, c)
     \/ (\E res \in Errors : Ends(c, res)) /\ UNCHANGED known
  /\ UNCHANGED <<late, clients, runtime, tracked>>

\* The starts that lose their caller when the calls in cs stop waiting.
Strays(cs) == {c \in cs \cap Leaves : call[c].at = "starting"}

\* Mutant of RequestTimeout: the caller is told and nothing is cancelled.
RequestTimeoutOnly(c) ==
  /\ call[c].at \in Waiting /\ (c \in late \/ call[c].at = "negotiating")
  /\ stray' = stray \cup Strays({c})
  /\ Ends(c, "timeout")
  /\ UNCHANGED <<late, clients, known, runs, doomed, tracked>>

\* Mutant of RequestTimeout: a negotiation has no timer.
RequestTimeoutLate(c) ==
  /\ call[c].at \in Waiting /\ c \in late
  /\ stray' = stray \cup Strays({c})
  /\ TimesOut(c, known)
  /\ UNCHANGED <<late, clients, known, runs, tracked>>

\* The timer of a request.  That of a negotiation is shorter than the call's,
\* all the others fire when the call's deadline has passed.
RequestTimeout(c) ==
  /\ call[c].at \in Waiting /\ (c \in late \/ call[c].at = "negotiating")
  /\ stray' = stray \cup Strays({c})
  /\ TimesOut(c, known)
  /\ UNCHANGED <<late, clients, known, runs, tracked>>

-----------------------------------------------------------------------------
(* The extension: the provider is withdrawn, then disposed, then replaced. *)

Waiters(k) == {c \in Calls : call[c].client = k /\ call[c].at \in Waiting}

Dispose(k) ==
  /\ gone' = gone \cup {k}
  /\ call' = [c \in Calls |->
                IF c \in Waiters(k)
                THEN [at |-> "done", client |-> k, res |-> "disposed"] ELSE call[c]]
  /\ stray' = stray \cup Strays(Waiters(k))
  /\ known' = [known EXCEPT ![k] = <<>>]

\* A new model, or none; the end of the session is the latter.
Rebind ==
  /\ \/ live' = Nobody /\ live # Nobody /\ UNCHANGED made
     \/ made < MaxClients /\ made' = made + 1 /\ live' = made'
  /\ IF live # Nobody THEN Dispose(live) ELSE UNCHANGED <<gone, call, stray, known>>
  /\ UNCHANGED <<late, runs, doomed, tracked>>

-----------------------------------------------------------------------------
(* The runtime.                                                            *)

\* A start whose caller has left is still a start.
StartsStray(c) ==
  /\ c \in stray
  /\ stray' = stray \ {c}
  /\ runs' \in {runs, [runs EXCEPT ![c] = "going"]}
  /\ UNCHANGED <<call, late, clients, known, doomed, tracked>>

\* A run is cancelled without being asked for when its runtime is disposed.
RunEnds(c) ==
  /\ runs[c] = "going"
  /\ \E end \in {"completed", "failed", "cancelled"} : runs' = [runs EXCEPT ![c] = end]
  /\ UNCHANGED <<call, late, clients, known, stray, doomed, tracked>>

CancelAndSettle(c) ==
  /\ c \in doomed
  /\ doomed' = doomed \ {c}
  /\ runs' = IF runs[c] = "going" THEN [runs EXCEPT ![c] = "cancelled"] ELSE runs
  /\ UNCHANGED <<call, late, clients, known, stray, tracked>>

-----------------------------------------------------------------------------
ClientStep(c) ==
  \/ Begin(c) \/ Deadline(c) \/ Negotiated(c) \/ Wake(c) \/ RequestTimeout(c)
LeafStep(c) == Started(c) \/ StartFails(c) \/ Status(c) \/ Result(c)
RuntimeStep(c) == StartsStray(c) \/ RunEnds(c) \/ CancelAndSettle(c)

ClientNext ==
  \/ \E c \in Calls : ClientStep(c)
  \/ \E c \in Leaves : LeafStep(c) \/ RuntimeStep(c)
  \/ Rebind

ClientSpec == ClientInit /\ [][ClientNext]_clientVars

\* Time passes and timers fire.  The runtime need not do anything.
ClientFairSpec ==
  /\ ClientSpec
  /\ \A c \in Calls : /\ WF_clientVars(Deadline(c))
                      /\ WF_clientVars(Wake(c))
                      /\ WF_clientVars(RequestTimeout(c))

-----------------------------------------------------------------------------
(* What the client promises.                                               *)

\* A run that the client still knows of does not go on after the client has
\* timed its call out, unless a cancellation of it is on its way.
TimedOutIsCancelled ==
  \A c \in Leaves :
    /\ call[c].res = "timeout" /\ runs[c] = "going"
    /\ call[c].client # Nobody /\ c \in Known(call[c].client)
    => c \in doomed

\* The client asks for a run to be cancelled only because it timed out some call
\* of its own, be it another one; disposal and a new client cancel nobody's.
CancelIsForTimeout ==
  \A c \in doomed :
    \E d \in Calls : call[d].client = call[c].client /\ call[d].res = "timeout"

\* The last MaxKnown runs that client k tracked.
Newest(k) == {tracked[k][i] : i \in {j \in 1..Len(tracked[k]) : j > Len(tracked[k]) - MaxKnown}}

\* A run that is polled can be cancelled: the bounded list forgets it only for
\* the sake of newer ones.
PolledIsKnown ==
  \A c \in Leaves :
    LET k == call[c].client IN
    call[c].at \in Polling /\ k \notin gone /\ c \in Newest(k) => c \in Known(k)

\* A disposed client asks for nothing more, although calls on it may sleep on.
DisposedIsQuiet ==
  [][\A c \in Calls : call[c].client \in gone =>
       call'[c].at \in {call[c].at, "done"} /\ call[c].at \notin Waiting]_clientVars

\* Every call comes back, whatever the runtime does.
LeafCallsEnd == \A c \in Calls : (call[c].at # "idle") ~> (call[c].at = "done")

-----------------------------------------------------------------------------
(* The model of the runtime behind the client.                             *)

Contract == INSTANCE RuntimeRuns WITH
  Runs <- Leaves,
  run  <- [c \in Leaves |-> IF runs[c] = "going" THEN "running" ELSE runs[c]]

\* This module has the runtime do nothing with a run, a stray or a doomed one
\* among them, that the contract of runs forbids.
ReliesOnRuns == Contract!RunsSpec
=============================================================================
