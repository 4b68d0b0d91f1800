------------------------------- MODULE Broker -------------------------------
(***************************************************************************)
(* The native broker process (rust/crates/northstar-broker): one accept    *)
(* loop that serves one connection at a time, a SQLite journal of mutation *)
(* claims and job receipts, and one authenticated channel to the executor  *)
(* that lives in the Node host.  Around it, as much of the host as decides *)
(* what the broker observes: the executor's runs, the frames it has not    *)
(* handled yet and the replies the broker has not read yet.                *)
(*                                                                         *)
(* A request handler is a sequence of steps between which the process may  *)
(* die: every committed transaction, the write of the request frame, the   *)
(* wait for the reply and the answer to the client are steps of their own. *)
(***************************************************************************)
EXTENDS Naturals

CONSTANTS
  Clients,          \* client ids
  StartRequests,    \* request ids clients use for start
  ControlRequests,  \* request ids clients use for the other methods
  RunIds,           \* ids the runtime issues, never reused
  Grants,           \* the sets of methods that connections ask for
  None,             \* no client, no mutation, no run
  MaxFaults,        \* bound: journal statements that fail (full disk, I/O error)
  MaxCrashes        \* bound: times the broker process dies

\* The two share their ids: a claim is one whatever the method it was made for.
Starts    == Clients \X StartRequests
Controls  == Clients \X ControlRequests
Mutations == Starts \cup Controls

\* A job id is the one the runtime issued, or the provisional id, which is a
\* digest of the client and request id: the mutation stands for it.
Jobs == RunIds \cup Starts

Methods == {"start", "cancel", "read"}

ASSUME BrokerAssumption ==
  /\ None \notin Clients \cup Mutations \cup RunIds
  /\ RunIds \cap Starts = {}
  /\ Grants \subseteq SUBSET Methods
  /\ MaxFaults \in Nat
  /\ MaxCrashes \in Nat

VARIABLES
  claims,    \* table mutation_claims, as committed
  receipts,  \* table job_receipts, as committed, by the mutation of the row
  txn,       \* a transaction that its failed COMMIT left open, or None
  faults,    \* journal statements that failed
  up,        \* is the broker process serving?
  crashes,   \* times it died
  conn,      \* the connection being served: its client and granted methods
  hnd,       \* the request being handled and where its handler stands
  slot,      \* ExecutorUpstream.stream: "open" or "empty"
  executor,  \* the host's ExecutorListener as the broker finds it
  inbox,     \* frames written to the channel, not yet handled by the host
  replies,   \* replies on the open channel, not yet read by the broker
  runs,      \* LocalLeafRuntime's runs: whose start made them, and their state
  told,      \* history: the last answer a client got to a start
  seen,      \* history: the starts whose committed receipt a client was shown
  over       \* history: the starts whose receipt was ever completed

journalVars  == <<claims, receipts, txn, faults>>
executorVars == <<executor, inbox, runs>>
historyVars  == <<told, seen, over>>
vars == <<claims, receipts, txn, faults, up, crashes, conn, hnd, slot, executor, inbox,
          replies, runs, told, seen, over>>

ReceiptStates == {"none", "pending", "dispatched", "completed", "outcome_unknown"}
Receipts == [job : Jobs, state : ReceiptStates]

\* An open transaction: the row that was to be committed, and the claims that
\* later cancels have made inside it.
Transactions == [mut : Starts, row : Receipts, claims : SUBSET Mutations]

Idle == [pc |-> "idle", kind |-> "none", mut |-> None, jobs |-> {},
         run |-> None, todo |-> {}, out |-> "none"]
Closed == [client |-> None, methods |-> {}]

Verdicts == {"ok", "refused", "garbled"}
Frames   == [kind : Methods, mut : Mutations, jobs : SUBSET Jobs]
Replies  == [kind : Methods, mut : Mutations, verdict : Verdicts,
             run : RunIds \cup {None}, settled : SUBSET Jobs]

Answers == {"none", "started", "refused", "settled", "timeout", "unavailable",
            "error", "closed"}
Handlers == [pc   : {"idle", "prepare", "mark", "send", "await", "bind",
                     "complete", "doubt", "book"},
             kind : Methods \cup {"none"},
             mut  : Mutations \cup {None},
             jobs : SUBSET Jobs,
             run  : RunIds \cup {None},
             todo : SUBSET Jobs,
             out  : Answers]

Exists(m) == receipts[m].state # "none"
Started(m) == \E r \in RunIds : runs[r].owner = m

\* The tables as the broker's one connection reads them.
Row(m)     == IF txn # None /\ txn.mut = m THEN txn.row ELSE receipts[m]
Claimed(m) == m \in claims \/ (txn # None /\ m \in txn.claims)

Fault == faults < MaxFaults /\ faults' = faults + 1

\* A transaction leaves nothing behind: it cannot begin, another one being
\* open, or it fails and is rolled back.
Refused == /\ UNCHANGED txn
           /\ IF txn = None THEN Fault ELSE UNCHANGED faults

\* A transaction that writes this row of m fails; or its COMMIT does and leaves
\* it open, for transition_job, transition_job_by_request and
\* bind_dispatched_job do not roll back then: what it wrote is read from then
\* on, nothing else can begin, and all is lost when the process dies.
WriteFails(m, row) ==
  /\ UNCHANGED receipts
  /\ \/ Refused
     \/ /\ txn = None
        /\ Fault
        /\ txn' = [mut |-> m, row |-> row, claims |-> {}]

\* UPDATE job_receipts SET state = ? for the rows of M that exist.
WithState(M, state) ==
  [m \in Starts |-> IF m \in M /\ Exists(m)
                    THEN [receipts[m] EXCEPT !.state = state]
                    ELSE receipts[m]]

\* The rows whose primary key is the job id j: at most one.
RowsOf(j) == {m \in Starts : Row(m).job = j}

\* owns_all_jobs: every named job has a row of this client.
Owns(c, J) == \A j \in J : \E m \in RowsOf(j) : m[1] = c /\ Exists(m)

\* query_receipt as the client sees it: a start that definitively failed is
\* journaled as completed under its provisional id and not shown.
Shows(m, row) == /\ row.state # "none"
                 /\ ~(row.state = "completed" /\ row.job = m)

Init ==
  /\ claims = {}
  /\ receipts = [m \in Starts |-> [job |-> m, state |-> "none"]]
  /\ txn = None
  /\ faults = 0
  /\ up = TRUE
  /\ crashes = 0
  /\ conn = Closed
  /\ hnd = Idle
  /\ slot = "empty"
  /\ executor \in {"absent", "listening"}
  /\ inbox = {}
  /\ replies = {}
  /\ runs = [r \in RunIds |-> [owner |-> None, state |-> "free"]]
  /\ told = [m \in Starts |-> "none"]
  /\ seen = {}
  /\ over = {}

-----------------------------------------------------------------------------
(* The connection.                                                         *)

\* Hello and welcome.  The grant ceiling holds every method, so the client
\* gets the methods it asks for.
Connect(c, methods) ==
  /\ up
  /\ conn = Closed
  /\ conn' = [client |-> c, methods |-> methods]
  /\ UNCHANGED <<journalVars, up, crashes, hnd, slot, executorVars, replies,
                 historyVars>>

\* End of file, a malformed frame, or a request that fails the project,
\* epoch, sequence, token, capability or ownership check: the connection ends.
Disconnect ==
  /\ up
  /\ conn # Closed
  /\ hnd = Idle
  /\ conn' = Closed
  /\ UNCHANGED <<journalVars, up, crashes, hnd, slot, executorVars, replies,
                 historyVars>>

\* The next request of the connection passed every check.
Admitted(method, m) ==
  /\ up
  /\ hnd = Idle
  /\ conn.client = m[1]
  /\ method \in conn.methods

Query(m) ==
  /\ Admitted("read", m)
  /\ seen' = IF Shows(m, Row(m)) /\ Shows(m, receipts[m]) THEN seen \cup {m}
                                                         ELSE seen
  /\ UNCHANGED <<journalVars, up, crashes, conn, hnd, slot, executorVars,
                 replies, told, over>>

\* A statement of a query or of a cancel fails, and SQLite rolls the open
\* transaction back; the request is answered with an error.
StatementFails ==
  /\ up
  /\ hnd = Idle
  /\ conn.methods \cap {"cancel", "read"} # {}
  /\ txn # None
  /\ Fault
  /\ txn' = None
  /\ conn' \in {conn, Closed}
  /\ UNCHANGED <<claims, receipts, up, crashes, hnd, slot, executorVars, replies,
                 historyVars>>

-----------------------------------------------------------------------------
(* Entering a request.                                                     *)

\* Mutant of ClaimStart: a duplicate overwrites the earlier claim and receipt.
ClaimStartAgain(m) ==
  /\ Admitted("start", m)
  /\ claims' = claims \cup {m}
  /\ receipts' = [receipts EXCEPT ![m] = [job |-> m, state |-> "pending"]]
  /\ hnd' = [Idle EXCEPT !.pc = "prepare", !.kind = "start", !.mut = m]
  /\ told' = [told EXCEPT ![m] = "none"]
  /\ UNCHANGED <<txn, faults, up, crashes, conn, slot, executorVars, replies, seen,
                 over>>

\* claim_start_atomic: the claim and the pending receipt, in one transaction.
ClaimStart(m) ==
  /\ Admitted("start", m)
  /\ txn = None
  /\ m \notin claims
  /\ claims' = claims \cup {m}
  /\ receipts' = [receipts EXCEPT ![m] = [job |-> m, state |-> "pending"]]
  /\ hnd' = [Idle EXCEPT !.pc = "prepare", !.kind = "start", !.mut = m]
  /\ told' = [told EXCEPT ![m] = "none"]
  /\ UNCHANGED <<txn, faults, up, crashes, conn, slot, executorVars, replies, seen,
                 over>>

\* A duplicate, or a transaction that fails, ends the connection.  The claim
\* may be that of a cancel, and then there is no receipt to query.
RefuseStart(m) ==
  /\ Admitted("start", m)
  /\ \/ m \in claims /\ UNCHANGED <<txn, faults>>
     \/ Refused
  /\ conn' = Closed
  /\ UNCHANGED <<claims, receipts, up, crashes, hnd, slot, executorVars, replies,
                 historyVars>>

\* Mutant of ClaimCancel: a claim that is already there is taken for its own.
ClaimCancelAnyway(m, J) ==
  /\ Admitted("cancel", m)
  /\ Owns(m[1], J)
  /\ claims' = claims \cup {m}
  /\ hnd' = [Idle EXCEPT !.pc = "prepare", !.kind = "cancel", !.mut = m,
                         !.jobs = J]
  /\ UNCHANGED <<receipts, txn, faults, up, crashes, conn, slot, executorVars, replies,
                 historyVars>>

\* A cancel that is out of scope, a duplicate or cannot be journaled is
\* answered with an error and changes nothing.
ClaimCancel(m, J) ==
  /\ Admitted("cancel", m)
  /\ Owns(m[1], J)
  /\ ~Claimed(m)
  /\ \/ /\ txn = None
        /\ claims' = claims \cup {m}
        /\ UNCHANGED txn
     \/ /\ txn # None
        /\ txn' = [txn EXCEPT !.claims = @ \cup {m}]
        /\ UNCHANGED claims
  /\ hnd' = [Idle EXCEPT !.pc = "prepare", !.kind = "cancel", !.mut = m,
                         !.jobs = J]
  /\ UNCHANGED <<receipts, faults, up, crashes, conn, slot, executorVars, replies,
                 historyVars>>

\* negotiate (no job), status or result (one job): nothing is journaled.
BeginRead(m, J) ==
  /\ Admitted("read", m)
  /\ Owns(m[1], J)
  /\ hnd' = [Idle EXCEPT !.pc = "prepare", !.kind = "read", !.mut = m,
                         !.jobs = J]
  /\ UNCHANGED <<journalVars, up, crashes, conn, slot, executorVars, replies,
                 historyVars>>

-----------------------------------------------------------------------------
(* Reaching the executor.                                                  *)

At(pc, kind) == up /\ hnd.pc = pc /\ hnd.kind = kind

\* The handler answers and, unless the answer ends it, keeps the connection.
Book(todo, out) == [hnd EXCEPT !.pc = "book", !.todo = todo, !.out = out]

\* prepare: the slot is reused, or filled by the one connection the host's
\* listener ever accepts.
Prepare ==
  /\ up
  /\ hnd.pc = "prepare"
  /\ \/ slot = "open" /\ UNCHANGED executor
     \/ slot = "empty" /\ executor = "listening" /\ executor' = "taken"
  /\ slot' = "open"
  /\ hnd' = [hnd EXCEPT !.pc = IF hnd.kind = "start" THEN "mark" ELSE "send"]
  /\ UNCHANGED <<journalVars, up, crashes, conn, inbox, runs, replies, historyVars>>

\* There is no executor, it refuses to be connected to, or the connection was
\* made and its authentication failed, which uses the listener up.
Unreachable ==
  /\ slot = "empty"
  /\ \/ UNCHANGED executor
     \/ executor = "listening" /\ executor' = "taken"

\* release_start_artifacts: both rows go or, if the transaction fails, neither.
ReleaseStart ==
  /\ At("prepare", "start")
  /\ Unreachable
  /\ \/ /\ txn = None
        /\ claims' = claims \ {hnd.mut}
        /\ receipts' = [receipts EXCEPT ![hnd.mut] =
                          [job |-> hnd.mut, state |-> "none"]]
        /\ UNCHANGED <<txn, faults>>
     \/ Refused /\ UNCHANGED <<claims, receipts>>
  /\ hnd' = Book({}, "unavailable")
  /\ UNCHANGED <<up, crashes, conn, slot, inbox, runs, replies, historyVars>>

\* Only a broker that has no executor gives the claim of a cancel back.  A
\* DELETE that fails can roll the open transaction back, the claim with it.
CancelUnavailable ==
  /\ At("prepare", "cancel")
  /\ Unreachable
  /\ \/ executor # "absent" /\ UNCHANGED <<claims, txn, faults>>
     \/ /\ executor = "absent"
        /\ \/ /\ claims' = claims \ {hnd.mut}
              /\ txn' = IF txn = None THEN None
                        ELSE [txn EXCEPT !.claims = @ \ {hnd.mut}]
              /\ UNCHANGED faults
           \/ Fault /\ UNCHANGED claims /\ txn' \in {txn, None}
  /\ hnd' = Book({}, "unavailable")
  /\ UNCHANGED <<receipts, up, crashes, conn, slot, inbox, runs, replies,
                 historyVars>>

ReadUnavailable ==
  /\ At("prepare", "read")
  /\ Unreachable
  /\ hnd' = Book({}, "unavailable")
  /\ UNCHANGED <<journalVars, up, crashes, conn, slot, inbox, runs, replies,
                 historyVars>>

\* Mutant of MarkDispatched: the frame goes out over a pending receipt.
SendUnmarked ==
  /\ At("mark", "start")
  /\ hnd' = [hnd EXCEPT !.pc = "send"]
  /\ UNCHANGED <<journalVars, up, crashes, conn, slot, executorVars, replies, historyVars>>

\* The journal says dispatched before the first byte of the frame is written.
MarkDispatched ==
  /\ At("mark", "start")
  /\ txn = None
  /\ receipts' = WithState({hnd.mut}, "dispatched")
  /\ hnd' = [hnd EXCEPT !.pc = "send"]
  /\ UNCHANGED <<claims, txn, faults, up, crashes, conn, slot, executorVars, replies,
                 historyVars>>

\* A failed transition of a start answers nothing and ends the connection.
TransitionFails ==
  /\ At("mark", "start") \/ At("complete", "start")
  /\ WriteFails(hnd.mut, [receipts[hnd.mut] EXCEPT
                            !.state = IF hnd.pc = "mark" THEN "dispatched"
                                      ELSE "completed"])
  /\ hnd' = Idle
  /\ conn' = Closed
  /\ UNCHANGED <<claims, up, crashes, slot, executorVars, replies, historyVars>>

\* The frame arrives whole, or the write fails or reaches nobody.
Send ==
  /\ up
  /\ hnd.pc = "send"
  /\ \/ /\ executor = "taken"
        /\ inbox' = inbox \cup {[kind |-> hnd.kind, mut |-> hnd.mut, jobs |-> hnd.jobs]}
     \/ UNCHANGED inbox
  /\ hnd' = [hnd EXCEPT !.pc = "await"]
  /\ UNCHANGED <<journalVars, up, crashes, conn, slot, executor, runs, replies,
                 historyVars>>

-----------------------------------------------------------------------------
(* The reply.  The echo check compares method and request id, not client.  *)

Echoes(rho) == /\ rho.kind = hnd.kind
               /\ rho.mut[2] = hnd.mut[2]
               /\ rho.verdict # "garbled"

Receive(rho) ==
  /\ rho \in replies
  /\ replies' = replies \ {rho}
  /\ UNCHANGED <<journalVars, up, crashes, slot, executorVars, historyVars>>

\* Mutant of ReceiveStart: a reply that makes no sense counts as a refusal.
ReceiveStartTrusting(rho) ==
  /\ At("await", "start")
  /\ Receive(rho)
  /\ hnd' = IF Echoes(rho) /\ rho.verdict = "ok"
            THEN [hnd EXCEPT !.pc = "bind", !.run = rho.run]
            ELSE [hnd EXCEPT !.pc = "complete"]
  /\ UNCHANGED conn

ReceiveStart(rho) ==
  /\ At("await", "start")
  /\ Receive(rho)
  /\ hnd' = CASE ~Echoes(rho) -> [hnd EXCEPT !.pc = "doubt", !.out = "closed"]
              [] Echoes(rho) /\ rho.verdict = "ok" ->
                   [hnd EXCEPT !.pc = "bind", !.run = rho.run]
              [] OTHER -> [hnd EXCEPT !.pc = "complete"]
  /\ UNCHANGED conn

\* A cancel books the jobs it named that the runtime reports terminal, and
\* doubts all of them when the reply cannot be trusted.
ReceiveCancel(rho) ==
  /\ At("await", "cancel")
  /\ Receive(rho)
  /\ hnd' = CASE ~Echoes(rho) -> Book(hnd.jobs, "error")
              [] Echoes(rho) /\ rho.verdict = "ok" ->
                   Book(rho.settled \cap hnd.jobs, "settled")
              [] OTHER -> Book({}, "refused")
  /\ UNCHANGED conn

\* Mutant of ReceiveRead: any successful status settles the job.
ReceiveReadEager(rho) ==
  /\ At("await", "read")
  /\ Receive(rho)
  /\ IF Echoes(rho)
     THEN /\ hnd' = Book(IF rho.verdict = "ok" THEN hnd.jobs ELSE {}, "settled")
          /\ UNCHANGED conn
     ELSE /\ hnd' = Idle
          /\ conn' = Closed

\* A result settles the job that was asked for; the reply's own run id is not
\* compared with it.
ReceiveRead(rho) ==
  /\ At("await", "read")
  /\ Receive(rho)
  /\ IF Echoes(rho)
     THEN /\ hnd' = Book(IF rho.settled = {} THEN {} ELSE hnd.jobs, "settled")
          /\ UNCHANGED conn
     ELSE /\ hnd' = Idle
          /\ conn' = Closed

GiveUp(kind) == CASE kind = "start" -> [hnd EXCEPT !.pc = "doubt", !.out = "timeout"]
                 [] kind = "cancel" -> Book(hnd.jobs, "timeout")
                 [] OTHER -> Book({}, "timeout")

\* Mutant of LoseReply: the channel is kept, and the late reply with it.
LoseReplyKeepChannel ==
  /\ up
  /\ hnd.pc = "await"
  /\ hnd' = GiveUp(hnd.kind)
  /\ UNCHANGED <<journalVars, up, crashes, conn, slot, executorVars, replies, historyVars>>

\* Mutant of LoseReply: no timeout, only a broken channel ends the wait.
LoseReplyNoTimeout ==
  /\ up
  /\ hnd.pc = "await"
  /\ executor = "gone"
  /\ slot' = "empty"
  /\ replies' = {}
  /\ hnd' = GiveUp(hnd.kind)
  /\ UNCHANGED <<journalVars, up, crashes, conn, executorVars, historyVars>>

\* The wait times out, the reply is cut short or the channel breaks: the slot
\* is emptied, and what still arrives on the old connection is lost.
LoseReply ==
  /\ up
  /\ hnd.pc = "await"
  /\ slot' = "empty"
  /\ replies' = {}
  /\ hnd' = GiveUp(hnd.kind)
  /\ UNCHANGED <<journalVars, up, crashes, conn, executorVars, historyVars>>

-----------------------------------------------------------------------------
(* Writing the outcome down and answering.                                 *)

\* The primary key of the row of another start refuses the id.
Taken == \E m \in RowsOf(hnd.run) : m # hnd.mut /\ Exists(m)

\* bind_dispatched_job: the runtime's id replaces the provisional one.
BindJob ==
  /\ At("bind", "start")
  /\ txn = None
  /\ ~Taken
  /\ receipts' = [receipts EXCEPT ![hnd.mut] =
                    [job |-> hnd.run, state |-> "dispatched"]]
  /\ hnd' = Book({}, "started")
  /\ UNCHANGED <<claims, txn, faults, up, crashes, conn, slot, executorVars, replies,
                 historyVars>>

BindFails ==
  /\ At("bind", "start")
  /\ \/ Taken /\ UNCHANGED <<receipts, txn, faults>>
     \/ ~Taken /\ WriteFails(hnd.mut, [job |-> hnd.run, state |-> "dispatched"])
  /\ hnd' = [hnd EXCEPT !.pc = "doubt", !.out = "closed"]
  /\ UNCHANGED <<claims, up, crashes, conn, slot, executorVars, replies,
                 historyVars>>

CompleteStart ==
  /\ At("complete", "start")
  /\ txn = None
  /\ receipts' = WithState({hnd.mut}, "completed")
  /\ over' = over \cup {hnd.mut}
  /\ hnd' = Book({}, "refused")
  /\ UNCHANGED <<claims, txn, faults, up, crashes, conn, slot, executorVars, replies,
                 told, seen>>

\* Mutants of DoubtStart: the id is given back, or the doubt not written down.
DoubtReleases ==
  /\ At("doubt", "start")
  /\ claims' = claims \ {hnd.mut}
  /\ receipts' = [receipts EXCEPT ![hnd.mut] = [job |-> hnd.mut, state |-> "none"]]
  /\ hnd' = Book({}, hnd.out)
  /\ UNCHANGED <<txn, faults, up, crashes, conn, slot, executorVars, replies, historyVars>>
DoubtUnwritten ==
  /\ At("doubt", "start")
  /\ hnd' = Book({}, hnd.out)
  /\ UNCHANGED <<journalVars, up, crashes, conn, slot, executorVars, replies,
                 historyVars>>

\* A transition to outcome_unknown that fails is ignored.
DoubtStart ==
  /\ At("doubt", "start")
  /\ \/ /\ txn = None
        /\ receipts' = WithState({hnd.mut}, "outcome_unknown")
        /\ UNCHANGED <<txn, faults>>
     \/ WriteFails(hnd.mut, [receipts[hnd.mut] EXCEPT !.state = "outcome_unknown"])
  /\ hnd' = Book({}, hnd.out)
  /\ UNCHANGED <<claims, up, crashes, conn, slot, executorVars, replies, historyVars>>

Booked == IF hnd.out = "settled" THEN "completed" ELSE "outcome_unknown"

\* transition_job, one job and one transaction at a time, whatever the state
\* the row is in; failures are ignored.
BookJob(j) ==
  /\ up
  /\ hnd.pc = "book"
  /\ j \in hnd.todo
  /\ \/ /\ txn = None
        /\ receipts' = WithState(RowsOf(j), Booked)
        /\ over' = IF Booked = "completed" THEN over \cup {m \in RowsOf(j) : Exists(m)}
                   ELSE over
        /\ UNCHANGED <<txn, faults>>
     \/ Refused /\ UNCHANGED <<receipts, over>>
     \/ /\ \E m \in RowsOf(j) :
             Exists(m) /\ WriteFails(m, [receipts[m] EXCEPT !.state = Booked])
        /\ UNCHANGED over
  /\ hnd' = [hnd EXCEPT !.todo = @ \ {j}]
  /\ UNCHANGED <<claims, up, crashes, conn, slot, executorVars, replies, told, seen>>

\* The answer reaches the client, or the connection is gone.
Reply ==
  /\ up
  /\ hnd.pc = "book"
  /\ hnd.todo = {}
  /\ hnd' = Idle
  /\ \/ /\ conn' = IF hnd.out = "closed" THEN Closed ELSE conn
        /\ told' = IF hnd.kind = "start" THEN [told EXCEPT ![hnd.mut] = hnd.out]
                   ELSE told
     \/ /\ conn' = Closed
        /\ UNCHANGED told
  /\ UNCHANGED <<journalVars, up, crashes, slot, executorVars, replies, seen, over>>

-----------------------------------------------------------------------------
(* The executor in the Node host.                                          *)

\* The host's answer to frame f; nobody reads it on a connection that the
\* broker has given up.  A reply the broker cannot make sense of is garbled.
Answer(f, verdict, run, settled) ==
  /\ inbox' = inbox \ {f}
  /\ \E v \in {verdict, "garbled"} :
       replies' = IF slot = "open"
                  THEN replies \cup {[kind |-> f.kind, mut |-> f.mut, verdict |-> v,
                                      run |-> run, settled |-> settled]}
                  ELSE replies

ServeStart(f, r) ==
  /\ f \in inbox /\ f.kind = "start"
  /\ runs[r].state = "free"
  /\ runs' = [runs EXCEPT ![r] = [owner |-> f.mut, state |-> "running"]]
  /\ Answer(f, "ok", r, {})
  /\ UNCHANGED <<journalVars, up, crashes, conn, hnd, slot, executor, historyVars>>

\* No runtime behind the executor or one that throws: no capacity, no model, an
\* unsupported option, an unknown run, or the result of a run that has none.
ServeRefuse(f) ==
  /\ f \in inbox
  /\ Answer(f, "refused", None, {})
  /\ UNCHANGED <<journalVars, up, crashes, conn, hnd, slot, executor, runs,
                 historyVars>>

Known(j) == j \in RunIds /\ runs[j].state \in {"running", "ended"}

\* cancelAndSettle: a run is cancelled the moment it is asked for.
ServeCancel(f) ==
  /\ f \in inbox /\ f.kind = "cancel"
  /\ runs' = [r \in RunIds |-> IF r \in f.jobs /\ Known(r)
                               THEN [runs[r] EXCEPT !.state = "ended"]
                               ELSE runs[r]]
  /\ Answer(f, "ok", None, {j \in f.jobs : Known(j)})
  /\ UNCHANGED <<journalVars, up, crashes, conn, hnd, slot, executor, historyVars>>

ServeRead(f) ==
  /\ f \in inbox /\ f.kind = "read"
  /\ \A j \in f.jobs : Known(j)
  /\ Answer(f, "ok", None,
            {j \in f.jobs : Known(j) /\ runs[j].state = "ended"})
  /\ UNCHANGED <<journalVars, up, crashes, conn, hnd, slot, executor, runs,
                 historyVars>>

RunEnds(r) ==
  /\ runs[r].state = "running"
  /\ runs' = [runs EXCEPT ![r].state = "ended"]
  /\ UNCHANGED <<journalVars, up, crashes, conn, hnd, slot, executor, inbox,
                 replies, historyVars>>

\* prune and enforceRunBound drop runs that are not running.
ForgetRun(r) ==
  /\ runs[r].state = "ended"
  /\ runs' = [runs EXCEPT ![r].state = "gone"]
  /\ UNCHANGED <<journalVars, up, crashes, conn, hnd, slot, executor, inbox,
                 replies, historyVars>>

-----------------------------------------------------------------------------
(* Deaths and restarts.                                                    *)

Lost == [r \in RunIds |-> IF Known(r) THEN [runs[r] EXCEPT !.state = "gone"]
                          ELSE runs[r]]

\* The broker process is killed, exits or panics at any point; what it had not
\* committed is gone.
Crash ==
  /\ up
  /\ crashes < MaxCrashes
  /\ txn' = None
  /\ up' = FALSE
  /\ crashes' = crashes + 1
  /\ conn' = Closed
  /\ hnd' = Idle
  /\ slot' = "empty"
  /\ replies' = {}
  /\ UNCHANGED <<claims, receipts, faults, executorVars, historyVars>>

\* The Node host is killed; the broker is not told.
ExecutorDies ==
  /\ executor \in {"listening", "taken"}
  /\ executor' = "gone"
  /\ inbox' = {}
  /\ runs' = Lost
  /\ UNCHANGED <<journalVars, up, crashes, conn, hnd, slot, replies, historyVars>>

Recovered(states) == {m \in Starts : receipts[m].state \in states}

RestartWith(rows) ==
  /\ ~up
  /\ up' = TRUE
  /\ receipts' = rows
  /\ executor' \in {"absent", "listening"}
  /\ inbox' = {}
  /\ runs' = Lost
  /\ UNCHANGED <<claims, txn, faults, crashes, conn, hnd, slot, replies, historyVars>>

\* Mutants of Restart: recovery forgets the starts that were not dispatched,
\* or leaves them pending.
RestartForgetsPending == RestartWith(WithState(Recovered({"pending"}), "none"))
RestartSkipsPending == RestartWith(WithState(Recovered({"dispatched"}), "outcome_unknown"))

\* A new host and a new broker: recover_incomplete_jobs runs before the
\* socket is bound.
Restart ==
  RestartWith(WithState(Recovered({"pending", "dispatched"}), "outcome_unknown"))

-----------------------------------------------------------------------------
\* The steps of a handler that end by themselves: on the journal, on reaching
\* the executor, and the wait for its reply, which has a timeout.
BoundedStep ==
  \/ Prepare \/ ReleaseStart \/ CancelUnavailable \/ ReadUnavailable
  \/ MarkDispatched \/ TransitionFails
  \/ \E rho \in replies : ReceiveStart(rho) \/ ReceiveCancel(rho) \/ ReceiveRead(rho)
  \/ LoseReply
  \/ BindJob \/ BindFails \/ CompleteStart \/ DoubtStart
  \/ \E j \in hnd.todo : BookJob(j)

\* A write to the executor or to the client has no timeout: it ends when the
\* peer makes room for it or goes away.
HandlerStep == BoundedStep \/ Send \/ Reply

ClientStep ==
  \/ \E c \in Clients, methods \in Grants : Connect(c, methods)
  \/ Disconnect
  \/ StatementFails
  \/ \E m \in Starts : Query(m) \/ ClaimStart(m) \/ RefuseStart(m)
  \/ \E m \in Controls, J \in SUBSET Jobs : J # {} /\ ClaimCancel(m, J)
  \/ \E m \in Controls : BeginRead(m, {}) \/ \E j \in Jobs : BeginRead(m, {j})

ExecutorStep ==
  \/ \E f \in inbox : \/ \E r \in RunIds : ServeStart(f, r)
                      \/ ServeRefuse(f) \/ ServeCancel(f) \/ ServeRead(f)
  \/ \E r \in RunIds : RunEnds(r) \/ ForgetRun(r)

Next == HandlerStep \/ ClientStep \/ ExecutorStep \/ Crash \/ ExecutorDies \/ Restart

Spec == Init /\ [][Next]_vars

\* The wait for a reply has a timeout (60 s, or the settlement window plus 5 s)
\* and the journal is local; nothing is assumed of the writes to peers.
FairSpec == Spec /\ WF_vars(BoundedStep)

\* The same with peers that take everything that is written to them.
DrainedSpec == Spec /\ WF_vars(HandlerStep)

-----------------------------------------------------------------------------
(* Properties.                                                             *)

\* Every variable holds the kind of value the code keeps in it.
TypeOK ==
  /\ claims \subseteq Mutations
  /\ receipts \in [Starts -> Receipts]
  /\ txn \in Transactions \cup {None}
  /\ faults \in 0..MaxFaults
  /\ up \in BOOLEAN
  /\ crashes \in 0..MaxCrashes
  /\ conn \in [client : Clients \cup {None}, methods : SUBSET Methods]
  /\ hnd \in Handlers
  /\ slot \in {"open", "empty"}
  /\ executor \in {"absent", "listening", "taken", "gone"}
  /\ inbox \subseteq Frames
  /\ replies \subseteq Replies
  /\ runs \in [RunIds -> [owner : Starts \cup {None},
                          state : {"free", "running", "ended", "gone"}]]
  /\ told \in [Starts -> Answers]
  /\ seen \subseteq Starts
  /\ over \subseteq Starts

\* However often a client repeats a start, loses the answer or reconnects, and
\* whenever the broker dies or gives up on a reply, the executor starts at
\* most one run for it ("Auto-retry is strictly forbidden").
AtMostOnce ==
  \A r1, r2 \in RunIds :
    runs[r1].owner = runs[r2].owner /\ runs[r1].owner # None => r1 = r2

\* Nothing runs that the journal does not know of: a start whose frame can
\* still be acted on, or was, has its claim and a receipt past pending.
WriteAhead ==
  \A m \in Starts :
    Started(m) \/ (\E f \in inbox : f.kind = "start" /\ f.mut = m)
      => m \in claims /\ receipts[m].state \notin {"none", "pending"}

\* A receipt keeps its claim, however starts and cancels share their ids and
\* give claims back: while it can be queried, no start creates it anew.
ReceiptIsClaimed == \A m \in Starts : Exists(m) => m \in claims

\* A receipt, committed or only read, names the run that its own start created:
\* a late reply to one client's request is never taken for that to another's.
ReceiptNamesOwnRun ==
  \A m \in Starts : \A row \in {receipts[m], Row(m)} :
    row.job # m => row.job \in RunIds /\ runs[row.job].owner = m

\* The executor is asked about or told to cancel a run only on behalf of the
\* client whose start created it.
FramesStayWithOwner ==
  \A f \in inbox : \A r \in f.jobs \cap RunIds : runs[r].owner[1] = f.mut[1]

\* The journal calls a job completed only when its run is over, or when the
\* start definitively created none.
CompletedIsOver ==
  \A m \in Starts : receipts[m].state = "completed" =>
    IF receipts[m].job = m THEN ~Started(m)
    ELSE runs[receipts[m].job].state \in {"ended", "gone"}

\* What a client was told of a start is so, and stays so through crashes.
AnswersAreTrue ==
  \A m \in Starts :
    /\ told[m] = "started" => receipts[m].job # m
    /\ told[m] \in {"refused", "unavailable"} => ~Started(m)

\* A committed receipt a client has been shown can be queried ever after, over
\* open transactions and their loss.
SeenStaysVisible ==
  \A m \in seen : Shows(m, Row(m)) /\ Shows(m, receipts[m])

\* While no journal statement has failed: a job is in flight under a provisional
\* id only while its handler is at work, so no client waits on it forever.
NoLimbo ==
  faults = 0 => \A m \in Starts :
    up /\ receipts[m].state \in {"pending", "dispatched"} /\ receipts[m].job = m
      => hnd.kind = "start" /\ hnd.mut = m

\* While no journal statement has failed: an answer "timeout" to a start is
\* backed by a receipt that says so, and "unavailable" leaves no receipt.
AnswersAreJournaled ==
  faults = 0 => \A m \in Starts :
    /\ told[m] = "timeout" => receipts[m].state \in {"outcome_unknown", "completed"}
    /\ told[m] = "unavailable" => ~Exists(m)

\* Every request comes to its answer, or to a write its peer does not take: the
\* one thread that serves all clients is never lost to an executor that is
\* silent, dead or replaced.
HandlerReachesAnswer ==
  (hnd # Idle) ~> \/ hnd = Idle
                  \/ hnd.pc = "send"
                  \/ hnd.pc = "book" /\ hnd.todo = {}

\* What a row of the journal means to a client.
Meaning(state) == CASE state = "none" -> "none"
                    [] state \in {"pending", "dispatched"} -> "accepted"
                    [] state = "outcome_unknown" -> "doubtful"
                    [] OTHER -> "settled"

LedgerJournal  == [m \in Starts |-> Meaning(receipts[m].state)]
LedgerExecuted == {m \in Starts : Started(m)}

\* The broker implements the ledger: its entries are what is committed.
Ledger == INSTANCE SubmissionLedger WITH
  Mutations <- Starts, journal <- LedgerJournal, executed <- LedgerExecuted,
  settled <- over

\* Every behaviour of the broker is one the ledger allows: accepted before it
\* is executed, executed once, withdrawn only when it never was, and not
\* executed once it was settled, even if a later cancel puts it in doubt.
ImplementsLedger == Ledger!LedgerSpec

\* What the state of a run is to the runtime's contract: how a run ended makes
\* no difference to the broker, nor whether the runtime was lost with it.
Standing(state) == CASE state = "free"    -> "none"
                     [] state = "running" -> "running"
                     [] OTHER             -> "cancelled"

ContractRuns == [r \in RunIds |-> Standing(runs[r].state)]

Contract == INSTANCE RuntimeRuns WITH Runs <- RunIds, run <- ContractRuns

\* What the broker takes the runtime to do with its runs, whatever frames come
\* twice or late and whoever dies, is what the contract of runs allows.
ReliesOnRuns == Contract!RunsSpec

-----------------------------------------------------------------------------
(* What comments and documents say of the broker, and the code does not do. *)

\* ADR 0010, "If the Node executor dies, the Rust broker immediately ... maps
\* pending/dispatched transactions to outcome_unknown, and shuts down."
ExecutorDeathIsNoticed ==
  \A m \in Starts :
    (executor = "gone" /\ receipts[m].state = "dispatched")
      ~> (receipts[m].state # "dispatched")
=============================================================================
