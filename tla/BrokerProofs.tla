---------------------------- MODULE BrokerProofs ----------------------------
(***************************************************************************)
(* The broker's safety properties and its refinement of the ledger, proved *)
(* for any number of clients, request ids, runs, journal failures and      *)
(* crashes.                                                                *)
(***************************************************************************)
EXTENDS Broker, TLAPS

(***************************************************************************)
(* The inductive invariant.                                                *)
(***************************************************************************)
StartFrames == {f \in inbox : f.kind = "start"}

\* TypeOK says which kind of value a variable holds; this, which values the
\* fields of one record hold together.
Shapes ==
  /\ hnd.kind = "start" => hnd.mut \in Starts /\ hnd.jobs = {}
  /\ hnd.kind \in {"cancel", "read"} => hnd.mut \in Controls
  /\ hnd.pc = "bind" => hnd.run \in RunIds
  /\ hnd.pc \in {"mark", "bind", "complete", "doubt"} => hnd.kind = "start"
  /\ hnd.pc # "idle" => hnd.kind # "none" /\ hnd.mut \in Mutations
  /\ ~up => hnd = Idle
  /\ \A f \in StartFrames : f.mut \in Starts /\ f.jobs = {}
  /\ \A rho \in replies : rho.kind = "start" /\ rho.verdict = "ok" => rho.run \in RunIds
  /\ \A r \in RunIds : runs[r].state = "free" <=> runs[r].owner = None

\* The rows of the journal: one that exists is claimed, an absent one is blank,
\* a provisional id is that of its own row, and the primary key is one.  An open
\* transaction is about a row that exists and is past pending in it.
Journal ==
  /\ ReceiptIsClaimed
  /\ \A m \in Starts : ~Exists(m) => receipts[m].job = m
  /\ \A m \in Starts : receipts[m].job \in RunIds \cup {m}
  /\ \A m1, m2 \in Starts : receipts[m1].job = receipts[m2].job => m1 = m2
  /\ txn # None => /\ Exists(txn.mut)
                   /\ txn.row.state \notin {"none", "pending"}
                   /\ faults > 0

\* What the journal says of the start being handled; and a cancel that may
\* still give its claim back holds one that no receipt needs.
Journaled ==
  /\ hnd.kind = "start" =>
       /\ hnd.pc \in {"prepare", "mark"} =>
            receipts[hnd.mut] = [job |-> hnd.mut, state |-> "pending"]
       /\ hnd.pc \in {"send", "await", "bind", "complete", "doubt"} =>
            receipts[hnd.mut] = [job |-> hnd.mut, state |-> "dispatched"]
  /\ hnd.kind = "cancel" /\ hnd.pc = "prepare" =>
       \A m \in Starts : m = hnd.mut => ~Exists(m)

\* A frame not yet handled and a run are alternatives, both are journaled, and
\* a handler that has not sent its frame has neither.
Executed ==
  /\ AtMostOnce
  /\ \A r \in RunIds : runs[r].owner # None =>
       receipts[runs[r].owner].state \notin {"none", "pending"}
  /\ \A f \in StartFrames : /\ ~Started(f.mut)
                            /\ receipts[f.mut].state \notin {"none", "pending"}
  /\ hnd.kind = "start" /\ hnd.pc \in {"prepare", "mark", "send"} =>
       ~Started(hnd.mut) /\ \A f \in StartFrames : f.mut # hnd.mut

IInv == TypeOK /\ Shapes /\ Journal /\ Journaled /\ Executed

\* The channel: while it is open, what is on it belongs to the one request
\* being handled; once the broker gives it up nothing on it is ever read.
Channel ==
  /\ ~up => slot = "empty"
  /\ slot = "empty" => replies = {}
  /\ executor \in {"absent", "listening"} => slot = "empty" /\ inbox = {}
  /\ hnd.pc \in {"mark", "send", "await", "bind", "complete"} => slot = "open"
  /\ slot = "open" =>
       /\ \A f \in inbox : /\ hnd.pc = "await" /\ replies = {}
                           /\ f = [kind |-> hnd.kind, mut |-> hnd.mut, jobs |-> hnd.jobs]
       /\ \A rho \in replies : /\ hnd.pc = "await"
                               /\ rho.kind = hnd.kind /\ rho.mut = hnd.mut
       /\ \A rho1, rho2 \in replies : rho1 = rho2

\* A reply that carries a run, and a handler about to bind one, have the run
\* that the start made.
OwnReply ==
  /\ \A rho \in replies : rho.kind = "start" /\ rho.verdict = "ok" =>
       runs[rho.run].owner = rho.mut
  /\ hnd.pc = "bind" => runs[hnd.run].owner = hnd.mut

\* A request in the handler or on its way names runs of its own client only.
OwnJobs ==
  /\ \A r \in hnd.jobs \cap RunIds :
       runs[r].owner \in Starts /\ runs[r].owner[1] = hnd.mut[1]
  /\ \A f \in inbox : \A r \in f.jobs \cap RunIds :
       runs[r].owner \in Starts /\ runs[r].owner[1] = f.mut[1]

ChannelInv == IInv /\ Channel /\ OwnReply /\ ReceiptNamesOwnRun /\ OwnJobs

-----------------------------------------------------------------------------
LEMMA InitIInv == Init => IInv
  BY BrokerAssumption
     DEF Init, IInv, TypeOK, Shapes, Journal, Journaled, Executed, ReceiptIsClaimed,
         AtMostOnce, Started, Exists, StartFrames, Idle, Closed, Handlers, Receipts,
         ReceiptStates, Jobs, Answers, Methods

\* What a statement that fails leaves: the rows as they were, and one failure
\* more or the transaction that was open before.
LEMMA RefusedIs ==
  ASSUME TypeOK, Refused
  PROVE  /\ UNCHANGED txn
         /\ faults' \in 0..MaxFaults
         /\ faults' = faults \/ faults' = faults + 1
         /\ txn # None => faults' = faults
         /\ txn = None => faults' > 0
  BY BrokerAssumption DEF TypeOK, Refused, Fault

LEMMA WriteFailsIs ==
  ASSUME TypeOK, NEW m \in Starts, NEW row \in Receipts, WriteFails(m, row)
  PROVE  /\ UNCHANGED receipts
         /\ faults' \in 0..MaxFaults
         /\ faults' = faults \/ faults' = faults + 1
         /\ \/ txn' = txn
            \/ /\ txn' = [mut |-> m, row |-> row, claims |-> {}]
               /\ txn = None
         /\ txn = None => faults' > 0
         /\ txn' \in Transactions \cup {None}
<1>1. CASE Refused
  BY <1>1, RefusedIs DEF WriteFails, TypeOK
<1>2. CASE Fault /\ txn = None /\ txn' = [mut |-> m, row |-> row, claims |-> {}]
  BY <1>2, BrokerAssumption DEF WriteFails, TypeOK, Fault, Transactions
<1> QED
  BY <1>1, <1>2 DEF WriteFails

LEMMA BookType ==
  ASSUME TypeOK, NEW todo \in SUBSET Jobs, NEW out \in Answers
  PROVE  Book(todo, out) \in Handlers
  BY DEF TypeOK, Book, Handlers

LEMMA IdleType == Idle \in Handlers /\ Idle = [Idle EXCEPT !.pc = "idle"]
  BY DEF Idle, Handlers, Answers

LEMMA WithStateType ==
  ASSUME TypeOK, NEW M, NEW state \in ReceiptStates
  PROVE  WithState(M, state) \in [Starts -> Receipts]
  BY DEF TypeOK, WithState, Receipts

LEMMA TypeOKStep == IInv /\ [Next]_vars => TypeOK'
<1> SUFFICES ASSUME IInv, [Next]_vars PROVE TypeOK'
  OBVIOUS
<1> USE DEF IInv, TypeOK
<1>1. CASE UNCHANGED vars
  BY <1>1 DEF vars
<1>2. CASE HandlerStep
  <2> USE DEF Handlers, journalVars, executorVars, historyVars, Shapes
  <2>1. CASE Prepare
    BY <2>1 DEF Prepare
  <2>2. CASE ReleaseStart
    <3>1. hnd' \in Handlers
      BY <2>2, BookType DEF ReleaseStart, Answers
    <3>2. receipts' \in [Starts -> Receipts] /\ claims' \subseteq Mutations
      BY <2>2 DEF ReleaseStart, At, Receipts, ReceiptStates, Jobs
    <3>3. txn' \in Transactions \cup {None} /\ faults' \in 0..MaxFaults
      BY <2>2, RefusedIs DEF ReleaseStart
    <3> QED
      BY <2>2, <3>1, <3>2, <3>3 DEF ReleaseStart, Unreachable
  <2>3. CASE CancelUnavailable \/ ReadUnavailable
    <3>1. hnd' \in Handlers
      BY <2>3, BookType DEF CancelUnavailable, ReadUnavailable, Answers
    <3>2. txn' \in Transactions \cup {None} /\ faults' \in 0..MaxFaults
      BY <2>3, BrokerAssumption
         DEF CancelUnavailable, ReadUnavailable, Fault, Transactions
    <3>3. claims' \subseteq Mutations
      BY <2>3 DEF CancelUnavailable, ReadUnavailable
    <3> QED
      BY <2>3, <3>1, <3>2, <3>3 DEF CancelUnavailable, ReadUnavailable, Unreachable
  <2>4. CASE MarkDispatched
    <3>1. receipts' \in [Starts -> Receipts]
      BY <2>4, WithStateType DEF MarkDispatched, ReceiptStates
    <3> QED
      BY <2>4, <3>1 DEF MarkDispatched, At
  <2>5. CASE TransitionFails
    <3>1. receipts[hnd.mut] \in Receipts /\ hnd.mut \in Starts
      BY <2>5 DEF TransitionFails, At
    <3>2. [receipts[hnd.mut] EXCEPT !.state = IF hnd.pc = "mark" THEN "dispatched"
                                              ELSE "completed"] \in Receipts
      BY <3>1 DEF Receipts, ReceiptStates
    <3> QED
      BY <2>5, <3>1, <3>2, WriteFailsIs, IdleType DEF TransitionFails, Closed
  <2>6. CASE Send
    BY <2>6 DEF Send, Frames, Methods
  <2>7. ASSUME NEW rho \in replies, ReceiveStart(rho) PROVE TypeOK'
    BY <2>7 DEF ReceiveStart, Receive, At, Replies, Answers
  <2>8. ASSUME NEW rho \in replies, ReceiveCancel(rho) PROVE TypeOK'
    BY <2>8 DEF ReceiveCancel, Receive, At, Replies, Answers, Book
  <2>9. ASSUME NEW rho \in replies, ReceiveRead(rho) PROVE TypeOK'
    <3>1. hnd' \in Handlers
      BY <2>9, BookType, IdleType DEF ReceiveRead, Answers
    <3> QED
      BY <2>9, <3>1 DEF ReceiveRead, Receive, Closed
  <2>10. CASE LoseReply
    <3>0. hnd' \in {[hnd EXCEPT !.pc = "doubt", !.out = "timeout"],
                   Book(hnd.jobs, "timeout"), Book({}, "timeout")}
      BY <2>10 DEF LoseReply, GiveUp
    <3>1. hnd' \in Handlers
      <4>1. hnd.jobs \in SUBSET Jobs /\ {} \in SUBSET Jobs /\ "timeout" \in Answers
        BY DEF Answers
      <4>2. [hnd EXCEPT !.pc = "doubt", !.out = "timeout"] \in Handlers
        BY <4>1
      <4>3. Book(hnd.jobs, "timeout") \in Handlers /\ Book({}, "timeout") \in Handlers
        BY <4>1, BookType
      <4> HIDE DEF Handlers
      <4> QED
        BY <3>0, <4>2, <4>3
    <3> QED
      BY <2>10, <3>1 DEF LoseReply
  <2>11. CASE BindJob
    BY <2>11 DEF BindJob, At, Book, Answers, Receipts, ReceiptStates, Jobs
  <2>12. CASE BindFails
    <3>1. hnd.mut \in Starts /\ hnd.run \in RunIds
      BY <2>12 DEF BindFails, At
    <3>2. [job |-> hnd.run, state |-> "dispatched"] \in Receipts
      BY <3>1 DEF Receipts, ReceiptStates, Jobs
    <3>3. hnd' \in Handlers
      BY <2>12 DEF BindFails, Answers
    <3>4. /\ txn' \in Transactions \cup {None} /\ faults' \in 0..MaxFaults
          /\ UNCHANGED receipts
      BY <2>12, <3>1, <3>2, WriteFailsIs DEF BindFails
    <3> QED
      BY <2>12, <3>3, <3>4 DEF BindFails
  <2>13. CASE CompleteStart \/ DoubtStart
    <3>1. hnd.out \in Answers
      OBVIOUS
    <3>0. hnd' \in Handlers
      BY <2>13, <3>1, BookType DEF CompleteStart, DoubtStart, Answers
    <3>2. receipts' \in [Starts -> Receipts]
      <4>1. CASE receipts' = receipts
        BY <4>1
      <4> QED
        BY <2>13, <4>1, WithStateType
           DEF CompleteStart, DoubtStart, ReceiptStates, WriteFails
    <3>3. hnd.mut \in Starts
      BY <2>13 DEF CompleteStart, DoubtStart, At
    <3>4. [receipts[hnd.mut] EXCEPT !.state = "outcome_unknown"] \in Receipts
      BY <3>3 DEF Receipts, ReceiptStates
    <3>5. txn' \in Transactions \cup {None} /\ faults' \in 0..MaxFaults
      BY <2>13, <3>3, <3>4, WriteFailsIs DEF CompleteStart, DoubtStart
    <3>6. over' \subseteq Starts
      BY <2>13, <3>3 DEF CompleteStart, DoubtStart
    <3> QED
      BY <2>13, <3>0, <3>2, <3>5, <3>6 DEF CompleteStart, DoubtStart
  <2>14. ASSUME NEW j \in hnd.todo, BookJob(j) PROVE TypeOK'
    <3>1. receipts' \in [Starts -> Receipts]
      <4>1. CASE receipts' = receipts
        BY <4>1
      <4> QED
        BY <2>14, <4>1, WithStateType DEF BookJob, Booked, ReceiptStates, WriteFails
    <3>2. ASSUME NEW m \in Starts
          PROVE  [receipts[m] EXCEPT !.state = Booked] \in Receipts
      BY DEF Receipts, ReceiptStates, Booked
    <3>3. txn' \in Transactions \cup {None} /\ faults' \in 0..MaxFaults
      BY <2>14, <3>2, RefusedIs, WriteFailsIs DEF BookJob, RowsOf
    <3>4. over' \subseteq Starts
      BY <2>14 DEF BookJob, RowsOf
    <3>5. hnd' \in Handlers
      BY <2>14 DEF BookJob
    <3> QED
      BY <2>14, <3>1, <3>3, <3>4, <3>5 DEF BookJob
  <2>15. CASE Reply
    BY <2>15 DEF Reply, Idle, Closed, Answers
  <2> QED
    BY <1>2, <2>1, <2>2, <2>3, <2>4, <2>5, <2>6, <2>7, <2>8, <2>9, <2>10, <2>11,
       <2>12, <2>13, <2>14, <2>15 DEF HandlerStep, BoundedStep
<1>3. CASE ClientStep
  <2> USE DEF journalVars, executorVars, historyVars
  <2>1. ASSUME NEW c \in Clients, NEW methods \in Grants, Connect(c, methods)
        PROVE  TypeOK'
    BY <2>1, BrokerAssumption DEF Connect
  <2>2. CASE Disconnect
    BY <2>2 DEF Disconnect, Closed
  <2>3. ASSUME NEW m \in Starts, Query(m) PROVE TypeOK'
    BY <2>3 DEF Query
  <2>4. ASSUME NEW m \in Starts, ClaimStart(m) PROVE TypeOK'
    <3>1. hnd' \in Handlers
      BY <2>4 DEF ClaimStart, Idle, Handlers, Methods, Mutations, Answers
    <3>2. receipts' \in [Starts -> Receipts]
      BY <2>4 DEF ClaimStart, Receipts, ReceiptStates, Jobs
    <3> QED
      BY <2>4, <3>1, <3>2 DEF ClaimStart, Mutations, Answers
  <2>5. ASSUME NEW m \in Starts, RefuseStart(m) PROVE TypeOK'
    BY <2>5, RefusedIs DEF RefuseStart, Closed
  <2>6. ASSUME NEW m \in Controls, NEW J \in SUBSET Jobs, ClaimCancel(m, J)
        PROVE  TypeOK'
    <3>1. hnd' \in Handlers
      BY <2>6 DEF ClaimCancel, Idle, Handlers, Methods, Mutations, Answers
    <3>2. txn' \in Transactions \cup {None} /\ claims' \subseteq Mutations
      BY <2>6 DEF ClaimCancel, Transactions, Mutations
    <3> QED
      BY <2>6, <3>1, <3>2 DEF ClaimCancel
  <2>7. ASSUME NEW m \in Controls, NEW J \in SUBSET Jobs, BeginRead(m, J)
        PROVE  TypeOK'
    <3>1. hnd' \in Handlers
      BY <2>7 DEF BeginRead, Idle, Handlers, Methods, Mutations, Answers
    <3> QED
      BY <2>7, <3>1 DEF BeginRead
  <2>8. CASE StatementFails
    BY <2>8, BrokerAssumption DEF StatementFails, Fault, Closed
  <2> QED
    BY <1>3, <2>1, <2>2, <2>3, <2>4, <2>5, <2>6, <2>7, <2>8 DEF ClientStep
<1>4. CASE ExecutorStep
  <2> USE DEF journalVars, historyVars
  <2>1. ASSUME NEW f \in inbox, NEW v \in Verdicts, NEW r \in RunIds \cup {None},
               NEW S \in SUBSET Jobs, Answer(f, v, r, S)
        PROVE  inbox' \subseteq Frames /\ replies' \subseteq Replies
    BY <2>1 DEF Answer, Frames, Replies, Verdicts
  <2>2. ASSUME NEW f \in inbox, NEW r \in RunIds, ServeStart(f, r) PROVE TypeOK'
    <3>1. f.mut \in Starts
      BY <2>2 DEF ServeStart, Shapes, StartFrames
    <3> QED
      BY <2>1, <2>2, <3>1 DEF ServeStart, Verdicts
  <2>3. ASSUME NEW f \in inbox, ServeRefuse(f) PROVE TypeOK'
    <3>1. inbox' \subseteq Frames /\ replies' \subseteq Replies
      <4>1. Answer(f, "refused", None, {}) /\ {} \in SUBSET Jobs /\ "refused" \in Verdicts
        BY <2>3 DEF ServeRefuse, Verdicts
      <4> QED
        BY <2>1, <4>1
    <3> QED
      BY <2>3, <3>1 DEF ServeRefuse
  <2>4. ASSUME NEW f \in inbox, ServeCancel(f) PROVE TypeOK'
    <3>1. {j \in f.jobs : Known(j)} \in SUBSET Jobs
      BY DEF Frames
    <3> QED
      BY <2>1, <2>4, <3>1 DEF ServeCancel, Verdicts
  <2>5. ASSUME NEW f \in inbox, ServeRead(f) PROVE TypeOK'
    <3>1. {j \in f.jobs : Known(j) /\ runs[j].state = "ended"} \in SUBSET Jobs
      BY DEF Frames
    <3> QED
      BY <2>1, <2>5, <3>1 DEF ServeRead, Verdicts
  <2>6. ASSUME NEW r \in RunIds, RunEnds(r) \/ ForgetRun(r) PROVE TypeOK'
    BY <2>6 DEF RunEnds, ForgetRun
  <2> QED
    BY <1>4, <2>2, <2>3, <2>4, <2>5, <2>6 DEF ExecutorStep
<1>5. CASE Crash
  <2>1. crashes' \in 0..MaxCrashes
    BY <1>5, BrokerAssumption DEF Crash
  <2> QED
    BY <1>5, <2>1, IdleType DEF Crash, Closed, journalVars, executorVars, historyVars
<1>6. CASE ExecutorDies
  BY <1>6 DEF ExecutorDies, Lost, journalVars, historyVars
<1>7. CASE Restart
  <2>1. receipts' \in [Starts -> Receipts]
    BY <1>7, WithStateType DEF Restart, RestartWith, ReceiptStates
  <2> QED
    BY <1>7, <2>1 DEF Restart, RestartWith, Lost, historyVars
<1> QED
  BY <1>1, <1>2, <1>3, <1>4, <1>5, <1>6, <1>7 DEF Next

LEMMA ShapesStep == IInv /\ [Next]_vars => Shapes'
<1> SUFFICES ASSUME IInv, [Next]_vars PROVE Shapes'
  OBVIOUS
<1> USE DEF IInv, Shapes, StartFrames
<1>1. CASE UNCHANGED vars
  BY <1>1 DEF vars
<1>2. CASE HandlerStep
  <2> USE DEF TypeOK, Handlers, At, Book, journalVars, executorVars, historyVars
  <2>1. CASE Prepare
    BY <2>1 DEF Prepare
  <2>2. CASE ReleaseStart \/ CancelUnavailable \/ ReadUnavailable
    BY <2>2 DEF ReleaseStart, CancelUnavailable, ReadUnavailable
  <2>3. CASE MarkDispatched
    BY <2>3 DEF MarkDispatched
  <2>4. CASE TransitionFails
    BY <2>4 DEF TransitionFails, Idle
  <2>5. CASE Send
    BY <2>5 DEF Send
  <2>6. ASSUME NEW rho \in replies, ReceiveStart(rho) PROVE Shapes'
    BY <2>6 DEF ReceiveStart, Receive, Echoes
  <2>7. ASSUME NEW rho \in replies, ReceiveCancel(rho) PROVE Shapes'
    <3>1. hnd'.kind = hnd.kind /\ hnd'.mut = hnd.mut /\ hnd'.pc = "book"
      BY <2>7 DEF ReceiveCancel
    <3> QED
      BY <2>7, <3>1 DEF ReceiveCancel, Receive
  <2>12. ASSUME NEW rho \in replies, ReceiveRead(rho) PROVE Shapes'
    <3>1. \/ hnd'.kind = hnd.kind /\ hnd'.mut = hnd.mut /\ hnd'.pc = "book"
          \/ hnd' = Idle
      BY <2>12 DEF ReceiveRead
    <3> QED
      BY <2>12, <3>1 DEF ReceiveRead, Receive, Idle
  <2>8. CASE LoseReply
    BY <2>8 DEF LoseReply, GiveUp
  <2>9. CASE BindJob \/ BindFails \/ CompleteStart \/ DoubtStart
    BY <2>9 DEF BindJob, BindFails, CompleteStart, DoubtStart
  <2>10. ASSUME NEW j \in hnd.todo, BookJob(j) PROVE Shapes'
    BY <2>10 DEF BookJob
  <2>11. CASE Reply
    BY <2>11 DEF Reply, Idle
  <2> QED
    BY <1>2, <2>1, <2>2, <2>3, <2>4, <2>5, <2>6, <2>7, <2>8, <2>9, <2>10, <2>11, <2>12
       DEF HandlerStep, BoundedStep
<1>3. CASE ClientStep
  <2> USE DEF executorVars, Idle
  <2>1. ASSUME NEW m \in Starts, ClaimStart(m) PROVE Shapes'
    BY <2>1 DEF ClaimStart, Admitted, Mutations
  <2>2. ASSUME NEW m \in Controls, NEW J, ClaimCancel(m, J) \/ BeginRead(m, J)
        PROVE  Shapes'
    <3>1. /\ hnd'.pc = "prepare" /\ hnd'.kind \in {"cancel", "read"} /\ hnd'.mut = m
          /\ up /\ UNCHANGED <<up, inbox, replies, runs>>
      BY <2>2 DEF ClaimCancel, BeginRead, Admitted
    <3> QED
      BY <3>1 DEF Mutations
  <2>3. ASSUME UNCHANGED <<up, hnd, inbox, replies, runs>> PROVE Shapes'
    BY <2>3
  <2>4. ASSUME NEW c, NEW methods, NEW m,
               \/ Connect(c, methods) \/ Disconnect \/ StatementFails
               \/ Query(m) \/ RefuseStart(m)
        PROVE  Shapes'
    BY <2>3, <2>4 DEF Connect, Disconnect, StatementFails, Query, RefuseStart
  <2> HIDE DEF IInv, Shapes, Idle
  <2> QED
    BY <1>3, <2>1, <2>2, <2>4 DEF ClientStep
<1>4. CASE ExecutorStep
  <2> USE DEF TypeOK, Frames, Answer
  <2>1. ASSUME NEW f \in inbox, NEW r \in RunIds, ServeStart(f, r) PROVE Shapes'
    BY <2>1, BrokerAssumption DEF ServeStart, Mutations
  <2>2. ASSUME NEW f \in inbox, ServeRefuse(f) \/ ServeRead(f) PROVE Shapes'
    BY <2>2 DEF ServeRefuse, ServeRead
  <2>3. ASSUME NEW f \in inbox, ServeCancel(f) PROVE Shapes'
    BY <2>3 DEF ServeCancel, Known
  <2>4. ASSUME NEW r \in RunIds, RunEnds(r) \/ ForgetRun(r) PROVE Shapes'
    BY <2>4 DEF RunEnds, ForgetRun
  <2> QED
    BY <1>4, <2>1, <2>2, <2>3, <2>4 DEF ExecutorStep
<1>5. CASE Crash
  BY <1>5 DEF Crash, Idle, executorVars
<1>6. CASE ExecutorDies \/ Restart
  BY <1>6 DEF TypeOK, ExecutorDies, Restart, RestartWith, Lost, Known
<1> QED
  BY <1>1, <1>2, <1>3, <1>4, <1>5, <1>6 DEF Next


\* Journal depends on the tables and the open transaction alone.
LEMMA JournalStep == IInv /\ [Next]_vars => Journal'
<1> SUFFICES ASSUME IInv, [Next]_vars PROVE Journal'
  OBVIOUS
<1> USE DEF IInv, Journal, ReceiptIsClaimed, Exists
<1>1. ASSUME UNCHANGED journalVars PROVE Journal'
  BY <1>1 DEF journalVars
<1>2. ASSUME NEW M, NEW state \in ReceiptStates \ {"none"},
             UNCHANGED <<claims, txn, faults>>, receipts' = WithState(M, state)
      PROVE  Journal'
  <2>1. \A m \in Starts : /\ receipts'[m].job = receipts[m].job
                          /\ Exists(m) <=> receipts'[m].state # "none"
    BY <1>2 DEF TypeOK, WithState, Receipts
  <2> QED
    BY <1>2, <2>1 DEF TypeOK, Transactions
<1>3. ASSUME UNCHANGED <<claims, receipts>>, txn' = txn \/ txn' = None,
             faults' \in {faults, faults + 1}
      PROVE  Journal'
  BY <1>3 DEF TypeOK
<1>4. ASSUME Refused, UNCHANGED <<claims, receipts>> PROVE Journal'
  BY <1>3, <1>4, RefusedIs DEF TypeOK
<1>5. ASSUME NEW m \in Starts, NEW row \in Receipts, WriteFails(m, row),
             Exists(m), row.state \notin {"none", "pending"}, UNCHANGED claims
      PROVE  Journal'
  <2>1. /\ UNCHANGED <<claims, receipts>>
        /\ faults' \in {faults, faults + 1} /\ faults \in Nat
        /\ \/ txn' = txn
           \/ txn' = [mut |-> m, row |-> row, claims |-> {}] /\ txn = None
        /\ txn = None => faults' > 0
    BY <1>5, WriteFailsIs DEF TypeOK
  <2>2. CASE txn' = txn
    BY <2>1, <2>2, <1>3
  <2>3. CASE txn' = [mut |-> m, row |-> row, claims |-> {}] /\ txn = None
    BY <2>1, <2>3, <1>5
  <2> QED
    BY <2>1, <2>2, <2>3
<1>6. CASE HandlerStep
  <2>1. CASE ReleaseStart
    <3>1. CASE /\ claims' = claims \ {hnd.mut} /\ txn = None /\ UNCHANGED txn
               /\ receipts' = [receipts EXCEPT ![hnd.mut] = [job |-> hnd.mut, state |-> "none"]]
      <4>1. hnd.mut \in Starts
        BY <2>1 DEF ReleaseStart, At, Shapes
      <4>2. \A m \in Starts : receipts'[m] = IF m = hnd.mut
                                             THEN [job |-> m, state |-> "none"]
                                             ELSE receipts[m]
        BY <3>1, <4>1 DEF TypeOK
      <4> QED
        BY <3>1, <4>1, <4>2, BrokerAssumption
    <3> QED
      BY <2>1, <3>1, <1>4 DEF ReleaseStart
  <2>2. CASE CancelUnavailable
    <3>1. \A m \in Starts : Exists(m) => m # hnd.mut
      BY <2>2 DEF CancelUnavailable, At, Journaled
    <3>2. \A m \in Starts : Exists(m) => m \in claims'
      BY <2>2, <3>1 DEF CancelUnavailable
    <3>3. txn' # None => txn # None /\ txn'.mut = txn.mut /\ txn'.row = txn.row
      BY <2>2 DEF CancelUnavailable, TypeOK, Transactions
    <3>4. UNCHANGED receipts /\ (faults > 0 => faults' > 0)
      BY <2>2, BrokerAssumption DEF CancelUnavailable, Fault, TypeOK
    <3> QED
      BY <3>2, <3>3, <3>4
  <2>3. CASE MarkDispatched \/ CompleteStart
    BY <2>3, <1>2 DEF MarkDispatched, CompleteStart, ReceiptStates
  <2>4. CASE TransitionFails
    <3>1. hnd.mut \in Starts /\ Exists(hnd.mut) /\ receipts[hnd.mut] \in Receipts
      BY <2>4 DEF TransitionFails, At, Shapes, Journaled, TypeOK
    <3>2. ASSUME NEW state \in {"dispatched", "completed"}
          PROVE  /\ [receipts[hnd.mut] EXCEPT !.state = state] \in Receipts
                 /\ [receipts[hnd.mut] EXCEPT !.state = state].state = state
      BY <3>1 DEF Receipts, ReceiptStates
    <3>3. PICK state \in {"dispatched", "completed"} :
            WriteFails(hnd.mut, [receipts[hnd.mut] EXCEPT !.state = state])
      BY <2>4 DEF TransitionFails
    <3> QED
      BY <2>4, <3>1, <3>2, <3>3, <1>5 DEF TransitionFails
  <2>5. CASE BindJob
    <3>1. hnd.mut \in Starts /\ hnd.run \in RunIds /\ receipts[hnd.mut].state = "dispatched"
      BY <2>5 DEF BindJob, At, Shapes, Journaled
    <3>2. \A m \in Starts : receipts'[m] = IF m = hnd.mut
                                           THEN [job |-> hnd.run, state |-> "dispatched"]
                                           ELSE receipts[m]
      BY <2>5, <3>1 DEF BindJob, TypeOK
    <3>3. \A m \in Starts : receipts[m].job = hnd.run => m = hnd.mut
      BY <2>5, <3>1, BrokerAssumption DEF BindJob, Taken, RowsOf, Row
    <3> QED
      BY <2>5, <3>1, <3>2, <3>3 DEF BindJob
  <2>6. CASE BindFails
    <3>1. /\ hnd.mut \in Starts /\ Exists(hnd.mut)
          /\ [job |-> hnd.run, state |-> "dispatched"] \in Receipts
      BY <2>6 DEF BindFails, At, Shapes, Journaled, Receipts, ReceiptStates, Jobs
    <3> QED
      BY <2>6, <3>1, <1>1, <1>5 DEF BindFails, journalVars
  <2>7. CASE DoubtStart
    <3>1. hnd.mut \in Starts /\ Exists(hnd.mut)
      BY <2>7 DEF DoubtStart, At, Shapes, Journaled
    <3>2. [receipts[hnd.mut] EXCEPT !.state = "outcome_unknown"] \in Receipts
      BY <3>1 DEF TypeOK, Receipts, ReceiptStates
    <3>3. [receipts[hnd.mut] EXCEPT !.state = "outcome_unknown"].state = "outcome_unknown"
      BY <3>1 DEF TypeOK, Receipts
    <3>4. CASE WriteFails(hnd.mut, [receipts[hnd.mut] EXCEPT !.state = "outcome_unknown"])
      BY <2>7, <3>1, <3>2, <3>3, <3>4, <1>5 DEF DoubtStart
    <3> QED
      BY <2>7, <3>4, <1>2 DEF DoubtStart, ReceiptStates
  <2>8. ASSUME NEW j \in hnd.todo, BookJob(j) PROVE Journal'
    <3>1. ASSUME NEW m \in Starts
          PROVE  /\ [receipts[m] EXCEPT !.state = Booked] \in Receipts
                 /\ [receipts[m] EXCEPT !.state = Booked].state \notin {"none", "pending"}
      BY DEF TypeOK, Receipts, ReceiptStates, Booked
    <3>2. Booked \in ReceiptStates \ {"none"}
      BY DEF Booked, ReceiptStates
    <3> QED
      BY <2>8, <3>1, <3>2, <1>2, <1>4, <1>5 DEF BookJob, RowsOf
  <2> QED
    BY <1>6, <1>1, <2>1, <2>2, <2>3, <2>4, <2>5, <2>6, <2>7, <2>8
       DEF HandlerStep, BoundedStep, Prepare, ReadUnavailable, Send, Receive,
           ReceiveStart, ReceiveCancel, ReceiveRead, LoseReply, Reply
<1>7. CASE ClientStep
  <2>1. ASSUME NEW m \in Starts, ClaimStart(m) PROVE Journal'
    BY <2>1 DEF ClaimStart, TypeOK, Receipts
  <2>2. ASSUME NEW m \in Controls, NEW J \in SUBSET Jobs, ClaimCancel(m, J)
        PROVE  Journal'
    <3>1. /\ claims \subseteq claims' /\ UNCHANGED <<receipts, faults>>
          /\ txn' # None => txn # None /\ txn'.mut = txn.mut /\ txn'.row = txn.row
      BY <2>2 DEF ClaimCancel, TypeOK, Transactions
    <3> QED
      BY <3>1
  <2>3. ASSUME NEW m \in Starts, RefuseStart(m) PROVE Journal'
    BY <2>3, <1>1, <1>4 DEF RefuseStart, journalVars
  <2>4. CASE StatementFails
    BY <2>4, <1>3 DEF StatementFails, Fault
  <2> QED
    BY <1>7, <1>1, <2>1, <2>2, <2>3, <2>4
       DEF ClientStep, Connect, Disconnect, Query, BeginRead
<1>8. CASE Crash
  BY <1>8, <1>3 DEF Crash
<1>9. CASE Restart
  BY <1>9, <1>2 DEF Restart, RestartWith, ReceiptStates
<1> QED
  BY <1>1, <1>6, <1>7, <1>8, <1>9
     DEF Next, ExecutorStep, ServeStart, ServeRefuse, ServeCancel, ServeRead, RunEnds,
         ForgetRun, ExecutorDies, vars, journalVars

LEMMA JournaledStep == IInv /\ [Next]_vars => Journaled'
<1> SUFFICES ASSUME IInv, [Next]_vars PROVE Journaled'
  OBVIOUS
<1> USE DEF IInv, Journaled, Exists
<1>1. CASE UNCHANGED vars
  BY <1>1 DEF vars
<1>2. CASE HandlerStep
  <2> USE DEF TypeOK, Handlers, Shapes, At, Book, journalVars
  <2>1. CASE Prepare \/ Send \/ BindFails
    BY <2>1 DEF Prepare, Send, BindFails, WriteFails
  <2>8. CASE TransitionFails \/ Reply
    BY <2>8 DEF TransitionFails, Reply, Idle, WriteFails
  <2>6. CASE LoseReply
    BY <2>6 DEF LoseReply, GiveUp
  <2>2. CASE \/ ReleaseStart \/ CancelUnavailable \/ ReadUnavailable
            \/ BindJob \/ CompleteStart \/ DoubtStart
    <3>1. hnd'.pc = "book"
      BY <2>2 DEF ReleaseStart, CancelUnavailable, ReadUnavailable, BindJob, CompleteStart,
                  DoubtStart
    <3> QED
      BY <3>1
  <2>3. CASE MarkDispatched
    BY <2>3 DEF MarkDispatched, WithState, Exists
  <2>4. ASSUME NEW rho \in replies, ReceiveStart(rho) PROVE Journaled'
    BY <2>4 DEF ReceiveStart, Receive
  <2>7. ASSUME NEW rho \in replies, ReceiveCancel(rho) \/ ReceiveRead(rho)
        PROVE  Journaled'
    <3>1. CASE ReceiveCancel(rho)
      <4>1. hnd'.kind = "cancel" /\ hnd'.pc = "book"
        BY <3>1 DEF ReceiveCancel
      <4> QED
        BY <4>1
    <3>2. CASE ReceiveRead(rho)
      <4>1. hnd.kind = "read" /\ (hnd'.kind = hnd.kind \/ hnd' = Idle)
        BY <3>2 DEF ReceiveRead
      <4> QED
        BY <4>1 DEF Idle
    <3> QED
      BY <2>7, <3>1, <3>2
  <2>5. ASSUME NEW j \in hnd.todo, BookJob(j) PROVE Journaled'
    BY <2>5 DEF BookJob, WriteFails
  <2> QED
    BY <1>2, <2>1, <2>2, <2>3, <2>4, <2>5, <2>6, <2>7, <2>8 DEF HandlerStep, BoundedStep
<1>3. CASE ClientStep
  <2>1. ASSUME NEW m \in Starts, ClaimStart(m) PROVE Journaled'
    BY <2>1 DEF ClaimStart, Idle, TypeOK
  <2>2. ASSUME NEW m \in Controls, NEW J, ClaimCancel(m, J) \/ BeginRead(m, J)
        PROVE  Journaled'
    <3>1. CASE ClaimCancel(m, J)
      <4>1. hnd'.kind = "cancel" /\ hnd'.mut = m /\ m \notin claims /\ UNCHANGED receipts
        BY <3>1 DEF ClaimCancel, Claimed, Idle
      <4> QED
        BY <4>1 DEF Journal, ReceiptIsClaimed
    <3>2. CASE BeginRead(m, J)
      <4>1. hnd'.kind = "read"
        BY <3>2 DEF BeginRead, Idle
      <4> QED
        BY <4>1
    <3> QED
      BY <2>2, <3>1, <3>2
  <2> QED
    BY <1>3, <2>1, <2>2
       DEF ClientStep, Connect, Disconnect, Query, RefuseStart, journalVars, StatementFails
<1>4. CASE Crash \/ Restart
  <2>1. hnd'.kind = "none" \/ (Restart /\ hnd' = hnd /\ ~up)
    BY <1>4 DEF Crash, Restart, RestartWith, Idle
  <2> QED
    BY <1>4, <2>1 DEF Shapes, Idle
<1> QED
  BY <1>1, <1>2, <1>3, <1>4
     DEF Next, ExecutorStep, ServeStart, ServeRefuse, ServeCancel, ServeRead, RunEnds,
         ForgetRun, ExecutorDies, journalVars

LEMMA ExecutedStep == IInv /\ [Next]_vars => Executed'
<1> SUFFICES ASSUME IInv, [Next]_vars PROVE Executed'
  OBVIOUS
<1> USE DEF IInv, Executed, AtMostOnce, Started, StartFrames
\* A step that leaves the frames and the owners of the runs alone, and leaves
\* no receipt that was past pending short of it.
<1>1. ASSUME inbox' \subseteq inbox,
             \A r \in RunIds : runs'[r].owner = runs[r].owner,
             \A m \in Starts : receipts[m].state \notin {"none", "pending"}
                              => receipts'[m].state \notin {"none", "pending"},
             \/ hnd'.kind # "start" \/ hnd'.pc \notin {"prepare", "mark", "send"}
             \/ hnd.kind = "start" /\ hnd.pc \in {"prepare", "mark", "send"}
                /\ hnd'.mut = hnd.mut
      PROVE  Executed'
  BY <1>1, BrokerAssumption DEF TypeOK, Shapes
<1>2. CASE UNCHANGED vars
  BY <1>2, <1>1 DEF vars
<1>3. CASE HandlerStep
  <2> USE DEF TypeOK, Handlers, Shapes, At, Book, journalVars, executorVars
  <2>1. CASE Prepare
    <3>1. hnd.pc = "prepare" /\ hnd'.kind = hnd.kind /\ hnd'.mut = hnd.mut
      BY <2>1 DEF Prepare
    <3> QED
      BY <2>1, <3>1, <1>1 DEF Prepare
  <2>2. CASE TransitionFails \/ Reply
    BY <2>2, <1>1 DEF TransitionFails, Reply, Idle, WriteFails
  <2>3. CASE BindFails
    BY <2>3, <1>1 DEF BindFails, WriteFails
  <2>4. CASE ReleaseStart
    <3>1. hnd'.pc = "book"
      BY <2>4 DEF ReleaseStart
    <3>2. \A m \in Starts : receipts[m].state \notin {"none", "pending"}
                           => receipts'[m] = receipts[m]
      BY <2>4 DEF ReleaseStart, Journaled
    <3> QED
      BY <2>4, <3>1, <3>2, <1>1 DEF ReleaseStart
  <2>5. CASE CancelUnavailable \/ ReadUnavailable
    <3>1. hnd'.pc = "book"
      BY <2>5 DEF CancelUnavailable, ReadUnavailable
    <3> QED
      BY <2>5, <3>1, <1>1 DEF CancelUnavailable, ReadUnavailable
  <2>6. CASE MarkDispatched
    BY <2>6, <1>1 DEF MarkDispatched, WithState
  <2>7. CASE Send
    <3>1. hnd'.pc = "await" /\ UNCHANGED <<receipts, runs>>
      BY <2>7 DEF Send
    <3>2. \A f \in inbox' \ inbox : f.kind = hnd.kind /\ f.mut = hnd.mut /\ hnd.pc = "send"
      BY <2>7 DEF Send
    <3> QED
      BY <3>1, <3>2 DEF Journaled
  <2>8. ASSUME NEW rho \in replies, ReceiveStart(rho) PROVE Executed'
    <3>1. hnd'.pc \in {"doubt", "bind", "complete"}
      BY <2>8 DEF ReceiveStart
    <3> QED
      BY <2>8, <3>1, <1>1 DEF ReceiveStart, Receive
  <2>9. ASSUME NEW rho \in replies, ReceiveCancel(rho) \/ ReceiveRead(rho)
        PROVE  Executed'
    <3>1. hnd'.pc = "book" \/ hnd' = Idle
      BY <2>9 DEF ReceiveCancel, ReceiveRead
    <3> QED
      BY <2>9, <3>1, <1>1 DEF ReceiveCancel, ReceiveRead, Receive, Idle
  <2>10. CASE LoseReply
    <3>1. hnd'.pc \in {"doubt", "book"}
      BY <2>10 DEF LoseReply, GiveUp
    <3> QED
      BY <2>10, <3>1, <1>1 DEF LoseReply
  <2>11. CASE BindJob
    BY <2>11, <1>1 DEF BindJob
  <2>12. CASE CompleteStart \/ DoubtStart
    <3>1. hnd'.pc = "book"
      BY <2>12 DEF CompleteStart, DoubtStart, WriteFails
    <3>2. \A m \in Starts : receipts[m].state \notin {"none", "pending"}
                           => receipts'[m].state \notin {"none", "pending"}
      BY <2>12 DEF CompleteStart, DoubtStart, WithState, Receipts, WriteFails
    <3> QED
      BY <2>12, <3>1, <3>2, <1>1 DEF CompleteStart, DoubtStart, WriteFails
  <2>13. ASSUME NEW j \in hnd.todo, BookJob(j) PROVE Executed'
    <3>1. hnd'.pc = "book"
      BY <2>13 DEF BookJob, WriteFails
    <3>2. \A m \in Starts : receipts[m].state \notin {"none", "pending"}
                           => receipts'[m].state \notin {"none", "pending"}
      <4>1. Booked \notin {"none", "pending"}
        BY DEF Booked
      <4>2. UNCHANGED receipts \/ receipts' = WithState(RowsOf(j), Booked)
        BY <2>13 DEF BookJob, WriteFails
      <4> QED
        BY <4>1, <4>2 DEF WithState, Receipts
    <3> QED
      BY <2>13, <3>1, <3>2, <1>1 DEF BookJob, WriteFails
  <2> QED
    BY <1>3, <2>1, <2>2, <2>3, <2>4, <2>5, <2>6, <2>7, <2>8, <2>9, <2>10, <2>11,
       <2>12, <2>13 DEF HandlerStep, BoundedStep
<1>4. CASE ClientStep
  <2> USE DEF TypeOK, executorVars, journalVars
  <2>1. ASSUME NEW m \in Starts, ClaimStart(m) PROVE Executed'
    <3>1. receipts[m].state = "none"
      BY <2>1 DEF ClaimStart, Journal, ReceiptIsClaimed, Exists
    <3>2. ~Started(m) /\ \A f \in StartFrames : f.mut # m
      BY <3>1, BrokerAssumption DEF Mutations
    <3>3. UNCHANGED <<inbox, runs>> /\ hnd'.mut = m
      BY <2>1 DEF ClaimStart, Idle
    <3>4. \A n \in Starts : n # m => receipts'[n] = receipts[n]
      BY <2>1 DEF ClaimStart
    <3> QED
      BY <3>2, <3>3, <3>4, BrokerAssumption DEF Shapes
  <2>2. ASSUME NEW m \in Controls, NEW J, ClaimCancel(m, J) \/ BeginRead(m, J)
        PROVE  Executed'
    <3>1. hnd'.kind \in {"cancel", "read"}
      BY <2>2 DEF ClaimCancel, BeginRead, Idle
    <3> QED
      BY <2>2, <3>1, <1>1 DEF ClaimCancel, BeginRead
  <2>3. ASSUME NEW c, NEW methods, NEW m,
               Connect(c, methods) \/ Disconnect \/ StatementFails
               \/ Query(m) \/ RefuseStart(m)
        PROVE  Executed'
    BY <2>3, <1>1 DEF Connect, Disconnect, Query, RefuseStart, StatementFails
  <2> QED
    BY <1>4, <2>1, <2>2, <2>3 DEF ClientStep
<1>5. CASE ExecutorStep
  <2> USE DEF journalVars
  <2>1. ASSUME NEW f \in inbox, NEW r \in RunIds, ServeStart(f, r) PROVE Executed'
    <3>1. /\ f \in StartFrames /\ f.mut \in Starts /\ f.mut # None /\ ~Started(f.mut)
          /\ runs[r].owner = None
      BY <2>1, BrokerAssumption DEF ServeStart, Shapes, Mutations
    <3>2. \A q \in RunIds : runs'[q].owner = IF q = r THEN f.mut ELSE runs[q].owner
      BY <2>1 DEF ServeStart, TypeOK
    <3>3. inbox' = inbox \ {f} /\ UNCHANGED <<hnd, receipts>>
      BY <2>1 DEF ServeStart, Answer
    <3>4. \A g \in StartFrames : g = [kind |-> "start", mut |-> g.mut, jobs |-> {}]
      BY DEF TypeOK, Frames, Shapes
    <3>5. \A g \in StartFrames : g.mut = f.mut => g = f
      BY <3>1, <3>4
    <3> QED
      BY <3>1, <3>2, <3>3, <3>5
  <2>2. ASSUME NEW f \in inbox, ServeRefuse(f) \/ ServeRead(f) PROVE Executed'
    BY <2>2, <1>1 DEF ServeRefuse, ServeRead, Answer
  <2>3. ASSUME NEW f \in inbox, ServeCancel(f) PROVE Executed'
    BY <2>3, <1>1 DEF ServeCancel, Answer, TypeOK
  <2>4. ASSUME NEW r \in RunIds, RunEnds(r) \/ ForgetRun(r) PROVE Executed'
    BY <2>4, <1>1 DEF RunEnds, ForgetRun, TypeOK
  <2> QED
    BY <1>5, <2>1, <2>2, <2>3, <2>4 DEF ExecutorStep
<1>6. CASE Crash
  BY <1>6, <1>1 DEF Crash, Idle, journalVars, executorVars
<1>7. CASE ExecutorDies
  BY <1>7, <1>1 DEF ExecutorDies, Lost, TypeOK, journalVars
<1>8. CASE Restart
  BY <1>8, <1>1 DEF Restart, RestartWith, Lost, WithState, TypeOK
<1> QED
  BY <1>2, <1>3, <1>4, <1>5, <1>6, <1>7, <1>8 DEF Next

THEOREM InductiveInvariant == Spec => []IInv
<1>1. IInv /\ [Next]_vars => IInv'
  BY TypeOKStep, ShapesStep, JournalStep, JournaledStep, ExecutedStep DEF IInv
<1> QED
  BY InitIInv, <1>1, PTL DEF Spec

\* Every variable of the broker always holds a value of its kind.
THEOREM TypeCorrect == Spec => []TypeOK
  BY InductiveInvariant, PTL DEF IInv

\* One client mutation is executed at most once, through lost answers,
\* retries, failing transactions, crashes and restarts.
THEOREM ExecutedAtMostOnce == Spec => []AtMostOnce
<1>1. IInv => AtMostOnce
  BY DEF IInv, Executed
<1> QED
  BY InductiveInvariant, <1>1, PTL

\* What is executed, or can still be, was journaled as dispatched before.
THEOREM JournaledBeforeExecuted == Spec => []WriteAhead
<1>1. IInv => WriteAhead
  BY BrokerAssumption
     DEF IInv, Journal, Executed, WriteAhead, StartFrames, Started, ReceiptIsClaimed,
         Exists, Mutations
<1> QED
  BY InductiveInvariant, <1>1, PTL

\* A receipt always has its claim, although a cancel may use the request id of
\* a start and give its claim back.
THEOREM ReceiptsAreClaimed == Spec => []ReceiptIsClaimed
<1>1. IInv => ReceiptIsClaimed
  BY DEF IInv, Journal
<1> QED
  BY InductiveInvariant, <1>1, PTL
-----------------------------------------------------------------------------
(* The channel and what comes over it.                                     *)

\* A run is made by serving a start frame and by nothing else.
LEMMA OwnersKept ==
  ASSUME IInv, [Next]_vars
  PROVE  \/ \A r \in RunIds : runs'[r].owner = runs[r].owner
         \/ \E f \in inbox, r \in RunIds : ServeStart(f, r)
<1> USE DEF IInv, TypeOK, Shapes
<1>1. CASE UNCHANGED runs
  BY <1>1
<1>2. CASE ExecutorStep
  <2>1. ASSUME NEW f, ServeRefuse(f) \/ ServeRead(f)
        PROVE  UNCHANGED runs
    BY <2>1 DEF ServeRefuse, ServeRead
  <2>2. ASSUME NEW f, ServeCancel(f)
        PROVE  \A q \in RunIds : runs'[q].owner = runs[q].owner
    BY <2>2 DEF ServeCancel
  <2>3. ASSUME NEW r \in RunIds, RunEnds(r) \/ ForgetRun(r)
        PROVE  \A q \in RunIds : runs'[q].owner = runs[q].owner
    BY <2>3 DEF RunEnds, ForgetRun
  <2> HIDE DEF IInv, TypeOK, Shapes
  <2> QED
    BY <1>1, <1>2, <2>1, <2>2, <2>3 DEF ExecutorStep
<1>3. CASE ExecutorDies \/ Restart
  BY <1>3 DEF ExecutorDies, Restart, RestartWith, Lost
<1>4. CASE HandlerStep
  BY <1>1, <1>4
     DEF HandlerStep, Prepare, ReleaseStart, CancelUnavailable, ReadUnavailable, MarkDispatched,
         TransitionFails, Send, ReceiveStart, ReceiveCancel, ReceiveRead, Receive, LoseReply,
         BindJob, BindFails, CompleteStart, DoubtStart, BookJob, Reply, executorVars,
         BoundedStep, WriteFails
<1>5. CASE ClientStep
  BY <1>1, <1>5
     DEF ClientStep, Connect, Disconnect, Query, ClaimStart, RefuseStart, ClaimCancel, BeginRead,
         executorVars, StatementFails
<1>6. CASE Crash \/ UNCHANGED vars
  BY <1>1, <1>6 DEF Crash, executorVars, vars
<1> QED
  BY <1>2, <1>3, <1>4, <1>5, <1>6 DEF Next

\* Whose start made a run never changes.
LEMMA OwnersStay ==
  ASSUME IInv, [Next]_vars
  PROVE  \A r \in RunIds : runs[r].owner # None => runs'[r].owner = runs[r].owner
<1>1. ASSUME NEW f \in inbox, NEW r \in RunIds, ServeStart(f, r)
      PROVE  \A q \in RunIds : runs[q].owner # None => runs'[q].owner = runs[q].owner
  BY <1>1 DEF ServeStart, IInv, TypeOK, Shapes
<1> QED
  BY <1>1, OwnersKept

ReceiptsKept == UNCHANGED receipts

\* A receipt gets the runtime's id from bind_dispatched_job alone.
LEMMA JobsStay ==
  ASSUME IInv, [Next]_vars, ~BindJob, NEW m \in Starts
  PROVE  receipts'[m].job = m \/ receipts'[m].job = receipts[m].job
<1>0. receipts \in [Starts -> Receipts] /\ \A n \in Starts : receipts[n] \in Receipts
  BY DEF IInv, TypeOK
<1>1. ASSUME NEW M, NEW st, receipts' = WithState(M, st)
      PROVE  receipts'[m].job = receipts[m].job
  BY <1>0, <1>1 DEF WithState, Receipts
<1>2. CASE UNCHANGED receipts
  BY <1>2
<1>3. CASE HandlerStep
  <2>1. CASE ReleaseStart
    <3>1. \/ UNCHANGED receipts
          \/ receipts' = [receipts EXCEPT ![hnd.mut] = [job |-> hnd.mut, state |-> "none"]]
      BY <2>1 DEF ReleaseStart, journalVars
    <3> QED
      BY <1>0, <3>1
  <2>2. CASE MarkDispatched \/ CompleteStart \/ DoubtStart
    BY <2>2, <1>1, <1>2 DEF MarkDispatched, CompleteStart, DoubtStart, WriteFails
  <2>3. ASSUME NEW j, BookJob(j)
        PROVE  receipts'[m].job = receipts[m].job
    BY <2>3, <1>1, <1>2 DEF BookJob, WriteFails
  <2>4. ReceiptsKept \/ ReleaseStart \/ MarkDispatched \/ CompleteStart \/ DoubtStart
          \/ \E j \in hnd.todo : BookJob(j)
    BY <1>3
       DEF HandlerStep, Prepare, CancelUnavailable, ReadUnavailable, TransitionFails, Send,
           ReceiveStart, ReceiveCancel, ReceiveRead, Receive, LoseReply, BindFails, Reply, journalVars,
           ReceiptsKept, BoundedStep, WriteFails
  <2> QED
    BY <2>1, <2>2, <2>3, <2>4 DEF ReceiptsKept
<1>4. CASE ClientStep
  <2>1. ASSUME NEW n \in Starts, ClaimStart(n)
        PROVE  receipts'[m].job = m \/ receipts'[m].job = receipts[m].job
    <3>1. receipts' = [receipts EXCEPT ![n] = [job |-> n, state |-> "pending"]]
      BY <2>1 DEF ClaimStart
    <3> QED
      BY <1>0, <3>1
  <2>2. ReceiptsKept \/ \E n \in Starts : ClaimStart(n)
    BY <1>4
       DEF ClientStep, Connect, Disconnect, Query, RefuseStart, ClaimCancel, BeginRead, journalVars,
           ReceiptsKept, StatementFails
  <2> QED
    BY <2>1, <2>2 DEF ReceiptsKept
<1>5. CASE ExecutorStep
  BY <1>2, <1>5
     DEF ExecutorStep, ServeStart, ServeRefuse, ServeCancel, ServeRead, RunEnds, ForgetRun, journalVars
<1>6. CASE Restart
  BY <1>1, <1>6 DEF Restart, RestartWith
<1>7. CASE Crash \/ ExecutorDies \/ UNCHANGED vars
  BY <1>2, <1>7 DEF Crash, ExecutorDies, journalVars, vars
<1> QED
  BY <1>3, <1>4, <1>5, <1>6, <1>7 DEF Next

\* A transaction is left open by the handler of the start it is about, or by
\* one that books its job, and says of it no more than they know.
LEMMA OpenedBy ==
  ASSUME IInv, [Next]_vars, txn' # None
  PROVE  \/ txn # None /\ txn'.mut = txn.mut /\ txn'.row = txn.row
         \/ /\ txn = None /\ UNCHANGED <<receipts, runs>> /\ txn'.mut \in Starts
            /\ \/ /\ hnd.kind = "start" /\ txn'.mut = hnd.mut
                  /\ txn'.row.job = receipts[hnd.mut].job
               \/ BindFails /\ txn'.mut = hnd.mut /\ txn'.row.job = hnd.run
               \/ \E j \in hnd.todo :
                    /\ BookJob(j) /\ txn'.mut \in RowsOf(j)
                    /\ txn'.row = [receipts[txn'.mut] EXCEPT !.state = Booked]
<1> DEFINE Goal == \/ txn # None /\ txn'.mut = txn.mut /\ txn'.row = txn.row
                   \/ /\ txn = None /\ UNCHANGED <<receipts, runs>> /\ txn'.mut \in Starts
                      /\ \/ /\ hnd.kind = "start" /\ txn'.mut = hnd.mut
                            /\ txn'.row.job = receipts[hnd.mut].job
                         \/ BindFails /\ txn'.mut = hnd.mut /\ txn'.row.job = hnd.run
                         \/ \E j \in hnd.todo :
                              /\ BookJob(j) /\ txn'.mut \in RowsOf(j)
                              /\ txn'.row = [receipts[txn'.mut] EXCEPT !.state = Booked]
<1>1. CASE UNCHANGED txn
  BY <1>1
<1>2. ASSUME NEW m \in Starts, NEW row, WriteFails(m, row), txn' # txn
      PROVE  /\ txn = None /\ UNCHANGED receipts
             /\ txn'.mut = m /\ txn'.row = row
  BY <1>2 DEF WriteFails, Refused
<1>3. CASE HandlerStep
  <2>1. CASE TransitionFails /\ txn' # txn
    <3>1. hnd.mut \in Starts /\ hnd.kind = "start" /\ UNCHANGED runs
      BY <2>1 DEF TransitionFails, At, IInv, Shapes, executorVars
    <3>2. PICK st : WriteFails(hnd.mut, [receipts[hnd.mut] EXCEPT !.state = st])
      BY <2>1 DEF TransitionFails
    <3> QED
      BY <2>1, <3>1, <3>2, <1>2 DEF IInv, TypeOK, Receipts
  <2>2. CASE DoubtStart /\ txn' # txn
    <3>1. hnd.mut \in Starts /\ hnd.kind = "start" /\ UNCHANGED runs
      BY <2>2 DEF DoubtStart, At, IInv, Shapes, executorVars
    <3>2. WriteFails(hnd.mut, [receipts[hnd.mut] EXCEPT !.state = "outcome_unknown"])
      BY <2>2 DEF DoubtStart
    <3> QED
      BY <2>2, <3>1, <3>2, <1>2 DEF IInv, TypeOK, Receipts
  <2>3. CASE BindFails /\ txn' # txn
    <3>1. hnd.mut \in Starts /\ UNCHANGED runs
      BY <2>3 DEF BindFails, At, IInv, Shapes, executorVars
    <3>2. WriteFails(hnd.mut, [job |-> hnd.run, state |-> "dispatched"])
      BY <2>3 DEF BindFails
    <3> QED
      BY <2>3, <3>1, <3>2, <1>2
  <2>4. ASSUME NEW j \in hnd.todo, BookJob(j), txn' # txn PROVE Goal
    <3>1. PICK m \in RowsOf(j) : WriteFails(m, [receipts[m] EXCEPT !.state = Booked])
      BY <2>4 DEF BookJob, Refused
    <3>2. m \in Starts /\ UNCHANGED runs
      BY <2>4 DEF RowsOf, BookJob, executorVars
    <3> QED
      BY <2>4, <3>1, <3>2, <1>2
  <2>5. ASSUME txn' # txn
        PROVE  \/ TransitionFails \/ DoubtStart \/ BindFails \/ CancelUnavailable
               \/ \E j \in hnd.todo : BookJob(j)
    BY <1>3, <2>5
       DEF HandlerStep, BoundedStep, Prepare, ReleaseStart, Refused, ReadUnavailable,
           MarkDispatched, Send, ReceiveStart, ReceiveCancel, ReceiveRead, Receive,
           LoseReply, BindJob, CompleteStart, Reply, journalVars
  <2>6. CASE CancelUnavailable /\ txn' # txn
    BY <2>6 DEF CancelUnavailable, IInv, TypeOK, Transactions
  <2> QED
    BY <1>1, <2>1, <2>2, <2>3, <2>4, <2>5, <2>6
<1>4. CASE ClientStep
  <2>1. ASSUME NEW m, NEW J, ClaimCancel(m, J) PROVE Goal
    BY <2>1 DEF ClaimCancel, IInv, TypeOK, Transactions
  <2>2. (\E m \in Controls, J \in SUBSET Jobs : ClaimCancel(m, J)) \/ UNCHANGED txn
    BY <1>4
       DEF ClientStep, Connect, Disconnect, StatementFails, Query, ClaimStart,
           RefuseStart, Refused, BeginRead, journalVars
  <2> QED
    BY <1>1, <2>1, <2>2
<1> QED
  BY <1>1, <1>3, <1>4
     DEF Next, ExecutorStep, ServeStart, ServeRefuse, ServeCancel, ServeRead, RunEnds,
         ForgetRun, Crash, ExecutorDies, Restart, RestartWith, journalVars, vars

LEMMA ReceiptStep ==
  ASSUME ChannelInv, [Next]_vars
  PROVE  ReceiptNamesOwnRun'
<1> DEFINE Own(m, job) == job # m => job \in RunIds /\ runs[job].owner = m
<1>1. \A m \in Starts : m # None
  BY BrokerAssumption DEF Mutations
<1>2. ASSUME NEW m \in Starts, NEW job, Own(m, job) PROVE Own(m, job)'
  BY <1>1, <1>2, OwnersStay DEF ChannelInv
<1>3. ASSUME NEW m \in Starts PROVE Own(m, receipts[m].job)'
  <2>1. CASE receipts'[m].job = receipts[m].job
    BY <1>2, <2>1 DEF ChannelInv, ReceiptNamesOwnRun
  <2>2. CASE BindJob /\ receipts'[m].job # receipts[m].job
    <3>1. /\ hnd.pc = "bind" /\ hnd.run \in RunIds
          /\ runs[hnd.run].owner = hnd.mut /\ hnd.mut \in Starts
      BY <2>2 DEF ChannelInv, OwnReply, IInv, Shapes, BindJob, At
    <3>2. m = hnd.mut /\ receipts'[m].job = hnd.run
      BY <2>2, <3>1 DEF BindJob, ChannelInv, IInv, TypeOK
    <3> QED
      BY <1>1, <3>1, <3>2, OwnersStay DEF ChannelInv
  <2> QED
    BY <2>1, <2>2, JobsStay DEF ChannelInv
<1>4. ASSUME txn' # None PROVE Own(txn.mut, txn.row.job)'
  <2>1. CASE txn # None /\ txn'.mut = txn.mut /\ txn'.row = txn.row
    <3>1. txn.mut \in Starts /\ Row(txn.mut) = txn.row
      BY <2>1 DEF Row, ChannelInv, IInv, TypeOK, Transactions
    <3>2. Own(txn.mut, txn.row.job)
      BY <3>1 DEF ChannelInv, ReceiptNamesOwnRun
    <3> QED
      BY <1>2, <2>1, <3>1, <3>2
  <2>2. ASSUME txn'.mut \in Starts, UNCHANGED receipts,
               txn'.row.job = receipts[txn'.mut].job
        PROVE  Own(txn.mut, txn.row.job)'
    BY <1>3, <2>2
  <2>3. CASE BindFails /\ txn'.mut = hnd.mut /\ txn'.row.job = hnd.run
    <3>1. /\ hnd.run \in RunIds /\ hnd.mut \in Starts
          /\ runs[hnd.run].owner = hnd.mut
      BY <2>3 DEF BindFails, At, ChannelInv, OwnReply, IInv, Shapes
    <3> QED
      BY <1>1, <2>3, <3>1, OwnersStay DEF ChannelInv
  <2>4. ASSUME NEW m \in Starts, txn'.mut = m, UNCHANGED receipts,
               txn'.row = [receipts[m] EXCEPT !.state = Booked]
        PROVE  Own(txn.mut, txn.row.job)'
    BY <2>2, <2>4 DEF ChannelInv, IInv, TypeOK, Receipts
  <2> HIDE DEF Own
  <2> QED
    BY <1>4, <2>1, <2>2, <2>3, <2>4, OpenedBy DEF ChannelInv
<1> QED
  BY <1>3, <1>4 DEF ReceiptNamesOwnRun, Row

LEMMA ChannelStep == ChannelInv /\ [Next]_vars => Channel'
<1> SUFFICES ASSUME ChannelInv, [Next]_vars PROVE Channel'
  OBVIOUS
<1> USE DEF ChannelInv, IInv, Channel, TypeOK
<1>1. CASE UNCHANGED vars
  BY <1>1 DEF vars
<1>2. CASE HandlerStep
  <2> USE DEF Handlers, At, Book, journalVars, executorVars, historyVars
  <2>1. CASE Prepare
    BY <2>1 DEF Prepare, Shapes
  <2>2. CASE ReleaseStart \/ CancelUnavailable \/ ReadUnavailable
    BY <2>2 DEF ReleaseStart, CancelUnavailable, ReadUnavailable, Unreachable
  <2>3. CASE MarkDispatched
    BY <2>3 DEF MarkDispatched
  <2>4. CASE TransitionFails
    BY <2>4 DEF TransitionFails, Idle, WriteFails
  <2>5. CASE Send
    BY <2>5 DEF Send
  <2>6. ASSUME NEW rho \in replies, ReceiveStart(rho) \/ ReceiveCancel(rho) \/ ReceiveRead(rho)
        PROVE  Channel'
    <3>1. hnd.pc = "await" /\ replies' = {} /\ UNCHANGED <<slot, executor, inbox, up>> /\ slot = "open"
          /\ inbox = {}
      BY <2>6 DEF ReceiveStart, ReceiveCancel, ReceiveRead, Receive
    <3> QED
      BY <3>1
  <2>7. CASE LoseReply
    <3>1. hnd'.pc \in {"doubt", "book"} /\ slot' = "empty" /\ replies' = {}
          /\ UNCHANGED <<executor, inbox>>
      BY <2>7 DEF LoseReply, GiveUp
    <3> QED
      BY <3>1
  <2>8. CASE BindJob \/ BindFails \/ CompleteStart \/ DoubtStart
    BY <2>8 DEF BindJob, BindFails, CompleteStart, DoubtStart, WriteFails
  <2>9. ASSUME NEW j \in hnd.todo, BookJob(j) PROVE Channel'
    BY <2>9 DEF BookJob, WriteFails
  <2>10. CASE Reply
    BY <2>10 DEF Reply, Idle
  <2> QED
    BY <1>2, <2>1, <2>2, <2>3, <2>4, <2>5, <2>6, <2>7, <2>8, <2>9, <2>10 DEF HandlerStep, BoundedStep
<1>3. CASE ClientStep
  <2>1. ASSUME NEW c, NEW methods, NEW m,
               Connect(c, methods) \/ Disconnect \/ StatementFails
               \/ Query(m) \/ RefuseStart(m)
        PROVE  Channel'
    <3>1. UNCHANGED <<slot, executor, inbox, replies, hnd, up>>
      BY <2>1 DEF Connect, Disconnect, Query, RefuseStart, executorVars, StatementFails
    <3> QED
      BY <3>1
  <2>2. ASSUME NEW m, NEW J, ClaimStart(m) \/ ClaimCancel(m, J) \/ BeginRead(m, J)
        PROVE  Channel'
    <3>1. UNCHANGED <<slot, executor, inbox, replies, up>>
      <4> HIDE DEF ChannelInv
      <4> QED
        BY <2>2 DEF ClaimStart, ClaimCancel, BeginRead, executorVars
    <3>2. hnd = Idle /\ up
      <4> HIDE DEF ChannelInv
      <4> QED
        BY <2>2 DEF ClaimStart, ClaimCancel, BeginRead, Admitted
    <3>3. hnd'.pc = "prepare" /\ hnd.pc = "idle"
      <4> HIDE DEF ChannelInv
      <4>1. Idle = [Idle EXCEPT !.pc = "idle"] /\ hnd.pc = "idle"
        BY <3>2 DEF Idle
      <4> QED
        BY <2>2, <4>1 DEF ClaimStart, ClaimCancel, BeginRead, Idle
    <3> QED
      BY <3>1, <3>2, <3>3
  <2> HIDE DEF ChannelInv, IInv, Channel, TypeOK
  <2> QED
    BY <1>3, <2>1, <2>2 DEF ClientStep
<1>4. CASE ExecutorStep
  <2>1. ASSUME NEW f \in inbox, NEW verdict, NEW run, NEW settled, Answer(f, verdict, run, settled),
               UNCHANGED <<hnd, slot, executor, up>>
        PROVE  Channel'
    <3>1. CASE slot = "open"
      <4>1. hnd.pc = "await" /\ replies = {} /\ f.kind = hnd.kind /\ f.mut = hnd.mut
            /\ inbox' = {} /\ executor \notin {"absent", "listening"}
        BY <2>1, <3>1 DEF Answer
      <4>2. PICK v : replies' = {[kind |-> f.kind, mut |-> f.mut, verdict |-> v, run |-> run,
                                  settled |-> settled]}
        BY <2>1, <3>1, <4>1 DEF Answer
      <4> QED
        BY <2>1, <3>1, <4>1, <4>2
    <3>2. CASE slot # "open"
      BY <2>1, <3>2 DEF Answer
    <3> QED
      BY <3>1, <3>2
  <2>2. ASSUME NEW f \in inbox, NEW r \in RunIds, ServeStart(f, r) PROVE Channel'
    BY <2>1, <2>2 DEF ServeStart
  <2>3. ASSUME NEW f \in inbox, ServeRefuse(f) \/ ServeCancel(f) \/ ServeRead(f) PROVE Channel'
    <3>1. CASE ServeRefuse(f)
      BY <2>1, <3>1 DEF ServeRefuse
    <3>2. CASE ServeCancel(f)
      BY <2>1, <3>2 DEF ServeCancel
    <3>3. CASE ServeRead(f)
      BY <2>1, <3>3 DEF ServeRead
    <3> QED
      BY <2>3, <3>1, <3>2, <3>3
  <2>4. ASSUME NEW r \in RunIds, RunEnds(r) \/ ForgetRun(r) PROVE Channel'
    BY <2>4 DEF RunEnds, ForgetRun
  <2> QED
    BY <1>4, <2>2, <2>3, <2>4 DEF ExecutorStep
<1>5. CASE Crash
  BY <1>5 DEF Crash, Idle, executorVars
<1>6. CASE ExecutorDies
  BY <1>6 DEF ExecutorDies
<1>7. CASE Restart
  <2>1. hnd = Idle /\ hnd' = hnd /\ slot' = slot /\ replies' = replies /\ inbox' = {} /\ up'
    BY <1>7 DEF Restart, RestartWith, Shapes
  <2>2. slot = "empty"
    BY <1>7 DEF Restart, RestartWith
  <2> QED
    BY <2>1, <2>2 DEF Idle
<1> QED
  BY <1>1, <1>2, <1>3, <1>4, <1>5, <1>6, <1>7 DEF Next

LEMMA OwnReplyStep == ChannelInv /\ [Next]_vars => OwnReply'
<1> SUFFICES ASSUME ChannelInv, [Next]_vars PROVE OwnReply'
  OBVIOUS
<1>1. ASSUME NEW r \in RunIds, runs[r].owner \in Starts
      PROVE  runs'[r].owner = runs[r].owner
  BY <1>1, OwnersStay, BrokerAssumption DEF ChannelInv, Mutations
<1>2. ASSUME replies' \subseteq replies, hnd'.pc = "bind" => hnd' = hnd
      PROVE  OwnReply'
  <2>1. ASSUME NEW rho \in replies, rho.kind = "start", rho.verdict = "ok"
        PROVE  runs'[rho.run].owner = rho.mut
    <3>1. rho.run \in RunIds /\ runs[rho.run].owner = rho.mut
      BY <2>1 DEF ChannelInv, OwnReply, IInv, Shapes
    <3>2. slot = "open" /\ rho.mut = hnd.mut /\ hnd.kind = "start"
      BY <2>1 DEF ChannelInv, Channel, IInv, TypeOK
    <3>3. rho.mut \in Starts
      BY <3>2 DEF ChannelInv, IInv, Shapes
    <3> QED
      BY <1>1, <3>1, <3>3
  <2>2. ASSUME hnd.pc = "bind"
        PROVE  runs'[hnd.run].owner = hnd.mut
    <3>1. hnd.run \in RunIds /\ runs[hnd.run].owner = hnd.mut /\ hnd.mut \in Starts
      BY <2>2 DEF ChannelInv, OwnReply, IInv, Shapes
    <3> QED
      BY <1>1, <3>1
  <2> QED
    BY <1>2, <2>1, <2>2 DEF OwnReply
<1>3. CASE UNCHANGED vars
  BY <1>2, <1>3 DEF vars
<1>4. CASE HandlerStep
  <2> USE DEF Book, At, journalVars, executorVars, historyVars
  <2>1. ASSUME NEW rho \in replies, ReceiveStart(rho)
        PROVE  OwnReply'
    <3>1. slot = "open" /\ rho.mut = hnd.mut /\ replies' \subseteq replies /\ UNCHANGED runs
      BY <2>1 DEF ReceiveStart, Receive, ChannelInv, Channel, IInv, TypeOK
    <3>2. CASE Echoes(rho) /\ rho.verdict = "ok"
      <4>1. hnd'.run = rho.run /\ hnd'.mut = hnd.mut /\ rho.kind = "start"
        BY <2>1, <3>2 DEF ReceiveStart, Echoes, ChannelInv, IInv, TypeOK, Handlers
      <4> QED
        BY <3>1, <3>2, <4>1 DEF ChannelInv, OwnReply
    <3>3. CASE ~(Echoes(rho) /\ rho.verdict = "ok")
      <4>1. hnd'.pc # "bind"
        BY <2>1, <3>3 DEF ReceiveStart, ChannelInv, IInv, TypeOK, Handlers
      <4> QED
        BY <1>2, <3>1, <4>1
    <3> QED
      BY <3>2, <3>3
  <2>2. ASSUME NEW rho \in replies, ReceiveCancel(rho) \/ ReceiveRead(rho)
        PROVE  OwnReply'
    <3>1. hnd \in Handlers /\ Idle.pc = "idle" /\ replies' \subseteq replies
      BY <2>2 DEF ChannelInv, IInv, TypeOK, Idle, ReceiveCancel, ReceiveRead, Receive
    <3>2. hnd'.pc # "bind"
      BY <2>2, <3>1 DEF ReceiveCancel, ReceiveRead, Handlers
    <3> QED
      BY <1>2, <3>1, <3>2
  <2>3. ASSUME Prepare \/ ReleaseStart \/ CancelUnavailable \/ ReadUnavailable \/ MarkDispatched
               \/ Send \/ LoseReply \/ BindJob \/ BindFails \/ CompleteStart \/ DoubtStart
        PROVE  OwnReply'
    <3>1. hnd \in Handlers
      BY DEF ChannelInv, IInv, TypeOK
    <3>2. replies' \subseteq replies
      BY <2>3
         DEF Prepare, ReleaseStart, CancelUnavailable, ReadUnavailable, MarkDispatched, Send,
             LoseReply, BindJob, BindFails, CompleteStart, DoubtStart, WriteFails
    <3>3. hnd'.pc # "bind"
      BY <2>3, <3>1
         DEF Prepare, ReleaseStart, CancelUnavailable, ReadUnavailable, MarkDispatched, Send,
             LoseReply, BindJob, BindFails, CompleteStart, DoubtStart, GiveUp, Handlers,
             WriteFails
    <3> QED
      BY <1>2, <3>2, <3>3
  <2>4. ASSUME TransitionFails \/ Reply
        PROVE  OwnReply'
    BY <1>2, <2>4 DEF TransitionFails, Reply, Idle, WriteFails
  <2>5. ASSUME NEW j \in hnd.todo, BookJob(j)
        PROVE  OwnReply'
    <3>1. hnd'.pc = "book" /\ replies' \subseteq replies
      BY <2>5 DEF BookJob, ChannelInv, IInv, TypeOK, Handlers, WriteFails
    <3> QED
      BY <1>2, <3>1
  <2> QED
    BY <1>4, <2>1, <2>2, <2>3, <2>4, <2>5 DEF HandlerStep, BoundedStep
<1>5. CASE ClientStep
  <2>1. ASSUME NEW c, NEW methods, NEW m,
               Connect(c, methods) \/ Disconnect \/ StatementFails
               \/ Query(m) \/ RefuseStart(m)
        PROVE  OwnReply'
    BY <1>2, <2>1 DEF Connect, Disconnect, Query, RefuseStart, StatementFails
  <2>2. ASSUME NEW m, NEW J, ClaimStart(m) \/ ClaimCancel(m, J) \/ BeginRead(m, J)
        PROVE  OwnReply'
    <3>1. UNCHANGED replies
      BY <2>2 DEF ClaimStart, ClaimCancel, BeginRead
    <3>2. hnd'.pc = "prepare"
      BY <2>2 DEF ClaimStart, ClaimCancel, BeginRead, Idle
    <3> QED
      BY <1>2, <3>1, <3>2
  <2> QED
    BY <1>5, <2>1, <2>2 DEF ClientStep
<1>6. CASE ExecutorStep
  <2>1. ASSUME NEW f \in inbox, NEW r \in RunIds, ServeStart(f, r)
        PROVE  OwnReply'
    <3>1. hnd' = hnd /\ runs' = [runs EXCEPT ![r] = [owner |-> f.mut, state |-> "running"]]
      BY <2>1 DEF ServeStart
    <3>2. runs'[r].owner = f.mut
      BY <3>1 DEF ChannelInv, IInv, TypeOK
    <3>3. ASSUME NEW rho \in replies', rho.kind = "start", rho.verdict = "ok"
          PROVE  runs'[rho.run].owner = rho.mut
      <4>1. CASE rho \in replies
        <5>1. rho.run \in RunIds /\ runs[rho.run].owner = rho.mut
          BY <3>3, <4>1 DEF ChannelInv, OwnReply, IInv, Shapes
        <5>2. rho.mut = hnd.mut /\ hnd.kind = "start"
          BY <3>3, <4>1 DEF ChannelInv, Channel, IInv, TypeOK
        <5>3. rho.mut \in Starts
          BY <5>2 DEF ChannelInv, IInv, Shapes
        <5> QED
          BY <1>1, <5>1, <5>3
      <4>2. CASE rho \notin replies
        <5>1. rho.mut = f.mut /\ rho.run = r
          BY <2>1, <3>3, <4>2 DEF ServeStart, Answer
        <5> QED
          BY <3>2, <5>1
      <4> QED
        BY <4>1, <4>2
    <3>4. ASSUME hnd.pc = "bind"
          PROVE  runs'[hnd.run].owner = hnd.mut
      <4>1. hnd.run \in RunIds /\ runs[hnd.run].owner = hnd.mut /\ hnd.mut \in Starts
        BY <3>4 DEF ChannelInv, OwnReply, IInv, Shapes
      <4> QED
        BY <1>1, <4>1
    <3> QED
      BY <3>1, <3>3, <3>4 DEF OwnReply
  <2>2. ASSUME NEW f \in inbox, ServeRefuse(f) \/ ServeCancel(f) \/ ServeRead(f)
        PROVE  OwnReply'
    <3>1. \A r \in RunIds : runs'[r].owner = runs[r].owner
      BY <2>2 DEF ServeRefuse, ServeCancel, ServeRead, ChannelInv, IInv, TypeOK
    <3>2. hnd' = hnd
      BY <2>2 DEF ServeRefuse, ServeCancel, ServeRead
    <3>3. ASSUME NEW rho \in replies', rho.kind = "start", rho.verdict = "ok"
          PROVE  rho \in replies
      BY <2>2, <3>3 DEF ServeRefuse, ServeCancel, ServeRead, Answer
    <3>4. \A rho \in replies : rho.kind = "start" /\ rho.verdict = "ok" => rho.run \in RunIds
      BY DEF ChannelInv, IInv, Shapes
    <3>5. hnd.pc = "bind" => hnd.run \in RunIds
      BY DEF ChannelInv, IInv, Shapes
    <3> QED
      BY <3>1, <3>2, <3>3, <3>4, <3>5 DEF ChannelInv, OwnReply
  <2>3. ASSUME NEW r \in RunIds, RunEnds(r) \/ ForgetRun(r)
        PROVE  OwnReply'
    BY <1>2, <2>3 DEF RunEnds, ForgetRun
  <2> QED
    BY <1>6, <2>1, <2>2, <2>3 DEF ExecutorStep
<1>7. CASE Crash \/ ExecutorDies \/ Restart
  BY <1>2, <1>7 DEF Crash, ExecutorDies, Restart, RestartWith, Idle
<1> QED
  BY <1>3, <1>4, <1>5, <1>6, <1>7 DEF Next

\* A client owns the jobs it names: their rows are its own, and a row's run is
\* that of the row's start.
LEMMA OwnedRuns ==
  ASSUME ChannelInv, NEW c, NEW J, Owns(c, J), NEW r \in J \cap RunIds
  PROVE  runs[r].owner \in Starts /\ runs[r].owner[1] = c
<1>1. PICK m \in Starts : Row(m).job = r /\ m[1] = c
  BY DEF Owns, RowsOf
<1>2. r # m
  BY BrokerAssumption
<1> QED
  BY <1>1, <1>2 DEF ChannelInv, ReceiptNamesOwnRun

LEMMA OwnJobsStep == ChannelInv /\ [Next]_vars => OwnJobs'
<1> SUFFICES ASSUME ChannelInv, [Next]_vars PROVE OwnJobs'
  OBVIOUS
<1>1. ASSUME NEW r \in RunIds, runs[r].owner \in Starts
      PROVE  runs'[r].owner = runs[r].owner
  BY <1>1, OwnersStay, BrokerAssumption DEF ChannelInv, Mutations
<1>2. ASSUME NEW f \in inbox, NEW r \in f.jobs \cap RunIds
      PROVE  runs'[r].owner \in Starts /\ runs'[r].owner[1] = f.mut[1]
  BY <1>1, <1>2 DEF ChannelInv, OwnJobs
<1>3. ASSUME NEW r \in hnd.jobs \cap RunIds
      PROVE  runs'[r].owner \in Starts /\ runs'[r].owner[1] = hnd.mut[1]
  BY <1>1, <1>3 DEF ChannelInv, OwnJobs
<1>4. ASSUME inbox' \subseteq inbox,
             hnd'.jobs = {} \/ (hnd'.jobs = hnd.jobs /\ hnd'.mut = hnd.mut)
      PROVE  OwnJobs'
  BY <1>2, <1>3, <1>4 DEF OwnJobs
<1>5. hnd \in Handlers /\ Idle.jobs = {}
  BY DEF ChannelInv, IInv, TypeOK, Idle
<1>6. CASE UNCHANGED vars
  BY <1>4, <1>6 DEF vars
<1>7. CASE HandlerStep
  <2> USE DEF Book, journalVars, executorVars, historyVars
  <2>1. CASE Send
    <3>1. hnd'.jobs = hnd.jobs /\ hnd'.mut = hnd.mut
      BY <1>5, <2>1 DEF Send, Handlers
    <3>2. ASSUME NEW f \in inbox', f \notin inbox
          PROVE  f.jobs = hnd.jobs /\ f.mut = hnd.mut
      BY <2>1, <3>2 DEF Send
    <3> QED
      BY <1>2, <1>3, <3>1, <3>2 DEF OwnJobs
  <2>2. ASSUME NEW rho, ReceiveStart(rho) \/ ReceiveCancel(rho) \/ ReceiveRead(rho)
        PROVE  OwnJobs'
    <3>1. inbox' = inbox
      BY <2>2 DEF ReceiveStart, ReceiveCancel, ReceiveRead, Receive
    <3>2. hnd'.jobs = {} \/ (hnd'.jobs = hnd.jobs /\ hnd'.mut = hnd.mut)
      <4>1. CASE ReceiveStart(rho)
        BY <1>5, <4>1 DEF ReceiveStart, Handlers
      <4>2. CASE ReceiveCancel(rho)
        BY <1>5, <4>2 DEF ReceiveCancel, Handlers
      <4>3. CASE ReceiveRead(rho)
        <5>1. CASE Echoes(rho)
          BY <1>5, <4>3, <5>1 DEF ReceiveRead, Handlers
        <5>2. CASE ~Echoes(rho)
          <6>1. hnd' = Idle
            BY <4>3, <5>2 DEF ReceiveRead
          <6> QED
            BY <1>5, <6>1
        <5> QED
          BY <5>1, <5>2
      <4> QED
        BY <2>2, <4>1, <4>2, <4>3
    <3> QED
      BY <1>4, <3>1, <3>2
  <2>3. ASSUME Prepare \/ ReleaseStart \/ CancelUnavailable \/ ReadUnavailable \/ MarkDispatched
               \/ LoseReply \/ BindJob \/ BindFails \/ CompleteStart \/ DoubtStart
        PROVE  OwnJobs'
    <3>1. inbox' = inbox
      BY <2>3
         DEF Prepare, ReleaseStart, CancelUnavailable, ReadUnavailable, MarkDispatched,
             LoseReply, BindJob, BindFails, CompleteStart, DoubtStart, WriteFails
    <3>2. hnd'.jobs = hnd.jobs /\ hnd'.mut = hnd.mut
      BY <1>5, <2>3
         DEF Prepare, ReleaseStart, CancelUnavailable, ReadUnavailable, MarkDispatched,
             LoseReply, BindJob, BindFails, CompleteStart, DoubtStart, GiveUp, Handlers,
             WriteFails
    <3> QED
      BY <1>4, <3>1, <3>2
  <2>4. ASSUME TransitionFails \/ Reply
        PROVE  OwnJobs'
    <3>1. hnd' = Idle /\ inbox' = inbox
      BY <2>4 DEF TransitionFails, Reply, WriteFails
    <3>2. hnd'.jobs = {}
      BY <1>5, <3>1
    <3> QED
      BY <1>4, <3>1, <3>2
  <2>5. ASSUME NEW j \in hnd.todo, BookJob(j)
        PROVE  OwnJobs'
    <3>1. hnd'.jobs = hnd.jobs /\ hnd'.mut = hnd.mut /\ inbox' = inbox
      BY <1>5, <2>5 DEF BookJob, Handlers, WriteFails
    <3> QED
      BY <1>4, <3>1
  <2> QED
    BY <1>7, <2>1, <2>2, <2>3, <2>4, <2>5 DEF HandlerStep, BoundedStep
<1>8. CASE ClientStep
  <2>1. ASSUME NEW c, NEW methods, NEW m,
               Connect(c, methods) \/ Disconnect \/ StatementFails
               \/ Query(m) \/ RefuseStart(m)
        PROVE  OwnJobs'
    BY <1>4, <2>1 DEF Connect, Disconnect, Query, RefuseStart, executorVars, StatementFails
  <2>2. ASSUME NEW m, ClaimStart(m)
        PROVE  OwnJobs'
    <3>1. hnd' = [Idle EXCEPT !.pc = "prepare", !.kind = "start", !.mut = m]
      BY <2>2 DEF ClaimStart
    <3>2. hnd'.jobs = {}
      BY <3>1 DEF Idle
    <3>3. inbox' = inbox
      BY <2>2 DEF ClaimStart, executorVars
    <3> QED
      BY <1>4, <3>2, <3>3
  <2>3. ASSUME NEW m, NEW J, ClaimCancel(m, J) \/ BeginRead(m, J)
        PROVE  OwnJobs'
    <3>1. inbox' = inbox /\ runs' = runs /\ Owns(m[1], J)
      BY <2>3 DEF ClaimCancel, BeginRead, executorVars
    <3>2. hnd'.jobs = J /\ hnd'.mut = m
      BY <2>3 DEF ClaimCancel, BeginRead, Idle
    <3> QED
      BY <1>2, <3>1, <3>2, OwnedRuns DEF OwnJobs
  <2> QED
    BY <1>8, <2>1, <2>2, <2>3 DEF ClientStep
<1>9. CASE ExecutorStep
  <2>1. ASSUME NEW f, NEW r, ServeStart(f, r)
        PROVE  inbox' \subseteq inbox /\ hnd' = hnd
    BY <2>1 DEF ServeStart, Answer
  <2>2. ASSUME NEW f, ServeRefuse(f) \/ ServeCancel(f) \/ ServeRead(f)
        PROVE  inbox' \subseteq inbox /\ hnd' = hnd
    BY <2>2 DEF ServeRefuse, ServeCancel, ServeRead, Answer
  <2>3. ASSUME NEW r, RunEnds(r) \/ ForgetRun(r)
        PROVE  inbox' \subseteq inbox /\ hnd' = hnd
    BY <2>3 DEF RunEnds, ForgetRun
  <2>4. inbox' \subseteq inbox /\ hnd' = hnd
    <3> HIDE DEF ChannelInv
    <3> QED
      BY <1>9, <2>1, <2>2, <2>3 DEF ExecutorStep
  <2> QED
    BY <1>4, <2>4
<1>10. CASE Crash \/ ExecutorDies \/ Restart
  BY <1>4, <1>5, <1>10 DEF Crash, ExecutorDies, Restart, RestartWith, executorVars
<1> QED
  BY <1>6, <1>7, <1>8, <1>9, <1>10 DEF Next

LEMMA ChannelInitially == Init => ChannelInv
<1> SUFFICES ASSUME Init PROVE ChannelInv
  OBVIOUS
<1>1. IInv
  BY InitIInv
<1>2. Channel /\ OwnReply /\ OwnJobs
  BY DEF Init, Channel, OwnReply, OwnJobs, Idle
<1>3. ReceiptNamesOwnRun
  BY DEF Init, ReceiptNamesOwnRun, Row
<1> QED
  BY <1>1, <1>2, <1>3 DEF ChannelInv

\* The channel, the replies on it and the jobs that requests name, in one
\* inductive invariant.
THEOREM ChannelInvariant == Spec => []ChannelInv
<1>1. ChannelInv /\ [Next]_vars => ChannelInv'
  BY TypeOKStep, ShapesStep, JournalStep, JournaledStep, ExecutedStep,
     ChannelStep, OwnReplyStep, ReceiptStep, OwnJobsStep
     DEF ChannelInv, IInv
<1> QED
  BY ChannelInitially, <1>1, PTL DEF Spec

\* A receipt names the run that its own start made (execute_on_stream drops the
\* channel with every reply that it did not wait for).
THEOREM ReceiptsNameOwnRuns == Spec => []ReceiptNamesOwnRun
<1>1. ChannelInv => ReceiptNamesOwnRun
  BY DEF ChannelInv
<1> QED
  BY ChannelInvariant, <1>1, PTL

\* owns_all_jobs lets no frame name a run that another client's start made.
THEOREM FramesAlwaysStayWithOwner == Spec => []FramesStayWithOwner
<1>1. ChannelInv => FramesStayWithOwner
  BY DEF ChannelInv, OwnJobs, FramesStayWithOwner
<1> QED
  BY ChannelInvariant, <1>1, PTL

-----------------------------------------------------------------------------
(* What is settled, and the ledger.                                        *)

Over(r) == runs[r].state \in {"ended", "gone"}

\* A run that is reported over is over, a start that is refused made no run,
\* and no frame is left that could still start what was settled.
Settling ==
  /\ \A rho \in replies : \A j \in rho.settled : j \in hnd.jobs \cap RunIds /\ Over(j)
  /\ hnd.kind = "read" => \A j1, j2 \in hnd.jobs : j1 = j2
  /\ hnd.pc = "book" /\ hnd.out = "settled" => \A j \in hnd.todo : j \in RunIds /\ Over(j)
  /\ \A f \in StartFrames : f.mut \notin over
  /\ \A m \in over : receipts[m].state \in {"outcome_unknown", "completed"}
  /\ \A m \in Starts : receipts[m].state = "completed" => m \in over
  /\ \A rho \in replies : rho.kind = "start" /\ rho.verdict = "refused" => ~Started(rho.mut)
  /\ hnd.pc = "complete" => ~Started(hnd.mut)
  /\ CompletedIsOver

SettlingInv == ChannelInv /\ Settling

LEMMA OverStays ==
  ASSUME IInv, [Next]_vars, NEW r \in RunIds, Over(r)
  PROVE  Over(r)'
<1> USE DEF Over, IInv, TypeOK
<1>1. CASE UNCHANGED runs
  BY <1>1
<1>2. CASE ExecutorStep
  <2>1. ASSUME NEW f, NEW q \in RunIds, ServeStart(f, q) PROVE runs'[r] = runs[r]
    BY <2>1 DEF ServeStart
  <2>2. ASSUME NEW f, ServeRefuse(f) \/ ServeRead(f) PROVE UNCHANGED runs
    BY <2>2 DEF ServeRefuse, ServeRead
  <2>3. ASSUME NEW f, ServeCancel(f) PROVE Over(r)'
    BY <2>3 DEF ServeCancel, Known
  <2>4. ASSUME NEW q \in RunIds, RunEnds(q) \/ ForgetRun(q) PROVE Over(r)'
    BY <2>4 DEF RunEnds, ForgetRun
  <2> QED
    BY <1>1, <1>2, <2>1, <2>2, <2>3, <2>4 DEF ExecutorStep
<1>3. CASE ExecutorDies \/ Restart
  BY <1>3 DEF ExecutorDies, Restart, RestartWith, Lost
<1>4. CASE HandlerStep
  BY <1>1, <1>4
     DEF HandlerStep, Prepare, ReleaseStart, CancelUnavailable, ReadUnavailable, MarkDispatched,
         TransitionFails, Send, ReceiveStart, ReceiveCancel, ReceiveRead, Receive, LoseReply,
         BindJob, BindFails, CompleteStart, DoubtStart, BookJob, Reply, executorVars,
         BoundedStep, WriteFails
<1>5. CASE ClientStep
  BY <1>1, <1>5
     DEF ClientStep, Connect, Disconnect, Query, ClaimStart, RefuseStart, ClaimCancel, BeginRead,
         executorVars, StatementFails
<1>6. CASE Crash \/ UNCHANGED vars
  BY <1>1, <1>6 DEF Crash, executorVars, vars
<1> QED
  BY <1>2, <1>3, <1>4, <1>5, <1>6 DEF Next

LEMMA StartedStays ==
  ASSUME IInv, [Next]_vars, NEW m \in Starts, Started(m)
  PROVE  Started(m)'
  BY OwnersStay, BrokerAssumption DEF Started, Mutations

LEMMA StartedByServing ==
  ASSUME IInv, [Next]_vars, NEW m \in Starts, ~Started(m), Started(m)'
  PROVE  \E f \in StartFrames, r \in RunIds : f.mut = m /\ ServeStart(f, r)
<1>1. PICK f \in inbox, r \in RunIds : ServeStart(f, r)
  BY OwnersKept DEF Started
<1>2. f \in StartFrames /\ f.mut = m
  BY <1>1 DEF ServeStart, StartFrames, Started, IInv, TypeOK
<1> QED
  BY <1>1, <1>2

\* How a step changes one row of the journal.
LEMMA ReceiptCases ==
  ASSUME IInv, [Next]_vars, NEW m \in Starts
  PROVE  \/ receipts'[m] = receipts[m]
         \/ receipts'[m].state \notin {"completed", "outcome_unknown"}
         \/ receipts'[m].state = "outcome_unknown"
         \/ /\ receipts'[m] = [receipts[m] EXCEPT !.state = "completed"]
            /\ Exists(m) /\ m \in over'
            /\ \/ CompleteStart /\ m = hnd.mut
               \/ \E j \in hnd.todo : BookJob(j) /\ hnd.out = "settled" /\ receipts[m].job = j
<1>0. receipts \in [Starts -> Receipts]
  BY DEF IInv, TypeOK
<1>1. ASSUME NEW M, NEW st, receipts' = WithState(M, st)
      PROVE  \/ receipts'[m] = receipts[m]
             \/ m \in M /\ Exists(m) /\ receipts'[m] = [receipts[m] EXCEPT !.state = st]
                /\ receipts'[m].state = st
  BY <1>0, <1>1 DEF WithState, Receipts
<1>2. CASE UNCHANGED receipts
  BY <1>2
<1>3. CASE HandlerStep
  <2>1. CASE ReleaseStart
    <3>1. \/ UNCHANGED receipts
          \/ receipts' = [receipts EXCEPT ![hnd.mut] = [job |-> hnd.mut, state |-> "none"]]
      BY <2>1 DEF ReleaseStart, journalVars
    <3> QED
      BY <1>0, <3>1
  <2>2. CASE MarkDispatched
    <3>1. receipts'[m] = receipts[m] \/ receipts'[m].state = "dispatched"
      BY <2>2, <1>1 DEF MarkDispatched
    <3> QED
      BY <3>1
  <2>3. CASE CompleteStart
    BY <2>3, <1>1 DEF CompleteStart
  <2>4. CASE DoubtStart
    BY <2>4, <1>1, <1>2 DEF DoubtStart, WriteFails
  <2>5. ASSUME NEW j \in hnd.todo, BookJob(j)
        PROVE  \/ receipts'[m] = receipts[m]
               \/ receipts'[m].state = "outcome_unknown"
               \/ /\ receipts'[m] = [receipts[m] EXCEPT !.state = "completed"]
                  /\ Exists(m) /\ m \in over'
                  /\ hnd.out = "settled" /\ receipts[m].job = j
    <3>1. CASE UNCHANGED receipts
      BY <3>1
    <3>2. ASSUME receipts' = WithState(RowsOf(j), Booked), txn = None,
                 over' = IF Booked = "completed"
                         THEN over \cup {n \in RowsOf(j) : Exists(n)} ELSE over
          PROVE  \/ receipts'[m] = receipts[m]
                 \/ receipts'[m].state = "outcome_unknown"
                 \/ /\ receipts'[m] = [receipts[m] EXCEPT !.state = "completed"]
                    /\ Exists(m) /\ m \in over'
                    /\ hnd.out = "settled" /\ receipts[m].job = j
      <4>1. m \in RowsOf(j) => receipts[m].job = j
        BY <3>2 DEF RowsOf, Row
      <4>2. CASE hnd.out = "settled"
        <5>1. Booked = "completed"
          BY <4>2 DEF Booked
        <5> QED
          BY <1>1, <3>2, <4>1, <4>2, <5>1
      <4>3. CASE hnd.out # "settled"
        <5>1. Booked = "outcome_unknown"
          BY <4>3 DEF Booked
        <5> QED
          BY <1>1, <3>2, <5>1
      <4> QED
        BY <4>2, <4>3
    <3> QED
      BY <2>5, <3>1, <3>2 DEF BookJob, WriteFails
  <2>6. CASE BindJob
    <3>1. receipts' = [receipts EXCEPT ![hnd.mut] = [job |-> hnd.run, state |-> "dispatched"]]
      BY <2>6 DEF BindJob
    <3> QED
      BY <1>0, <3>1
  <2>7. ReceiptsKept \/ ReleaseStart \/ MarkDispatched \/ CompleteStart \/ DoubtStart
          \/ BindJob \/ \E j \in hnd.todo : BookJob(j)
    BY <1>3
       DEF HandlerStep, Prepare, CancelUnavailable, ReadUnavailable, TransitionFails, Send,
           ReceiveStart, ReceiveCancel, ReceiveRead, Receive, LoseReply, BindFails, Reply, journalVars,
           ReceiptsKept, BoundedStep, WriteFails
  <2> QED
    BY <2>1, <2>2, <2>3, <2>4, <2>5, <2>6, <2>7 DEF ReceiptsKept
<1>4. CASE ClientStep
  <2>1. ASSUME NEW n \in Starts, ClaimStart(n)
        PROVE  receipts'[m] = receipts[m] \/ receipts'[m].state = "pending"
    <3>1. receipts' = [receipts EXCEPT ![n] = [job |-> n, state |-> "pending"]]
      BY <2>1 DEF ClaimStart
    <3> QED
      BY <1>0, <3>1
  <2>2. ReceiptsKept \/ \E n \in Starts : ClaimStart(n)
    BY <1>4
       DEF ClientStep, Connect, Disconnect, Query, RefuseStart, ClaimCancel, BeginRead, journalVars,
           ReceiptsKept, StatementFails
  <2> QED
    BY <2>1, <2>2 DEF ReceiptsKept
<1>5. CASE ExecutorStep
  BY <1>2, <1>5
     DEF ExecutorStep, ServeStart, ServeRefuse, ServeCancel, ServeRead, RunEnds, ForgetRun, journalVars
<1>6. CASE Restart
  BY <1>1, <1>6 DEF Restart, RestartWith
<1>7. CASE Crash \/ ExecutorDies \/ UNCHANGED vars
  BY <1>2, <1>7 DEF Crash, ExecutorDies, journalVars, vars
<1> QED
  BY <1>3, <1>4, <1>5, <1>6, <1>7 DEF Next

\* A row that is completed or in doubt stays one of the two.
LEMMA EndedRowsStay ==
  ASSUME IInv, [Next]_vars, NEW m \in Starts, receipts[m].state \in {"outcome_unknown", "completed"}
  PROVE  receipts'[m].state \in {"outcome_unknown", "completed"}
<1>0. receipts \in [Starts -> Receipts]
  BY DEF IInv, TypeOK
<1>1. ASSUME NEW M, NEW st \in {"outcome_unknown", "completed"}, receipts' = WithState(M, st)
      PROVE  receipts'[m].state \in {"outcome_unknown", "completed"}
  BY <1>0, <1>1 DEF WithState, Receipts
<1>2. CASE UNCHANGED receipts
  BY <1>2
<1>3. ASSUME NEW n, NEW row, n # m, receipts' = [receipts EXCEPT ![n] = row]
      PROVE  receipts'[m].state \in {"outcome_unknown", "completed"}
  BY <1>0, <1>3
<1>4. CASE HandlerStep
  <2>1. ASSUME At("prepare", "start") \/ At("mark", "start") \/ At("bind", "start")
        PROVE  hnd.mut # m
    BY <2>1 DEF At, IInv, Journaled
  <2>2. CASE ReleaseStart
    BY <1>2, <1>3, <2>1, <2>2 DEF ReleaseStart, journalVars
  <2>3. CASE MarkDispatched
    <3>1. hnd.mut # m /\ receipts' = WithState({hnd.mut}, "dispatched")
      BY <2>1, <2>3 DEF MarkDispatched
    <3> QED
      BY <3>1 DEF WithState
  <2>4. CASE BindJob
    BY <1>3, <2>1, <2>4 DEF BindJob
  <2>5. CASE CompleteStart \/ DoubtStart
    BY <2>5, <1>1, <1>2 DEF CompleteStart, DoubtStart, WriteFails
  <2>6. ASSUME NEW j, BookJob(j)
        PROVE  receipts'[m].state \in {"outcome_unknown", "completed"}
    <3>1. Booked \in {"outcome_unknown", "completed"}
      BY DEF Booked
    <3> QED
      BY <2>6, <3>1, <1>1, <1>2 DEF BookJob, WriteFails
  <2>7. ReceiptsKept \/ ReleaseStart \/ MarkDispatched \/ CompleteStart \/ DoubtStart
          \/ BindJob \/ \E j \in hnd.todo : BookJob(j)
    BY <1>4
       DEF HandlerStep, Prepare, CancelUnavailable, ReadUnavailable, TransitionFails, Send,
           ReceiveStart, ReceiveCancel, ReceiveRead, Receive, LoseReply, BindFails, Reply, journalVars,
           ReceiptsKept, BoundedStep, WriteFails
  <2> QED
    BY <1>2, <2>2, <2>3, <2>4, <2>5, <2>6, <2>7 DEF ReceiptsKept
<1>5. CASE ClientStep
  <2>1. ASSUME NEW n \in Starts, ClaimStart(n)
        PROVE  receipts'[m].state \in {"outcome_unknown", "completed"}
    <3>1. n # m
      BY <2>1 DEF ClaimStart, IInv, Journal, ReceiptIsClaimed, Exists
    <3> QED
      BY <1>3, <2>1, <3>1 DEF ClaimStart
  <2>2. ReceiptsKept \/ \E n \in Starts : ClaimStart(n)
    BY <1>5
       DEF ClientStep, Connect, Disconnect, Query, RefuseStart, ClaimCancel, BeginRead, journalVars,
           ReceiptsKept, StatementFails
  <2> QED
    BY <1>2, <2>1, <2>2 DEF ReceiptsKept
<1>6. CASE ExecutorStep
  BY <1>2, <1>6
     DEF ExecutorStep, ServeStart, ServeRefuse, ServeCancel, ServeRead, RunEnds, ForgetRun, journalVars
<1>7. CASE Restart
  BY <1>1, <1>7 DEF Restart, RestartWith
<1>8. CASE Crash \/ ExecutorDies \/ UNCHANGED vars
  BY <1>2, <1>8 DEF Crash, ExecutorDies, journalVars, vars
<1> QED
  BY <1>4, <1>5, <1>6, <1>7, <1>8 DEF Next

\* What is settled is completed in the same transaction, by the handler of the
\* start or by one that books its job.
LEMMA OverCases ==
  ASSUME IInv, [Next]_vars
  PROVE  /\ over \subseteq over'
         /\ over' # over =>
              \/ CompleteStart /\ over' = over \cup {hnd.mut}
              \/ \E j \in hnd.todo : /\ BookJob(j) /\ hnd.out = "settled" /\ txn = None
                                     /\ receipts' = WithState(RowsOf(j), "completed")
                                     /\ over' = over \cup {m \in RowsOf(j) : Exists(m)}
<1>1. CASE UNCHANGED over
  BY <1>1
<1>2. CASE HandlerStep
  <2>1. CASE CompleteStart
    BY <2>1 DEF CompleteStart
  <2>2. ASSUME NEW j \in hnd.todo, BookJob(j), over' # over
        PROVE  /\ hnd.out = "settled" /\ txn = None
               /\ receipts' = WithState(RowsOf(j), "completed")
               /\ over' = over \cup {m \in RowsOf(j) : Exists(m)}
    BY <2>2 DEF BookJob, Booked
  <2>3. UNCHANGED over \/ CompleteStart \/ \E j \in hnd.todo : BookJob(j)
    BY <1>2
       DEF HandlerStep, BoundedStep, Prepare, ReleaseStart, CancelUnavailable,
           ReadUnavailable, MarkDispatched, TransitionFails, Send, ReceiveStart,
           ReceiveCancel, ReceiveRead, Receive, LoseReply, BindJob, BindFails,
           DoubtStart, Reply, historyVars
  <2> QED
    BY <1>1, <2>1, <2>2, <2>3
<1>3. CASE ClientStep
  BY <1>1, <1>3
     DEF ClientStep, Connect, Disconnect, StatementFails, Query, ClaimStart,
         RefuseStart, ClaimCancel, BeginRead, historyVars
<1> QED
  BY <1>1, <1>2, <1>3
     DEF Next, ExecutorStep, ServeStart, ServeRefuse, ServeCancel, ServeRead, RunEnds,
         ForgetRun, Crash, ExecutorDies, Restart, RestartWith, historyVars, vars

\* A start that is settled in a step has just been completed.
LEMMA OverIsCompleted ==
  ASSUME IInv, [Next]_vars, NEW m \in over', m \notin over
  PROVE  /\ m \in Starts /\ receipts'[m].state = "completed"
         /\ \/ CompleteStart /\ m = hnd.mut
            \/ \E j \in hnd.todo : BookJob(j) /\ hnd.out = "settled" /\ receipts[m].job = j
<1>1. ASSUME NEW M, m \in M, m \in Starts, Exists(m), receipts' = WithState(M, "completed")
      PROVE  receipts'[m].state = "completed"
  BY <1>1 DEF WithState, IInv, TypeOK, Receipts
<1>2. CASE CompleteStart /\ over' = over \cup {hnd.mut}
  <2>1. m = hnd.mut /\ m \in Starts /\ Exists(m)
    BY <1>2 DEF CompleteStart, At, IInv, Shapes, Journaled, Exists
  <2> QED
    BY <1>1, <1>2, <2>1 DEF CompleteStart
<1>3. ASSUME NEW j \in hnd.todo, BookJob(j), hnd.out = "settled", txn = None,
             receipts' = WithState(RowsOf(j), "completed"),
             over' = over \cup {n \in RowsOf(j) : Exists(n)}
      PROVE  m \in Starts /\ receipts'[m].state = "completed" /\ receipts[m].job = j
  <2>1. m \in RowsOf(j) /\ Exists(m)
    BY <1>3
  <2>2. m \in Starts /\ receipts[m].job = j
    BY <1>3, <2>1 DEF RowsOf, Row
  <2> QED
    BY <1>1, <1>3, <2>1, <2>2
<1> QED
  BY <1>2, <1>3, OverCases

\* A frame comes from the handler that is at its send.
LEMMA FramesCome ==
  ASSUME IInv, [Next]_vars, NEW f \in inbox', f \notin inbox
  PROVE  Send /\ f = [kind |-> hnd.kind, mut |-> hnd.mut, jobs |-> hnd.jobs]
<1>1. CASE HandlerStep
  BY <1>1
     DEF HandlerStep, Prepare, ReleaseStart, CancelUnavailable, ReadUnavailable, MarkDispatched,
         TransitionFails, Send, ReceiveStart, ReceiveCancel, ReceiveRead, Receive, LoseReply,
         BindJob, BindFails, CompleteStart, DoubtStart, BookJob, Reply, executorVars,
         BoundedStep, WriteFails
<1>2. CASE ClientStep
  BY <1>2
     DEF ClientStep, Connect, Disconnect, Query, ClaimStart, RefuseStart, ClaimCancel, BeginRead,
         executorVars, StatementFails
<1>3. CASE ExecutorStep
  BY <1>3 DEF ExecutorStep, ServeStart, ServeRefuse, ServeCancel, ServeRead, Answer, RunEnds, ForgetRun
<1>4. CASE Crash \/ ExecutorDies \/ Restart \/ UNCHANGED vars
  BY <1>4 DEF Crash, ExecutorDies, Restart, RestartWith, executorVars, vars
<1> QED
  BY <1>1, <1>2, <1>3, <1>4 DEF Next

\* Replies are read in one step, or the handler does not move, or the one frame
\* of the request being handled is being served.
LEMMA RepliesCases ==
  ASSUME ChannelInv, [Next]_vars
  PROVE  \/ replies' = {}
         \/ replies' = replies /\ hnd' = hnd
         \/ ExecutorStep /\ inbox # {} /\ slot = "open" /\ hnd' = hnd
<1>1. ASSUME hnd.pc # "await"
      PROVE  replies = {}
  BY <1>1 DEF ChannelInv, Channel, IInv, TypeOK
<1>2. ASSUME NEW rho \in replies, replies' = replies \ {rho}
      PROVE  replies' = {}
  BY <1>2 DEF ChannelInv, Channel, IInv, TypeOK
<1>3. CASE HandlerStep
  <2>1. ASSUME NEW rho \in replies, ReceiveStart(rho) \/ ReceiveCancel(rho) \/ ReceiveRead(rho)
        PROVE  replies' = {}
    BY <2>1, <1>2 DEF ReceiveStart, ReceiveCancel, ReceiveRead, Receive
  <2>2. CASE LoseReply
    BY <2>2 DEF LoseReply
  <2>3. ASSUME NEW j, BookJob(j) PROVE replies' = {}
    BY <2>3, <1>1 DEF BookJob, WriteFails
  <2>4. CASE Prepare \/ ReleaseStart \/ CancelUnavailable \/ ReadUnavailable \/ MarkDispatched
             \/ TransitionFails \/ Send \/ BindJob \/ BindFails \/ CompleteStart \/ DoubtStart \/ Reply
    BY <2>4, <1>1
       DEF Prepare, ReleaseStart, CancelUnavailable, ReadUnavailable, MarkDispatched, TransitionFails,
           Send, BindJob, BindFails, CompleteStart, DoubtStart, Reply, At, WriteFails
  <2> QED
    BY <1>3, <2>1, <2>2, <2>3, <2>4 DEF HandlerStep, BoundedStep
<1>4. CASE ClientStep
  <2>1. ASSUME hnd = Idle PROVE replies = {}
    BY <2>1, <1>1 DEF Idle
  <2> QED
    BY <1>4, <2>1
       DEF ClientStep, Connect, Disconnect, Query, ClaimStart, RefuseStart, ClaimCancel, BeginRead,
           Admitted, executorVars, StatementFails
<1>5. CASE ExecutorStep
  <2>1. ASSUME NEW f \in inbox, NEW v, NEW r, NEW S, Answer(f, v, r, S), UNCHANGED <<hnd, slot>>
        PROVE  slot = "open" \/ replies' = replies
    BY <2>1 DEF Answer
  <2>2. ASSUME NEW f \in inbox, NEW r, ServeStart(f, r)
        PROVE  (slot = "open" \/ replies' = replies) /\ hnd' = hnd
    BY <2>1, <2>2 DEF ServeStart
  <2>3. ASSUME NEW f \in inbox, ServeRefuse(f)
        PROVE  (slot = "open" \/ replies' = replies) /\ hnd' = hnd
    BY <2>1, <2>3 DEF ServeRefuse
  <2>4. ASSUME NEW f \in inbox, ServeCancel(f)
        PROVE  (slot = "open" \/ replies' = replies) /\ hnd' = hnd
    BY <2>1, <2>4 DEF ServeCancel
  <2>5. ASSUME NEW f \in inbox, ServeRead(f)
        PROVE  (slot = "open" \/ replies' = replies) /\ hnd' = hnd
    BY <2>1, <2>5 DEF ServeRead
  <2>6. ASSUME NEW r, RunEnds(r) \/ ForgetRun(r)
        PROVE  replies' = replies /\ hnd' = hnd
    BY <2>6 DEF RunEnds, ForgetRun
  <2> QED
    BY <1>5, <2>2, <2>3, <2>4, <2>5, <2>6 DEF ExecutorStep
<1>6. CASE Crash \/ ExecutorDies \/ Restart \/ UNCHANGED vars
  BY <1>6 DEF Crash, ExecutorDies, Restart, RestartWith, vars
<1> QED
  BY <1>3, <1>4, <1>5, <1>6 DEF Next

LEMMA CompletedStep ==
  ASSUME SettlingInv, [Next]_vars
  PROVE  CompletedIsOver'
<1> USE DEF SettlingInv, ChannelInv
<1> SUFFICES ASSUME NEW m \in Starts, receipts'[m].state = "completed"
             PROVE  IF receipts'[m].job = m THEN ~Started(m)'
                    ELSE runs'[receipts'[m].job].state \in {"ended", "gone"}
  BY DEF CompletedIsOver
<1>0. receipts[m] \in Receipts /\ receipts[m].job \in RunIds \cup {m} /\ m \notin RunIds
  BY BrokerAssumption DEF IInv, TypeOK, Journal
<1>1. CASE receipts'[m] = receipts[m]
  <2>1. CASE receipts[m].job = m
    <3>1. ~Started(m)
      BY <1>1, <2>1 DEF Settling, CompletedIsOver
    <3>2. \A f \in StartFrames : f.mut # m
      BY <1>1 DEF Settling
    <3> QED
      BY <1>1, <2>1, <3>1, <3>2, StartedByServing
  <2>2. CASE receipts[m].job # m
    <3>1. Over(receipts[m].job) /\ receipts[m].job \in RunIds
      BY <1>0, <1>1, <2>2 DEF Settling, CompletedIsOver, Over
    <3> QED
      BY <1>1, <2>2, <3>1, OverStays DEF Over
  <2> QED
    BY <2>1, <2>2
<1>2. CASE /\ CompleteStart /\ m = hnd.mut
           /\ receipts'[m] = [receipts[m] EXCEPT !.state = "completed"]
  <2>1. receipts'[m].job = receipts[m].job /\ receipts[m].job = m
    BY <1>0, <1>2 DEF CompleteStart, At, IInv, Journaled
  <2>2. ~Started(m) /\ UNCHANGED runs
    BY <1>2 DEF CompleteStart, At, Settling, executorVars
  <2> QED
    BY <2>1, <2>2 DEF Started
<1>3. ASSUME NEW j \in hnd.todo, BookJob(j), hnd.out = "settled", receipts[m].job = j,
             receipts'[m] = [receipts[m] EXCEPT !.state = "completed"]
      PROVE  /\ receipts'[m].job # m
             /\ runs'[receipts'[m].job].state \in {"ended", "gone"}
  <2>1. j \in RunIds /\ Over(j) /\ receipts'[m].job = j
    BY <1>0, <1>3 DEF BookJob, Settling, WriteFails
  <2> QED
    BY <1>0, <2>1, OverStays DEF Over
<1> QED
  BY <1>1, <1>2, <1>3, ReceiptCases

LEMMA SettledFramesStep ==
  ASSUME SettlingInv, [Next]_vars, NEW f \in StartFrames'
  PROVE  f.mut \notin over'
<1> USE DEF SettlingInv, ChannelInv
<1>1. CASE f \notin inbox
  <2>1. Send /\ hnd.kind = "start" /\ f.mut = hnd.mut
    BY <1>1, FramesCome DEF StartFrames
  <2>2. UNCHANGED over /\ receipts[hnd.mut].state = "dispatched"
    BY <2>1 DEF Send, historyVars, IInv, Journaled
  <2> QED
    BY <2>1, <2>2 DEF Settling
<1>2. CASE f \in inbox
  <2>1. f \in StartFrames /\ f.mut \in Starts /\ f.mut \notin over /\ ~Started(f.mut)
    BY <1>2 DEF StartFrames, Settling, IInv, Shapes, Executed
  <2>2. CASE CompleteStart
    <3>1. slot = "open" /\ hnd.pc = "complete"
      BY <2>2 DEF CompleteStart, At, Channel
    <3> QED
      BY <1>2, <3>1 DEF Channel
  <2>3. ASSUME NEW j \in hnd.todo, BookJob(j), hnd.out = "settled", receipts[f.mut].job = j
        PROVE  FALSE
    <3>1. j \in RunIds /\ j # f.mut
      BY <2>1, <2>3, BrokerAssumption DEF BookJob, Settling
    <3> QED
      BY <2>1, <2>3, <3>1 DEF ReceiptNamesOwnRun, Started
  <2> QED
    BY <2>1, <2>2, <2>3, OverIsCompleted
<1> QED
  BY <1>1, <1>2

\* The settled starts are those whose receipt is completed, or was.
LEMMA OverRowsStep ==
  ASSUME SettlingInv, [Next]_vars
  PROVE  /\ \A m \in over' : receipts'[m].state \in {"outcome_unknown", "completed"}
         /\ \A m \in Starts : receipts'[m].state = "completed" => m \in over'
<1>0. IInv
  BY DEF SettlingInv, ChannelInv
<1>1. ASSUME NEW m \in over'
      PROVE  receipts'[m].state \in {"outcome_unknown", "completed"}
  <2>1. CASE m \in over
    <3>1. m \in Starts /\ receipts[m].state \in {"outcome_unknown", "completed"}
      BY <1>0, <2>1 DEF SettlingInv, Settling, IInv, TypeOK
    <3> QED
      BY <1>0, <3>1, EndedRowsStay
  <2> QED
    BY <1>0, <2>1, OverIsCompleted
<1>2. ASSUME NEW m \in Starts, receipts'[m].state = "completed"
      PROVE  m \in over'
  <2>1. CASE receipts'[m] = receipts[m]
    BY <1>0, <1>2, <2>1, OverCases DEF SettlingInv, Settling
  <2> QED
    BY <1>0, <1>2, <2>1, ReceiptCases
<1> QED
  BY <1>1, <1>2

LEMMA SettledRepliesStep ==
  ASSUME SettlingInv, [Next]_vars, NEW rho \in replies'
  PROVE  /\ \A j \in rho.settled : j \in hnd'.jobs \cap RunIds /\ Over(j)'
         /\ rho.kind = "start" /\ rho.verdict = "refused" => ~Started(rho.mut)'
<1> USE DEF SettlingInv
<1>1. CASE replies' = replies /\ hnd' = hnd
  <2>1. \A j \in rho.settled : j \in hnd.jobs \cap RunIds /\ Over(j)'
    BY <1>1, OverStays DEF Settling, ChannelInv
  <2>2. ASSUME rho.kind = "start", rho.verdict = "refused" PROVE ~Started(rho.mut)'
    <3>1. rho.mut = hnd.mut /\ hnd.kind = "start" /\ inbox = {} /\ ~Started(rho.mut)
      BY <1>1, <2>2 DEF Settling, ChannelInv, Channel, IInv, TypeOK
    <3>2. rho.mut \in Starts
      BY <3>1 DEF ChannelInv, IInv, Shapes
    <3> QED
      BY <3>1, <3>2, StartedByServing DEF ChannelInv, StartFrames
  <2> QED
    BY <1>1, <2>1, <2>2
<1>2. CASE ExecutorStep /\ inbox # {} /\ slot = "open" /\ hnd' = hnd
  <2>0. replies = {}
    BY <1>2 DEF ChannelInv, Channel
  <2>1. ASSUME NEW f \in inbox
        PROVE  f.jobs = hnd.jobs /\ (f.kind = "start" => ~Started(f.mut))
    BY <1>2, <2>1 DEF ChannelInv, Channel, IInv, Executed, StartFrames
  <2>2. ASSUME NEW f \in inbox, NEW v, NEW r, NEW S, Answer(f, v, r, S)
        PROVE  rho.settled = S /\ rho.mut = f.mut /\ rho.kind = f.kind /\ rho.verdict \in {v, "garbled"}
    <3>1. PICK w \in {v, "garbled"} :
            replies' = {[kind |-> f.kind, mut |-> f.mut, verdict |-> w, run |-> r, settled |-> S]}
      BY <1>2, <2>0, <2>2 DEF Answer
    <3> QED
      BY <3>1
  <2>3. ASSUME NEW f \in inbox, NEW r \in RunIds, ServeStart(f, r)
        PROVE  rho.settled = {} /\ rho.verdict # "refused"
    BY <2>2, <2>3 DEF ServeStart
  <2>4. ASSUME NEW f \in inbox, ServeRefuse(f)
        PROVE  rho.settled = {} /\ rho.mut = f.mut /\ rho.kind = f.kind /\ UNCHANGED runs
    BY <2>2, <2>4 DEF ServeRefuse
  <2>5. ASSUME NEW f \in inbox, ServeCancel(f)
        PROVE  /\ \A j \in rho.settled : j \in f.jobs \cap RunIds /\ Over(j)'
               /\ rho.kind # "start"
    BY <2>2, <2>5 DEF ServeCancel, Known, Over, ChannelInv, IInv, TypeOK
  <2>6. ASSUME NEW f \in inbox, ServeRead(f)
        PROVE  /\ \A j \in rho.settled : j \in f.jobs \cap RunIds /\ Over(j)'
               /\ rho.kind # "start"
    BY <2>2, <2>6 DEF ServeRead, Known, Over
  <2>7. ASSUME NEW r, RunEnds(r) \/ ForgetRun(r)
        PROVE  replies' = {}
    BY <2>0, <2>7 DEF RunEnds, ForgetRun
  <2>8. ASSUME NEW f \in inbox, ServeRefuse(f)
        PROVE  /\ \A j \in rho.settled : j \in hnd'.jobs \cap RunIds /\ Over(j)'
               /\ rho.kind = "start" => ~Started(rho.mut)'
    BY <2>1, <2>4, <2>8 DEF Started
  <2> HIDE DEF SettlingInv
  <2> QED
    BY <1>2, <2>1, <2>3, <2>5, <2>6, <2>7, <2>8 DEF ExecutorStep
<1> QED
  BY <1>1, <1>2, RepliesCases

\* What the handler is about to write down.
SettledHandler ==
  /\ hnd.kind = "read" => \A j1, j2 \in hnd.jobs : j1 = j2
  /\ hnd.pc = "book" /\ hnd.out = "settled" => \A j \in hnd.todo : j \in RunIds /\ Over(j)
  /\ hnd.pc = "complete" => ~Started(hnd.mut)

LEMMA SettledHandlerStep ==
  ASSUME SettlingInv, [Next]_vars
  PROVE  SettledHandler'
<1> USE DEF SettlingInv
<1>0. hnd \in Handlers /\ IInv /\ SettledHandler
  BY DEF ChannelInv, IInv, TypeOK, Settling, SettledHandler
<1>1. ASSUME /\ hnd'.kind = hnd.kind \/ hnd'.kind # "read"
             /\ hnd'.jobs = hnd.jobs \/ hnd'.kind # "read"
             /\ hnd'.pc # "complete"
             /\ hnd'.pc # "book" \/ hnd'.out # "settled"
      PROVE  SettledHandler'
  BY <1>1, <1>0 DEF SettledHandler
<1>2. CASE UNCHANGED hnd
  <2>1. hnd.pc = "complete" => ~Started(hnd.mut)'
    <3> SUFFICES ASSUME hnd.pc = "complete" PROVE ~Started(hnd.mut)'
      OBVIOUS
    <3>1. hnd.mut \in Starts /\ ~Started(hnd.mut) /\ inbox = {}
      BY DEF ChannelInv, Channel, IInv, Shapes, Settling
    <3>2. \A m \in Starts : ~Started(m) => ~Started(m)'
      BY <1>0, <3>1, StartedByServing DEF StartFrames
    <3> QED
      BY <1>2, <3>1, <3>2
  <2>2. hnd.pc = "book" /\ hnd.out = "settled" => \A j \in hnd.todo : j \in RunIds /\ Over(j)'
    BY <1>0, OverStays DEF SettledHandler
  <2> QED
    BY <1>0, <1>2, <2>1, <2>2 DEF SettledHandler
<1>3. CASE HandlerStep
  <2>1. CASE Prepare \/ MarkDispatched \/ Send
    <3>1. /\ hnd'.kind = hnd.kind /\ hnd'.jobs = hnd.jobs
          /\ hnd'.pc \notin {"complete", "book"}
      BY <1>0, <2>1 DEF Prepare, MarkDispatched, Send, Handlers
    <3> QED
      BY <1>1, <3>1
  <2>2. ASSUME NEW out, NEW todo, hnd' = Book(todo, out), out # "settled"
        PROVE  SettledHandler'
    <3>1. /\ hnd'.kind = hnd.kind /\ hnd'.jobs = hnd.jobs
          /\ hnd'.pc = "book" /\ hnd'.out # "settled"
      BY <1>0, <2>2 DEF Book, Handlers
    <3> QED
      BY <1>1, <3>1
  <2>3. CASE ReleaseStart \/ CancelUnavailable \/ ReadUnavailable \/ BindJob \/ CompleteStart
    BY <2>2, <2>3 DEF ReleaseStart, CancelUnavailable, ReadUnavailable, BindJob, CompleteStart
  <2>5. CASE TransitionFails \/ Reply
    <3>1. hnd'.kind # "read" /\ hnd'.pc = "idle"
      BY <2>5 DEF TransitionFails, Reply, Idle, WriteFails
    <3> QED
      BY <1>1, <3>1
  <2>6. CASE BindFails
    <3>1. hnd'.kind = hnd.kind /\ hnd'.jobs = hnd.jobs /\ hnd'.pc = "doubt"
      BY <1>0, <2>6 DEF BindFails, Handlers, WriteFails
    <3> QED
      BY <1>1, <3>1
  <2>7. CASE LoseReply
    <3>1. \/ hnd' = [hnd EXCEPT !.pc = "doubt", !.out = "timeout"]
          \/ \E todo : hnd' = Book(todo, "timeout")
      BY <2>7 DEF LoseReply, GiveUp
    <3>2. CASE hnd' = [hnd EXCEPT !.pc = "doubt", !.out = "timeout"]
      <4>1. hnd'.kind = hnd.kind /\ hnd'.jobs = hnd.jobs /\ hnd'.pc = "doubt"
        BY <1>0, <3>2 DEF Handlers
      <4> QED
        BY <1>1, <4>1
    <3> QED
      BY <2>2, <3>1, <3>2
  <2>8. ASSUME NEW rho \in replies, ReceiveStart(rho) PROVE SettledHandler'
    <3>1. hnd'.kind = hnd.kind /\ hnd'.jobs = hnd.jobs /\ hnd'.mut = hnd.mut
          /\ hnd'.pc \in {"doubt", "bind", "complete"} /\ UNCHANGED runs
      BY <1>0, <2>8 DEF ReceiveStart, Receive, executorVars, Handlers
    <3>2. ASSUME hnd'.pc = "complete" PROVE ~Started(hnd.mut)
      <4>1. Echoes(rho) /\ rho.verdict # "ok"
        BY <1>0, <2>8, <3>2 DEF ReceiveStart, Handlers
      <4>2. rho.verdict = "refused" /\ rho.kind = "start"
        BY <2>8, <4>1 DEF ReceiveStart, At, Echoes, ChannelInv, IInv, TypeOK, Replies, Verdicts
      <4>3. rho.mut = hnd.mut
        BY DEF ChannelInv, Channel, IInv, TypeOK
      <4> QED
        BY <4>2, <4>3 DEF Settling
    <3> QED
      BY <1>0, <3>1, <3>2 DEF SettledHandler, Started
  <2>9. ASSUME NEW rho \in replies, ReceiveCancel(rho) \/ ReceiveRead(rho)
        PROVE  SettledHandler'
    <3>1. /\ \A j \in rho.settled : j \in hnd.jobs \cap RunIds /\ Over(j)
          /\ UNCHANGED runs
      BY <2>9 DEF Settling, ReceiveCancel, ReceiveRead, Receive, executorVars
    <3>2. \A j \in rho.settled : Over(j)'
      BY <3>1 DEF Over
    <3>3. CASE hnd' = Idle
      BY <1>1, <3>3 DEF Idle
    <3>4. ASSUME NEW todo, NEW out, hnd' = Book(todo, out),
                 out = "settled" => \A j \in todo : j \in rho.settled
          PROVE  SettledHandler'
      <4>1. hnd'.kind = hnd.kind /\ hnd'.jobs = hnd.jobs /\ hnd'.pc = "book"
            /\ hnd'.todo = todo /\ hnd'.out = out
        BY <1>0, <3>4 DEF Book, Handlers
      <4> QED
        BY <1>0, <3>1, <3>2, <3>4, <4>1 DEF SettledHandler
    <3>5. CASE ReceiveCancel(rho)
      BY <3>4, <3>5 DEF ReceiveCancel
    <3>6. CASE ReceiveRead(rho)
      <4>1. rho.settled # {} => \A j \in hnd.jobs : j \in rho.settled
        BY <1>0, <3>1, <3>6 DEF ReceiveRead, At, SettledHandler
      <4> QED
        BY <3>3, <3>4, <3>6, <4>1 DEF ReceiveRead
    <3> QED
      BY <2>9, <3>5, <3>6
  <2>10. CASE DoubtStart
    <3>1. /\ hnd'.kind = hnd.kind /\ hnd'.jobs = hnd.jobs
          /\ hnd'.pc = "book" /\ hnd'.todo = {}
      BY <1>0, <2>10 DEF DoubtStart, Book, Handlers, WriteFails
    <3> QED
      BY <1>0, <3>1 DEF SettledHandler
  <2>11. ASSUME NEW j \in hnd.todo, BookJob(j) PROVE SettledHandler'
    <3>1. /\ hnd'.kind = hnd.kind /\ hnd'.jobs = hnd.jobs /\ hnd'.pc = "book" /\ hnd.pc = "book"
          /\ hnd'.out = hnd.out /\ hnd'.todo \subseteq hnd.todo /\ UNCHANGED runs
      BY <1>0, <2>11 DEF BookJob, Handlers, executorVars, WriteFails
    <3> QED
      BY <1>0, <3>1 DEF SettledHandler, Over
  <2> QED
    BY <1>3, <2>1, <2>3, <2>5, <2>6, <2>7, <2>8, <2>9, <2>10, <2>11 DEF HandlerStep, BoundedStep
<1>4. CASE ClientStep
  <2>1. ASSUME NEW m \in Starts, ClaimStart(m) PROVE SettledHandler'
    BY <1>1, <2>1 DEF ClaimStart, Idle
  <2>2. ASSUME NEW m, NEW J, ClaimCancel(m, J) PROVE SettledHandler'
    BY <1>1, <2>2 DEF ClaimCancel, Idle
  <2>3. ASSUME NEW m, BeginRead(m, {}) PROVE SettledHandler'
    BY <2>3 DEF BeginRead, Idle, SettledHandler
  <2>4. ASSUME NEW c, NEW methods, NEW m,
               Connect(c, methods) \/ Disconnect \/ StatementFails
               \/ Query(m) \/ RefuseStart(m)
        PROVE  SettledHandler'
    BY <1>2, <2>4 DEF Connect, Disconnect, Query, RefuseStart, StatementFails
  <2>5. ASSUME NEW m, NEW j, BeginRead(m, {j}) PROVE SettledHandler'
    BY <2>5 DEF BeginRead, Idle, SettledHandler
  <2> HIDE DEF SettlingInv
  <2> QED
    BY <1>4, <2>1, <2>2, <2>3, <2>4, <2>5 DEF ClientStep
<1>5. CASE ExecutorStep
  BY <1>2, <1>5 DEF ExecutorStep, ServeStart, ServeRefuse, ServeCancel, ServeRead, RunEnds, ForgetRun
<1>6. CASE Crash
  BY <1>1, <1>6 DEF Crash, Idle
<1>7. CASE ExecutorDies \/ Restart \/ UNCHANGED vars
  BY <1>2, <1>7 DEF ExecutorDies, Restart, RestartWith, vars
<1> QED
  BY <1>3, <1>4, <1>5, <1>6, <1>7 DEF Next

LEMMA SettlingInitially == Init => SettlingInv
<1> SUFFICES ASSUME Init PROVE SettlingInv
  OBVIOUS
<1>1. hnd = Idle /\ inbox = {} /\ replies = {}
  BY DEF Init
<1>2. over = {} /\ \A m \in Starts : receipts[m].state = "none"
  BY DEF Init
<1>3. Settling
  BY <1>1, <1>2 DEF Settling, Idle, StartFrames, CompletedIsOver
<1> QED
  BY <1>3, ChannelInitially DEF SettlingInv

LEMMA SettlingStep ==
  ASSUME SettlingInv, [Next]_vars
  PROVE  SettlingInv'
<1>1. ChannelInv'
  BY TypeOKStep, ShapesStep, JournalStep, JournaledStep, ExecutedStep,
     ChannelStep, OwnReplyStep, ReceiptStep, OwnJobsStep
     DEF SettlingInv, ChannelInv, IInv
<1>2. SettledHandler' /\ CompletedIsOver'
  BY SettledHandlerStep, CompletedStep
<1>3. \A f \in StartFrames' : f.mut \notin over'
  BY SettledFramesStep
<1>4. Settling'
  BY <1>2, <1>3, SettledRepliesStep, OverRowsStep DEF Settling, SettledHandler
<1> QED
  BY <1>1, <1>4 DEF SettlingInv

\* What the executor reports settled is over, and cannot be started any more.
THEOREM SettlingInvariant == Spec => []SettlingInv
  BY SettlingInitially, SettlingStep, PTL DEF Spec

\* The journal calls a job completed only when its run is over or there is
\* none: main.rs:819-893 and 1130-1158 book what the executor reports settled.
THEOREM CompletedJobsAreOver == Spec => []CompletedIsOver
<1>1. SettlingInv => CompletedIsOver
  BY DEF SettlingInv, Settling
<1> QED
  BY SettlingInvariant, <1>1, PTL

-----------------------------------------------------------------------------
(* The refinement: each step of the broker is one of the ledger, or none.  *)

EntriesKept == UNCHANGED <<LedgerJournal, over>>
ExecutedKept == UNCHANGED LedgerExecuted

LEMMA ExecutedIsKept ==
  ASSUME IInv, [Next]_vars, \A f \in inbox, r \in RunIds : ~ServeStart(f, r)
  PROVE  ExecutedKept
  BY OwnersKept DEF ExecutedKept, LedgerExecuted, Started

\* The entries after a transaction that sets the state of the rows of M.
LEMMA EntriesWith ==
  ASSUME IInv, NEW M, NEW st \in ReceiptStates, receipts' = WithState(M, st)
  PROVE  LedgerJournal' = [m \in Starts |-> IF m \in M /\ Exists(m) THEN Meaning(st)
                                            ELSE LedgerJournal[m]]
<1>1. \A m \in Starts : receipts'[m].state = IF m \in M /\ Exists(m) THEN st ELSE receipts[m].state
  BY DEF WithState, IInv, TypeOK, Receipts
<1> QED
  BY <1>1 DEF LedgerJournal

\* One row changes, to state st.
LEMMA EntryWith ==
  ASSUME IInv, NEW m \in Starts, NEW j, NEW st,
         receipts' = [receipts EXCEPT ![m] = [job |-> j, state |-> st]]
  PROVE  LedgerJournal' = [LedgerJournal EXCEPT ![m] = Meaning(st)]
<1>1. \A n \in Starts : receipts'[n].state = IF n = m THEN st ELSE receipts[n].state
  BY DEF IInv, TypeOK
<1>2. LedgerJournal' = [n \in Starts |-> IF n = m THEN Meaning(st) ELSE Meaning(receipts[n].state)]
  <2>1. \A n \in Starts : Meaning(receipts'[n].state) = IF n = m THEN Meaning(st)
                                                         ELSE Meaning(receipts[n].state)
    BY <1>1
  <2> QED
    BY <2>1 DEF LedgerJournal
<1>3. [LedgerJournal EXCEPT ![m] = Meaning(st)]
        = [n \in Starts |-> IF n = m THEN Meaning(st) ELSE Meaning(receipts[n].state)]
  BY DEF LedgerJournal
<1> QED
  BY <1>2, <1>3

\* A transaction that puts rows in doubt.
LEMMA DoubtIsDoubt ==
  ASSUME IInv, [Next]_vars, NEW M, receipts' = WithState(M, "outcome_unknown"),
         ExecutedKept, UNCHANGED over
  PROVE  Ledger!LedgerNext
<1> DEFINE S == {m \in Starts : m \in M /\ Exists(m)}
<1>1. LedgerJournal' = [m \in Starts |-> IF m \in S THEN "doubtful" ELSE LedgerJournal[m]]
  BY EntriesWith DEF ReceiptStates, Meaning
<1>2. \A m \in S : LedgerJournal[m] # "none"
  BY DEF LedgerJournal, Meaning, Exists
<1>3. Ledger!Doubt(S)
  BY <1>1, <1>2 DEF Ledger!Doubt, ExecutedKept
<1>4. S \in SUBSET Starts
  OBVIOUS
<1> HIDE DEF S
<1> QED
  BY <1>3, <1>4 DEF Ledger!LedgerNext

\* A transaction that completes rows settles the one row it finds, if any.
LEMMA SettleIsSettle ==
  ASSUME SettlingInv, [Next]_vars, NEW M, receipts' = WithState(M, "completed"),
         ExecutedKept, over' = over \cup {m \in M \cap Starts : Exists(m)},
         \A m1, m2 \in M \cap Starts : m1 = m2
  PROVE  Ledger!LedgerNext \/ EntriesKept
<1>1. LedgerJournal' = [m \in Starts |-> IF m \in M /\ Exists(m) THEN "settled"
                                         ELSE LedgerJournal[m]]
  BY EntriesWith DEF SettlingInv, ChannelInv, ReceiptStates, Meaning
<1>2. LedgerJournal = [m \in Starts |-> LedgerJournal[m]]
  BY DEF LedgerJournal
<1>3. CASE \E m \in Starts : m \in M /\ Exists(m) /\ receipts[m].state # "completed"
  <2>1. PICK m \in Starts : m \in M /\ Exists(m) /\ receipts[m].state # "completed"
    BY <1>3
  <2>2. LedgerJournal[m] \in {"accepted", "doubtful"}
    BY <2>1 DEF LedgerJournal, Meaning, Exists, SettlingInv, ChannelInv, IInv, TypeOK,
                Receipts, ReceiptStates
  <2>3. LedgerJournal' = [n \in Starts |-> IF n = m THEN "settled" ELSE LedgerJournal[n]]
    BY <1>1, <2>1
  <2>4. LedgerJournal' = [LedgerJournal EXCEPT ![m] = "settled"]
    BY <1>2, <2>3
  <2>5. over' = over \cup {m}
    BY <2>1
  <2>6. Ledger!Settle(m)
    BY <2>2, <2>4, <2>5 DEF Ledger!Settle, ExecutedKept
  <2> QED
    BY <2>1, <2>6 DEF Ledger!LedgerNext
<1>4. CASE \A m \in Starts : m \in M /\ Exists(m) => receipts[m].state = "completed"
  <2>1. \A m \in Starts : m \in M /\ Exists(m) => LedgerJournal[m] = "settled"
    BY <1>4 DEF LedgerJournal, Meaning
  <2>2. LedgerJournal' = [m \in Starts |-> LedgerJournal[m]]
    BY <1>1, <2>1
  <2>3. UNCHANGED over
    BY <1>4 DEF SettlingInv, Settling
  <2> QED
    BY <1>2, <2>2, <2>3 DEF EntriesKept
<1> QED
  BY <1>3, <1>4

\* Serving a start frame executes it: it is journaled, not settled, and was
\* not executed before.
LEMMA ServeIsExecute ==
  ASSUME SettlingInv, [Next]_vars, NEW f \in inbox, NEW r \in RunIds, ServeStart(f, r)
  PROVE  Ledger!LedgerNext
<1> USE DEF SettlingInv, ChannelInv
<1>1. f \in StartFrames /\ f.mut \in Starts /\ ~Started(f.mut)
      /\ receipts[f.mut].state \notin {"none", "pending", "completed"}
      /\ f.mut \notin over
  BY DEF ServeStart, StartFrames, IInv, Shapes, Executed, Settling
<1>2. LedgerJournal[f.mut] \in {"accepted", "doubtful"}
  BY <1>1 DEF LedgerJournal, Meaning, IInv, TypeOK, Receipts, ReceiptStates
<1>3. f.mut \notin LedgerExecuted
  BY <1>1 DEF LedgerExecuted
<1>4. UNCHANGED <<LedgerJournal, over>>
  BY DEF ServeStart, journalVars, historyVars, LedgerJournal
<1>5. LedgerExecuted' = LedgerExecuted \cup {f.mut}
  <2>1. /\ runs'[r].owner = f.mut /\ runs[r].owner = None
        /\ \A q \in RunIds : q # r => runs'[q].owner = runs[q].owner
    BY DEF ServeStart, IInv, TypeOK, Shapes
  <2>2. \A m \in Starts : Started(m)' <=> Started(m) \/ m = f.mut
    BY <2>1, BrokerAssumption DEF Started, Mutations
  <2> QED
    BY <1>1, <2>2 DEF LedgerExecuted
<1>6. Ledger!Execute(f.mut)
  BY <1>1, <1>2, <1>3, <1>4, <1>5 DEF Ledger!Execute
<1> QED
  BY <1>1, <1>6 DEF Ledger!LedgerNext

LEMMA LedgerStep ==
  ASSUME SettlingInv, [Next]_vars
  PROVE  [Ledger!LedgerNext]_(Ledger!ledgerVars)
<1> USE DEF SettlingInv, ChannelInv
<1>0. IInv
  OBVIOUS
<1>1. ASSUME UNCHANGED receipts, ExecutedKept
      PROVE  EntriesKept /\ ExecutedKept
  <2>1. UNCHANGED over
    BY <1>0, <1>1, OverIsCompleted, OverCases DEF Settling
  <2> QED
    BY <1>1, <2>1 DEF EntriesKept, LedgerJournal
<1>2. ASSUME UNCHANGED runs
      PROVE  ExecutedKept
  BY <1>2 DEF ExecutedKept, LedgerExecuted, Started
<1>3. CASE HandlerStep
  <2>0. ExecutedKept
    BY <1>2, <1>3
       DEF HandlerStep, Prepare, ReleaseStart, CancelUnavailable, ReadUnavailable, MarkDispatched,
           TransitionFails, Send, ReceiveStart, ReceiveCancel, ReceiveRead, Receive, LoseReply,
           BindJob, BindFails, CompleteStart, DoubtStart, BookJob, Reply, executorVars,
           BoundedStep, WriteFails
  <2>1. CASE ReleaseStart
    <3>1. hnd.mut \in Starts /\ receipts[hnd.mut].state = "pending" /\ ~Started(hnd.mut)
      BY <2>1 DEF ReleaseStart, At, IInv, Shapes, Journaled, Executed
    <3>2. \/ UNCHANGED receipts
          \/ receipts' = [receipts EXCEPT ![hnd.mut] = [job |-> hnd.mut, state |-> "none"]]
      BY <2>1 DEF ReleaseStart, journalVars
    <3>3. CASE receipts' = [receipts EXCEPT ![hnd.mut] = [job |-> hnd.mut, state |-> "none"]]
      <4>1. LedgerJournal' = [LedgerJournal EXCEPT ![hnd.mut] = "none"]
        BY <1>0, <3>1, <3>3, EntryWith DEF Meaning
      <4>2. LedgerJournal[hnd.mut] = "accepted" /\ hnd.mut \notin LedgerExecuted
        BY <3>1 DEF LedgerJournal, Meaning, LedgerExecuted
      <4>3. Ledger!Withdraw(hnd.mut)
        BY <2>0, <2>1, <4>1, <4>2 DEF Ledger!Withdraw, ExecutedKept, ReleaseStart, historyVars
      <4> QED
        BY <3>1, <4>3 DEF Ledger!LedgerNext
    <3> QED
      BY <1>1, <2>0, <3>2, <3>3 DEF EntriesKept, ExecutedKept, Ledger!ledgerVars
  <2>2. CASE MarkDispatched \/ BindJob
    <3>1. hnd.mut \in Starts /\ receipts[hnd.mut].state \in {"pending", "dispatched"}
      BY <2>2 DEF MarkDispatched, BindJob, At, IInv, Shapes, Journaled
    <3>2. \A n \in Starts : receipts'[n].state = IF n = hnd.mut THEN "dispatched" ELSE receipts[n].state
      BY <2>2, <3>1 DEF MarkDispatched, BindJob, WithState, Exists, IInv, TypeOK, Receipts
    <3>3. EntriesKept
      BY <2>2, <3>1, <3>2
         DEF EntriesKept, LedgerJournal, Meaning, MarkDispatched, BindJob, historyVars
    <3> QED
      BY <2>0, <3>3 DEF EntriesKept, ExecutedKept, Ledger!ledgerVars
  <2>3. CASE CompleteStart
    <3>1. hnd.mut \in Starts /\ Exists(hnd.mut)
      BY <2>3 DEF CompleteStart, At, IInv, Shapes, Journaled, Exists
    <3>2. over' = over \cup {m \in {hnd.mut} \cap Starts : Exists(m)}
      BY <2>3, <3>1 DEF CompleteStart
    <3>3. Ledger!LedgerNext \/ EntriesKept
      BY <2>0, <2>3, <3>2, SettleIsSettle DEF CompleteStart
    <3> QED
      BY <2>0, <3>3 DEF EntriesKept, ExecutedKept, Ledger!ledgerVars
  <2>4. CASE DoubtStart
    <3>0. UNCHANGED over
      BY <2>4 DEF DoubtStart, historyVars
    <3>1. CASE receipts' = WithState({hnd.mut}, "outcome_unknown")
      BY <1>0, <2>0, <3>0, <3>1, DoubtIsDoubt
    <3>2. CASE UNCHANGED receipts
      BY <1>1, <2>0, <3>2 DEF EntriesKept, ExecutedKept, Ledger!ledgerVars
    <3> QED
      BY <2>4, <3>1, <3>2 DEF DoubtStart, WriteFails
  <2>5. ASSUME NEW j \in hnd.todo, BookJob(j)
        PROVE  [Ledger!LedgerNext]_(Ledger!ledgerVars)
    <3>1. CASE receipts' = WithState(RowsOf(j), "outcome_unknown") /\ UNCHANGED over
      BY <1>0, <2>0, <3>1, DoubtIsDoubt
    <3>2. CASE /\ receipts' = WithState(RowsOf(j), "completed") /\ txn = None
               /\ over' = over \cup {m \in RowsOf(j) : Exists(m)}
      <4>1. \A m1, m2 \in RowsOf(j) \cap Starts : m1 = m2
        BY <3>2 DEF RowsOf, Row, IInv, Journal
      <4>2. over' = over \cup {m \in RowsOf(j) \cap Starts : Exists(m)}
        BY <3>2 DEF RowsOf
      <4>3. Ledger!LedgerNext \/ EntriesKept
        BY <2>0, <3>2, <4>1, <4>2, SettleIsSettle
      <4> QED
        BY <2>0, <4>3 DEF EntriesKept, ExecutedKept, Ledger!ledgerVars
    <3>3. CASE UNCHANGED receipts
      BY <1>1, <2>0, <3>3 DEF EntriesKept, ExecutedKept, Ledger!ledgerVars
    <3> QED
      BY <2>5, <3>1, <3>2, <3>3 DEF BookJob, Booked, WriteFails
  <2>6. CASE ReceiptsKept
    BY <1>1, <2>0, <2>6 DEF ReceiptsKept, EntriesKept, ExecutedKept, Ledger!ledgerVars
  <2>7. ReceiptsKept \/ ReleaseStart \/ MarkDispatched \/ CompleteStart \/ DoubtStart
          \/ BindJob \/ \E j \in hnd.todo : BookJob(j)
    BY <1>3
       DEF HandlerStep, Prepare, CancelUnavailable, ReadUnavailable, TransitionFails, Send,
           ReceiveStart, ReceiveCancel, ReceiveRead, Receive, LoseReply, BindFails, Reply, journalVars,
           ReceiptsKept, BoundedStep, WriteFails
  <2> HIDE DEF SettlingInv, ChannelInv
  <2> QED
    BY <2>1, <2>2, <2>3, <2>4, <2>5, <2>6, <2>7
<1>4. CASE ClientStep
  <2>0. ExecutedKept
    BY <1>2, <1>4
       DEF ClientStep, Connect, Disconnect, Query, ClaimStart, RefuseStart, ClaimCancel, BeginRead,
           executorVars, StatementFails
  <2>1. ASSUME NEW m \in Starts, ClaimStart(m)
        PROVE  Ledger!LedgerNext
    <3>1. receipts[m].state = "none"
      BY <2>1 DEF ClaimStart, IInv, Journal, ReceiptIsClaimed, Exists
    <3>2. ~Started(m)
      BY <3>1, BrokerAssumption DEF IInv, Executed, Started, Mutations
    <3>3. LedgerJournal' = [LedgerJournal EXCEPT ![m] = "accepted"]
      BY <1>0, <2>1, EntryWith DEF ClaimStart, Meaning
    <3>4. LedgerJournal[m] = "none" /\ m \notin LedgerExecuted
      BY <3>1, <3>2 DEF LedgerJournal, Meaning, LedgerExecuted
    <3>5. Ledger!Accept(m)
      BY <2>0, <2>1, <3>3, <3>4 DEF Ledger!Accept, ExecutedKept, ClaimStart
    <3> QED
      BY <3>5 DEF Ledger!LedgerNext
  <2>2. ReceiptsKept \/ \E n \in Starts : ClaimStart(n)
    BY <1>4
       DEF ClientStep, Connect, Disconnect, Query, RefuseStart, ClaimCancel, BeginRead, journalVars,
           ReceiptsKept, StatementFails
  <2> QED
    BY <1>1, <2>0, <2>1, <2>2 DEF ReceiptsKept, EntriesKept, ExecutedKept, Ledger!ledgerVars
<1>5. CASE ExecutorStep
  <2>1. UNCHANGED receipts
    BY <1>5
       DEF ExecutorStep, ServeStart, ServeRefuse, ServeCancel, ServeRead, RunEnds, ForgetRun, journalVars
  <2>2. CASE \E f \in inbox, r \in RunIds : ServeStart(f, r)
    BY <2>2, ServeIsExecute
  <2>3. CASE \A f \in inbox, r \in RunIds : ~ServeStart(f, r)
    BY <1>0, <1>1, <2>1, <2>3, ExecutedIsKept DEF EntriesKept, ExecutedKept, Ledger!ledgerVars
  <2> QED
    BY <2>2, <2>3
<1>6. CASE Restart
  <2>1. \A f \in inbox, r \in RunIds : ~ServeStart(f, r)
    BY <1>6 DEF Restart, RestartWith, ServeStart
  <2>2. ExecutedKept
    BY <1>0, <2>1, ExecutedIsKept
  <2> QED
    BY <1>0, <1>6, <2>2, DoubtIsDoubt DEF Restart, RestartWith, historyVars
<1>7. CASE Crash \/ ExecutorDies \/ UNCHANGED vars
  <2>1. UNCHANGED receipts /\ ExecutedKept
    BY <1>2, <1>7
       DEF Crash, ExecutorDies, Lost, ExecutedKept, LedgerExecuted, Started, journalVars, executorVars, vars,
           IInv, TypeOK
  <2> QED
    BY <1>1, <2>1 DEF EntriesKept, ExecutedKept, Ledger!ledgerVars
<1> QED
  BY <1>3, <1>4, <1>5, <1>6, <1>7 DEF Next

\* Every behaviour of the broker is one the ledger allows: main.rs:480-571
\* journals a start before it is sent, and whatever fails afterwards moves the
\* entry only as the ledger does, which executes nothing that was ever settled.
THEOREM BrokerImplementsLedger == Spec => ImplementsLedger
<1>1. Init => Ledger!LedgerInit
  <2> SUFFICES ASSUME Init PROVE Ledger!LedgerInit
    OBVIOUS
  <2>1. \A m \in Starts : Meaning(receipts[m].state) = "none" /\ ~Started(m)
    BY BrokerAssumption DEF Init, Meaning, Started, Mutations
  <2>2. over = {}
    BY DEF Init
  <2> QED
    BY <2>1, <2>2 DEF Ledger!LedgerInit, LedgerJournal, LedgerExecuted
<1>2. SettlingInv /\ [Next]_vars => [Ledger!LedgerNext]_(Ledger!ledgerVars)
  BY LedgerStep
<1> QED
  BY <1>1, <1>2, SettlingInvariant, PTL DEF Spec, ImplementsLedger, Ledger!LedgerSpec

-----------------------------------------------------------------------------
(* What clients are told and shown.                                        *)

\* The client of the start being handled was told and shown nothing of it.
Untold == hnd.kind = "start" => told[hnd.mut] = "none" /\ hnd.mut \notin seen

\* The answer about to be given is true, and of a start that it says nothing
\* came of no frame is left.
AnswerReady ==
  /\ hnd.pc = "doubt" => hnd.out \in {"timeout", "closed"}
  /\ hnd.kind = "start" /\ hnd.pc = "book" =>
       /\ hnd.out = "started" => receipts[hnd.mut].job # hnd.mut
       /\ hnd.out \in {"refused", "unavailable"} =>
            ~Started(hnd.mut) /\ \A f \in StartFrames : f.mut # hnd.mut

\* Nor is there later.
NothingComes ==
  \A m \in Starts : told[m] \in {"refused", "unavailable"} => \A f \in StartFrames : f.mut # m

Honest == Untold /\ AnswerReady /\ NothingComes /\ AnswersAreTrue /\ SeenStaysVisible

HonestInv == SettlingInv /\ Honest

\* A receipt that carries the runtime's id keeps it.
LEMMA BoundStays ==
  ASSUME IInv, [Next]_vars, NEW m \in Starts, receipts[m].job # m
  PROVE  receipts'[m].job # m
<1>0. receipts \in [Starts -> Receipts] /\ hnd \in Handlers
  BY DEF IInv, TypeOK
<1>1. ASSUME NEW M, NEW st, receipts' = WithState(M, st)
      PROVE  receipts'[m].job = receipts[m].job
  BY <1>0, <1>1 DEF WithState, Receipts
<1>2. CASE UNCHANGED receipts
  BY <1>2
<1>3. CASE HandlerStep
  <2>1. CASE ReleaseStart
    <3>1. hnd.mut # m
      BY <2>1 DEF ReleaseStart, At, IInv, Journaled
    <3>2. \/ UNCHANGED receipts
          \/ receipts' = [receipts EXCEPT ![hnd.mut] = [job |-> hnd.mut, state |-> "none"]]
      BY <2>1 DEF ReleaseStart, journalVars
    <3> QED
      BY <1>0, <3>1, <3>2
  <2>2. CASE MarkDispatched \/ CompleteStart \/ DoubtStart
    BY <2>2, <1>1, <1>2 DEF MarkDispatched, CompleteStart, DoubtStart, WriteFails
  <2>3. ASSUME NEW j, BookJob(j)
        PROVE  receipts'[m].job = receipts[m].job
    BY <2>3, <1>1, <1>2 DEF BookJob, WriteFails
  <2>4. CASE BindJob
    <3>1. hnd.run \in RunIds /\ m \notin RunIds
      BY <2>4, BrokerAssumption DEF BindJob, At, IInv, Shapes
    <3>2. receipts' = [receipts EXCEPT ![hnd.mut] = [job |-> hnd.run, state |-> "dispatched"]]
      BY <2>4 DEF BindJob
    <3> QED
      BY <1>0, <3>1, <3>2
  <2>5. ReceiptsKept \/ ReleaseStart \/ MarkDispatched \/ CompleteStart \/ DoubtStart
          \/ BindJob \/ \E j \in hnd.todo : BookJob(j)
    BY <1>3
       DEF HandlerStep, Prepare, CancelUnavailable, ReadUnavailable, TransitionFails, Send,
           ReceiveStart, ReceiveCancel, ReceiveRead, Receive, LoseReply, BindFails, Reply, journalVars,
           ReceiptsKept, BoundedStep, WriteFails
  <2> QED
    BY <2>1, <2>2, <2>3, <2>4, <2>5 DEF ReceiptsKept
<1>4. CASE ClientStep
  <2>1. ASSUME NEW n \in Starts, ClaimStart(n)
        PROVE  receipts'[m].job # m
    <3>1. receipts' = [receipts EXCEPT ![n] = [job |-> n, state |-> "pending"]] /\ n \notin claims
      BY <2>1 DEF ClaimStart
    <3>2. n # m
      BY <3>1 DEF IInv, Journal, ReceiptIsClaimed
    <3> QED
      BY <1>0, <3>1, <3>2
  <2>2. ReceiptsKept \/ \E n \in Starts : ClaimStart(n)
    BY <1>4
       DEF ClientStep, Connect, Disconnect, Query, RefuseStart, ClaimCancel, BeginRead, journalVars,
           ReceiptsKept, StatementFails
  <2> QED
    BY <2>1, <2>2 DEF ReceiptsKept
<1>5. CASE ExecutorStep
  BY <1>2, <1>5
     DEF ExecutorStep, ServeStart, ServeRefuse, ServeCancel, ServeRead, RunEnds, ForgetRun, journalVars
<1>6. CASE Restart
  BY <1>1, <1>6 DEF Restart, RestartWith
<1>7. CASE Crash \/ ExecutorDies \/ UNCHANGED vars
  BY <1>2, <1>7 DEF Crash, ExecutorDies, journalVars, vars
<1> QED
  BY <1>3, <1>4, <1>5, <1>6, <1>7 DEF Next

\* A row goes when its own start is released, and at no other time.
LEMMA RowsStay ==
  ASSUME IInv, [Next]_vars, NEW m \in Starts, Exists(m), ~(hnd.kind = "start" /\ hnd.mut = m)
  PROVE  receipts'[m].state # "none"
<1>0. receipts \in [Starts -> Receipts]
  BY DEF IInv, TypeOK
<1>1. ASSUME NEW M, NEW st, st # "none", receipts' = WithState(M, st)
      PROVE  receipts'[m].state # "none"
  BY <1>0, <1>1 DEF WithState, Receipts, Exists
<1>2. CASE UNCHANGED receipts
  BY <1>2 DEF Exists
<1>3. ASSUME NEW n, NEW row, row.state # "none" \/ n # m, receipts' = [receipts EXCEPT ![n] = row]
      PROVE  receipts'[m].state # "none"
  BY <1>0, <1>3 DEF Exists
<1>4. CASE HandlerStep
  <2>1. CASE ReleaseStart
    <3>1. \/ UNCHANGED receipts
          \/ receipts' = [receipts EXCEPT ![hnd.mut] = [job |-> hnd.mut, state |-> "none"]]
      BY <2>1 DEF ReleaseStart, journalVars
    <3> QED
      BY <2>1, <3>1, <1>2, <1>3 DEF ReleaseStart, At
  <2>2. CASE MarkDispatched \/ CompleteStart \/ DoubtStart
    BY <2>2, <1>1, <1>2 DEF MarkDispatched, CompleteStart, DoubtStart, WriteFails
  <2>3. ASSUME NEW j, BookJob(j)
        PROVE  receipts'[m].state # "none"
    <3>1. Booked # "none"
      BY DEF Booked
    <3> QED
      BY <2>3, <3>1, <1>1, <1>2 DEF BookJob, WriteFails
  <2>4. CASE BindJob
    BY <2>4, <1>3 DEF BindJob
  <2>5. ReceiptsKept \/ ReleaseStart \/ MarkDispatched \/ CompleteStart \/ DoubtStart
          \/ BindJob \/ \E j \in hnd.todo : BookJob(j)
    BY <1>4
       DEF HandlerStep, Prepare, CancelUnavailable, ReadUnavailable, TransitionFails, Send,
           ReceiveStart, ReceiveCancel, ReceiveRead, Receive, LoseReply, BindFails, Reply, journalVars,
           ReceiptsKept, BoundedStep, WriteFails
  <2> QED
    BY <1>2, <2>1, <2>2, <2>3, <2>4, <2>5 DEF ReceiptsKept
<1>5. CASE ClientStep
  <2>1. ASSUME NEW n \in Starts, ClaimStart(n)
        PROVE  receipts'[m].state # "none"
    BY <2>1, <1>3 DEF ClaimStart
  <2>2. ReceiptsKept \/ \E n \in Starts : ClaimStart(n)
    BY <1>5
       DEF ClientStep, Connect, Disconnect, Query, RefuseStart, ClaimCancel, BeginRead, journalVars,
           ReceiptsKept, StatementFails
  <2> QED
    BY <1>2, <2>1, <2>2 DEF ReceiptsKept
<1>6. CASE ExecutorStep
  BY <1>2, <1>6
     DEF ExecutorStep, ServeStart, ServeRefuse, ServeCancel, ServeRead, RunEnds, ForgetRun, journalVars
<1>7. CASE Restart
  BY <1>1, <1>7 DEF Restart, RestartWith
<1>8. CASE Crash \/ ExecutorDies \/ UNCHANGED vars
  BY <1>2, <1>8 DEF Crash, ExecutorDies, journalVars, vars
<1> QED
  BY <1>4, <1>5, <1>6, <1>7, <1>8 DEF Next

\* A client is told of a start by the handler of that start.
LEMMA ToldCases ==
  ASSUME IInv, [Next]_vars, NEW m \in Starts
  PROVE  \/ told'[m] = told[m]
         \/ told'[m] = "none"
         \/ Reply /\ hnd.kind = "start" /\ m = hnd.mut /\ told'[m] = hnd.out
<1>0. told \in [Starts -> Answers]
  BY DEF IInv, TypeOK
<1>1. CASE UNCHANGED told
  BY <1>1
<1>2. CASE Reply
  <2>1. CASE told' = [told EXCEPT ![hnd.mut] = hnd.out] /\ hnd.kind = "start"
    BY <1>0, <1>2, <2>1
  <2> QED
    BY <1>1, <1>2, <2>1 DEF Reply
<1>3. CASE HandlerStep /\ ~Reply
  BY <1>1, <1>3
     DEF HandlerStep, Prepare, ReleaseStart, CancelUnavailable, ReadUnavailable, MarkDispatched,
         TransitionFails, Send, ReceiveStart, ReceiveCancel, ReceiveRead, Receive, LoseReply,
         BindJob, BindFails, CompleteStart, DoubtStart, BookJob, historyVars,
         BoundedStep, WriteFails
<1>4. CASE ClientStep
  <2>1. ASSUME NEW n, told' = [told EXCEPT ![n] = "none"]
        PROVE  told'[m] = told[m] \/ told'[m] = "none"
    BY <1>0, <2>1
  <2>2. ASSUME NEW n, ClaimStart(n)
        PROVE  told'[m] = told[m] \/ told'[m] = "none"
    BY <2>1, <2>2 DEF ClaimStart
  <2> QED
    BY <1>1, <1>4, <2>2
       DEF ClientStep, Connect, Disconnect, StatementFails, Query, RefuseStart,
           ClaimCancel, BeginRead, historyVars
<1>5. CASE ExecutorStep
  BY <1>1, <1>5
     DEF ExecutorStep, ServeStart, ServeRefuse, ServeCancel, ServeRead, RunEnds, ForgetRun, historyVars
<1>6. CASE Crash \/ ExecutorDies \/ Restart \/ UNCHANGED vars
  BY <1>1, <1>6 DEF Crash, ExecutorDies, Restart, RestartWith, historyVars, vars
<1> QED
  BY <1>2, <1>3, <1>4, <1>5, <1>6 DEF Next

\* The handler enters a start in one way and never turns another request into one.
LEMMA StartEnters ==
  ASSUME IInv, [Next]_vars, hnd'.kind = "start"
  PROVE  \/ /\ hnd.kind = "start" /\ hnd'.mut = hnd.mut /\ seen' = seen
         \/ ClaimStart(hnd'.mut) /\ hnd'.mut \in Starts /\ hnd'.pc = "prepare"
<1>0. hnd \in Handlers /\ Idle.kind = "none"
  BY DEF IInv, TypeOK, Idle
<1>1. CASE HandlerStep
  BY <1>0, <1>1
     DEF HandlerStep, Prepare, ReleaseStart, CancelUnavailable, ReadUnavailable, MarkDispatched,
         TransitionFails, Send, ReceiveStart, ReceiveCancel, ReceiveRead, Receive, LoseReply, GiveUp,
         BindJob, BindFails, CompleteStart, DoubtStart, BookJob, Reply, Book, Handlers, historyVars,
         BoundedStep, WriteFails
<1>2. CASE ClientStep
  <2>1. ASSUME NEW m \in Starts, ClaimStart(m)
        PROVE  hnd'.mut = m /\ hnd'.pc = "prepare"
    BY <2>1 DEF ClaimStart, Idle
  <2>2. ASSUME NEW m, NEW J, ClaimCancel(m, J) \/ BeginRead(m, J)
        PROVE  FALSE
    BY <2>2 DEF ClaimCancel, BeginRead, Idle
  <2>3. ASSUME NEW c, NEW methods, NEW m,
               \/ Connect(c, methods) \/ Disconnect \/ StatementFails
               \/ RefuseStart(m) \/ Query(m)
        PROVE  hnd' = hnd /\ (seen' = seen \/ hnd = Idle)
    BY <2>3 DEF Connect, Disconnect, RefuseStart, Query, Admitted, historyVars, StatementFails
  <2> HIDE DEF Idle
  <2> QED
    BY <1>0, <1>2, <2>1, <2>2, <2>3 DEF ClientStep
<1>3. CASE ExecutorStep
  BY <1>3
     DEF ExecutorStep, ServeStart, ServeRefuse, ServeCancel, ServeRead, RunEnds, ForgetRun, historyVars
<1>4. CASE Crash \/ ExecutorDies \/ Restart \/ UNCHANGED vars
  BY <1>0, <1>4 DEF Crash, ExecutorDies, Restart, RestartWith, historyVars, vars
<1> QED
  BY <1>1, <1>2, <1>3, <1>4 DEF Next

\* While a start is handled, its client has been told and shown nothing of it.
LEMMA UntoldStep ==
  ASSUME HonestInv, [Next]_vars, hnd'.kind = "start"
  PROVE  told'[hnd'.mut] = "none" /\ hnd'.mut \notin seen'
<1> USE DEF HonestInv, SettlingInv, ChannelInv
<1>1. CASE hnd.kind = "start" /\ hnd'.mut = hnd.mut /\ seen' = seen
  <2>1. hnd.mut \in Starts /\ told[hnd.mut] = "none" /\ hnd.mut \notin seen
    BY <1>1 DEF Honest, Untold, IInv, Shapes
  <2>2. ~Reply
    <3> SUFFICES ASSUME Reply PROVE FALSE
      OBVIOUS
    <3> QED
      BY DEF Reply, Idle
  <2> QED
    BY <1>1, <2>1, <2>2, ToldCases
<1>2. CASE ClaimStart(hnd'.mut) /\ hnd'.mut \in Starts
  <2>1. PICK m \in Starts : m = hnd'.mut /\ ClaimStart(m)
    BY <1>2
  <2>2. m \notin seen
    <3>1. ~Exists(m)
      BY <2>1 DEF ClaimStart, IInv, Journal, ReceiptIsClaimed
    <3> QED
      BY <3>1 DEF Honest, SeenStaysVisible, Shows, Exists
  <2>3. told'[m] = "none" /\ seen' = seen
    BY <2>1 DEF ClaimStart, IInv, TypeOK, Mutations
  <2> QED
    BY <2>1, <2>2, <2>3
<1> QED
  BY <1>1, <1>2, StartEnters

LEMMA SeenStep ==
  ASSUME HonestInv, [Next]_vars
  PROVE  SeenStaysVisible'
<1> USE DEF HonestInv, SettlingInv, ChannelInv
<1> DEFINE Shown(m) == Shows(m, Row(m)) /\ Shows(m, receipts[m])
<1>0. IInv
  OBVIOUS
<1>1. ASSUME NEW m \in Starts, Shown(m), ~(hnd.kind = "start" /\ hnd.mut = m)
      PROVE  Shown(m)'
  <2>1. Exists(m) /\ ~(receipts[m].state = "completed" /\ receipts[m].job = m)
    BY <1>1 DEF Shows, Exists
  <2>2. receipts'[m].state # "none"
    BY <1>1, <2>1, RowsStay
  <2>3. ~(receipts'[m].state = "completed" /\ receipts'[m].job = m)
    <3>1. ASSUME NEW j \in hnd.todo, BookJob(j), hnd.out = "settled", receipts[m].job = j
          PROVE  receipts'[m].job # m
      <4>1. j # m
        BY <1>1, <3>1, BrokerAssumption DEF BookJob, Settling
      <4> QED
        BY <1>1, <3>1, <4>1, BoundStays
    <3>2. ~(CompleteStart /\ m = hnd.mut)
      BY <1>1 DEF CompleteStart, At
    <3>3. CASE receipts'[m] = receipts[m]
      BY <2>1, <3>3
    <3>4. CASE receipts'[m].state # "completed"
      BY <3>4
    <3>5. CASE \E j \in hnd.todo : BookJob(j) /\ hnd.out = "settled" /\ receipts[m].job = j
      BY <3>1, <3>5
    <3> HIDE DEF HonestInv, SettlingInv
    <3>6. receipts'[m] = receipts[m] \/ receipts'[m].state # "completed"
          \/ \E j \in hnd.todo : BookJob(j) /\ hnd.out = "settled" /\ receipts[m].job = j
      BY <1>0, <1>1, <3>2, ReceiptCases
    <3> QED
      BY <3>3, <3>4, <3>5, <3>6
  <2>4. Shows(m, receipts[m])'
    BY <2>2, <2>3 DEF Shows
  <2>5. ASSUME txn' # None, txn'.mut = m PROVE Shows(m, txn.row)'
    <3>1. CASE txn # None /\ txn'.mut = txn.mut /\ txn'.row = txn.row
      BY <1>1, <2>5, <3>1 DEF Row, Shows
    <3>2. ~BindFails \/ hnd.mut # m
      BY <1>1 DEF BindFails, At
    <3>3. ASSUME NEW j \in hnd.todo, BookJob(j), txn = None, m \in RowsOf(j),
                 txn'.row = [receipts[m] EXCEPT !.state = Booked]
          PROVE  Shows(m, txn.row)'
      <4>1. receipts[m].job = j /\ receipts[m] \in Receipts
        BY <1>1, <3>3 DEF RowsOf, Row, IInv, TypeOK
      <4>2. txn'.row.job = j /\ txn'.row.state = Booked
        BY <3>3, <4>1 DEF Receipts
      <4>3. Booked = "completed" => j # m
        BY <1>1, <3>3, BrokerAssumption DEF Booked, BookJob, Settling
      <4>4. Booked # "none"
        BY DEF Booked
      <4> QED
        BY <4>2, <4>3, <4>4 DEF Shows
    <3> HIDE DEF HonestInv, SettlingInv
    <3> QED
      BY <1>0, <1>1, <2>5, <3>1, <3>2, <3>3, OpenedBy
  <2> QED
    BY <2>4, <2>5 DEF Row
<1>2. CASE seen' = seen
  <2>1. ASSUME NEW m \in seen PROVE Shown(m)'
    <3>1. m \in Starts /\ Shown(m) /\ ~(hnd.kind = "start" /\ hnd.mut = m)
      BY DEF Honest, Untold, SeenStaysVisible, IInv, TypeOK
    <3> QED
      BY <1>1, <3>1
  <2> QED
    BY <1>2, <2>1 DEF SeenStaysVisible
<1>3. ASSUME NEW m \in Starts, Query(m)
      PROVE  SeenStaysVisible'
  <2>1. UNCHANGED <<receipts, txn>> /\ \A n \in seen' : n \in seen \/ (n = m /\ Shown(m))
    BY <1>3 DEF Query, journalVars
  <2>2. \A n \in seen' : Shown(n)
    BY <2>1 DEF Honest, SeenStaysVisible
  <2> QED
    BY <2>1, <2>2 DEF SeenStaysVisible, Row, Shows
<1>4. seen' = seen \/ \E m \in Starts : Query(m)
  <2>1. CASE HandlerStep
    BY <2>1
       DEF HandlerStep, Prepare, ReleaseStart, CancelUnavailable, ReadUnavailable, MarkDispatched,
           TransitionFails, Send, ReceiveStart, ReceiveCancel, ReceiveRead, Receive, LoseReply,
           BindJob, BindFails, CompleteStart, DoubtStart, BookJob, Reply, historyVars,
           BoundedStep, WriteFails
  <2>2. CASE ClientStep
    BY <2>2
       DEF ClientStep, Connect, Disconnect, StatementFails, ClaimStart, RefuseStart,
           ClaimCancel, BeginRead, historyVars
  <2>3. CASE ExecutorStep
    BY <2>3
       DEF ExecutorStep, ServeStart, ServeRefuse, ServeCancel, ServeRead, RunEnds, ForgetRun, historyVars
  <2>4. CASE Crash \/ ExecutorDies \/ Restart \/ UNCHANGED vars
    BY <2>4 DEF Crash, ExecutorDies, Restart, RestartWith, historyVars, vars
  <2> HIDE DEF HonestInv
  <2> QED
    BY <2>1, <2>2, <2>3, <2>4 DEF Next
<1> QED
  BY <1>2, <1>3, <1>4

LEMMA AnswerReadyStep ==
  ASSUME HonestInv, [Next]_vars
  PROVE  AnswerReady'
<1> USE DEF HonestInv, SettlingInv, ChannelInv
<1>0. hnd \in Handlers /\ IInv /\ AnswerReady
  BY DEF IInv, TypeOK, Honest
<1>1. ASSUME hnd'.kind = hnd.kind, hnd'.pc = hnd.pc, hnd'.out = hnd.out, hnd'.mut = hnd.mut
      PROVE  AnswerReady'
  <2>1. CASE hnd.pc \notin {"doubt", "book"}
    BY <1>1, <2>1 DEF AnswerReady
  <2>2. CASE hnd.pc = "doubt"
    BY <1>0, <1>1, <2>2 DEF AnswerReady
  <2>3. CASE hnd.pc = "book" /\ hnd.kind # "start"
    BY <1>1, <2>3 DEF AnswerReady
  <2>4. CASE hnd.pc = "book" /\ hnd.kind = "start"
    <3>1. hnd.mut \in Starts
      BY <2>4 DEF IInv, Shapes
    <3>2. receipts[hnd.mut].job # hnd.mut => receipts'[hnd.mut].job # hnd.mut
      BY <3>1, BoundStays
    <3>3. ASSUME \A f \in StartFrames : f.mut # hnd.mut
          PROVE  \A f \in StartFrames' : f.mut # hnd.mut
      BY <1>0, <2>4, <3>3, FramesCome DEF StartFrames, Send
    <3>4. ASSUME ~Started(hnd.mut), \A f \in StartFrames : f.mut # hnd.mut
          PROVE  \A r \in RunIds : runs'[r].owner # hnd.mut
      BY <1>0, <3>1, <3>4, StartedByServing DEF Started
    <3> QED
      BY <1>0, <1>1, <2>4, <3>2, <3>3, <3>4 DEF AnswerReady, Started
  <2> QED
    BY <2>1, <2>2, <2>3, <2>4
<1>2. ASSUME hnd'.pc \notin {"doubt", "book"}
      PROVE  AnswerReady'
  BY <1>2 DEF AnswerReady
<1>3. ASSUME NEW todo, NEW out, hnd' = Book(todo, out),
             hnd.kind # "start" \/ out \notin {"started", "refused", "unavailable"}
      PROVE  AnswerReady'
  <2>1. hnd'.kind = hnd.kind /\ hnd'.pc = "book" /\ hnd'.out = out
    BY <1>0, <1>3 DEF Book, Handlers
  <2> QED
    BY <1>3, <2>1 DEF AnswerReady
<1>4. CASE HandlerStep
  <2>1. CASE Prepare \/ MarkDispatched \/ Send
    <3>1. hnd'.pc \notin {"doubt", "book"}
      BY <1>0, <2>1 DEF Prepare, MarkDispatched, Send, Handlers
    <3> QED
      BY <1>2, <3>1
  <2>2. ASSUME NEW out \in {"refused", "unavailable"}, hnd' = Book({}, out),
               UNCHANGED <<runs, inbox>>, ~Started(hnd.mut),
               \A f \in StartFrames : f.mut # hnd.mut
        PROVE  AnswerReady'
    <3>1. hnd'.kind = hnd.kind /\ hnd'.pc = "book" /\ hnd'.out = out /\ hnd'.mut = hnd.mut
      BY <1>0, <2>2 DEF Book, Handlers
    <3>2. \A r \in RunIds : runs'[r].owner # hnd.mut
      BY <2>2 DEF Started
    <3>3. \A f \in StartFrames' : f.mut # hnd.mut
      BY <2>2 DEF StartFrames
    <3> QED
      BY <3>1, <3>2, <3>3 DEF AnswerReady, Started
  <2>3. CASE ReleaseStart
    <3>1. ~Started(hnd.mut) /\ \A f \in StartFrames : f.mut # hnd.mut
      BY <1>0, <2>3 DEF ReleaseStart, At, IInv, Executed
    <3>2. UNCHANGED <<runs, inbox>> /\ hnd' = Book({}, "unavailable")
      BY <2>3 DEF ReleaseStart
    <3> QED
      BY <2>2, <3>1, <3>2
  <2>4. CASE CompleteStart
    <3>1. ~Started(hnd.mut) /\ inbox = {}
      BY <2>4 DEF CompleteStart, At, Settling, Channel
    <3>2. UNCHANGED <<runs, inbox>> /\ hnd' = Book({}, "refused")
      BY <2>4 DEF CompleteStart, executorVars
    <3> QED
      BY <2>2, <3>1, <3>2 DEF StartFrames
  <2>5. CASE CancelUnavailable \/ ReadUnavailable
    BY <1>3, <2>5 DEF CancelUnavailable, ReadUnavailable, At
  <2>6. CASE TransitionFails \/ Reply
    BY <1>2, <2>6 DEF TransitionFails, Reply, Idle, WriteFails
  <2>7. ASSUME NEW rho \in replies, ReceiveStart(rho) PROVE AnswerReady'
    <3>1. \/ hnd'.pc \in {"bind", "complete"}
          \/ hnd'.pc = "doubt" /\ hnd'.out = "closed"
      BY <1>0, <2>7 DEF ReceiveStart, Handlers
    <3> QED
      BY <3>1 DEF AnswerReady
  <2>8. ASSUME NEW rho \in replies, ReceiveCancel(rho) \/ ReceiveRead(rho)
        PROVE  AnswerReady'
    <3>1. hnd' = Idle \/ \E todo, out : hnd' = Book(todo, out)
      BY <2>8 DEF ReceiveCancel, ReceiveRead
    <3>2. hnd.kind # "start"
      BY <2>8 DEF ReceiveCancel, ReceiveRead, At
    <3>3. CASE hnd' = Idle
      BY <1>2, <3>3 DEF Idle
    <3> QED
      BY <1>3, <3>1, <3>2, <3>3
  <2>9. CASE LoseReply
    <3>1. \/ hnd' = [hnd EXCEPT !.pc = "doubt", !.out = "timeout"]
          \/ \E todo : hnd' = Book(todo, "timeout")
      BY <2>9 DEF LoseReply, GiveUp
    <3>2. CASE hnd' = [hnd EXCEPT !.pc = "doubt", !.out = "timeout"]
      <4>1. hnd'.pc = "doubt" /\ hnd'.out = "timeout"
        BY <1>0, <3>2 DEF Handlers
      <4> QED
        BY <4>1 DEF AnswerReady
    <3> QED
      BY <1>3, <3>1, <3>2
  <2>10. CASE BindJob
    <3>1. hnd.mut \in Starts /\ hnd.run \in RunIds /\ hnd.mut # hnd.run
      BY <2>10, BrokerAssumption DEF BindJob, At, IInv, Shapes
    <3>2. receipts'[hnd.mut].job = hnd.run
      BY <2>10, <3>1 DEF BindJob, IInv, TypeOK
    <3>3. hnd'.pc = "book" /\ hnd'.out = "started" /\ hnd'.mut = hnd.mut
      BY <1>0, <2>10 DEF BindJob, Book, Handlers
    <3> QED
      BY <3>1, <3>2, <3>3 DEF AnswerReady
  <2>11. CASE BindFails
    <3>1. hnd'.pc = "doubt" /\ hnd'.out = "closed"
      BY <1>0, <2>11 DEF BindFails, Handlers, WriteFails
    <3> QED
      BY <3>1 DEF AnswerReady
  <2>12. CASE DoubtStart
    <3>1. hnd.out \in {"timeout", "closed"} /\ hnd' = Book({}, hnd.out)
      BY <1>0, <2>12 DEF DoubtStart, At, AnswerReady, WriteFails
    <3> QED
      BY <1>3, <3>1
  <2>13. ASSUME NEW j \in hnd.todo, BookJob(j) PROVE AnswerReady'
    <3>1. hnd'.kind = hnd.kind /\ hnd'.pc = hnd.pc /\ hnd'.out = hnd.out /\ hnd'.mut = hnd.mut
      BY <1>0, <2>13 DEF BookJob, Handlers, WriteFails
    <3> QED
      BY <1>1, <3>1
  <2> HIDE DEF HonestInv
  <2> QED
    BY <1>4, <2>1, <2>3, <2>4, <2>5, <2>6, <2>7, <2>8, <2>9, <2>10, <2>11, <2>12, <2>13
       DEF HandlerStep, BoundedStep
<1>5. CASE ClientStep
  <2>1. ASSUME NEW m, NEW J, ClaimStart(m) \/ ClaimCancel(m, J) \/ BeginRead(m, J)
        PROVE  AnswerReady'
    BY <1>2, <2>1 DEF ClaimStart, ClaimCancel, BeginRead, Idle
  <2>2. ASSUME NEW c, NEW methods, NEW m,
               Connect(c, methods) \/ Disconnect \/ StatementFails
               \/ Query(m) \/ RefuseStart(m)
        PROVE  AnswerReady'
    BY <1>1, <2>2 DEF Connect, Disconnect, Query, RefuseStart, StatementFails
  <2> HIDE DEF HonestInv
  <2> QED
    BY <1>5, <2>1, <2>2 DEF ClientStep
<1>6. CASE ExecutorStep
  BY <1>1, <1>6 DEF ExecutorStep, ServeStart, ServeRefuse, ServeCancel, ServeRead, RunEnds, ForgetRun
<1>7. CASE Crash
  BY <1>2, <1>7 DEF Crash, Idle
<1>8. CASE ExecutorDies \/ Restart \/ UNCHANGED vars
  BY <1>1, <1>8 DEF ExecutorDies, Restart, RestartWith, vars
<1> QED
  BY <1>4, <1>5, <1>6, <1>7, <1>8 DEF Next

LEMMA ToldStep ==
  ASSUME HonestInv, [Next]_vars
  PROVE  NothingComes' /\ AnswersAreTrue'
<1> USE DEF HonestInv, SettlingInv, ChannelInv
<1> SUFFICES ASSUME NEW m \in Starts
             PROVE  /\ told'[m] = "started" => receipts'[m].job # m
                    /\ told'[m] \in {"refused", "unavailable"} =>
                         ~Started(m)' /\ \A f \in StartFrames' : f.mut # m
  BY DEF NothingComes, AnswersAreTrue
<1>1. CASE told'[m] = told[m]
  <2>1. told[m] = "started" => receipts'[m].job # m
    BY BoundStays DEF Honest, AnswersAreTrue
  <2>2. ASSUME told[m] \in {"refused", "unavailable"}
        PROVE  ~Started(m)' /\ \A f \in StartFrames' : f.mut # m
    <3>1. ~Started(m) /\ \A f \in StartFrames : f.mut # m
      BY <2>2 DEF Honest, AnswersAreTrue, NothingComes
    <3>2. ~Started(m)'
      BY <3>1, StartedByServing
    <3>3. ~(hnd.kind = "start" /\ hnd.mut = m)
      BY <2>2 DEF Honest, Untold
    <3>4. \A f \in StartFrames' : f.mut # m
      BY <3>1, <3>3, FramesCome DEF StartFrames
    <3> QED
      BY <3>2, <3>4
  <2> QED
    BY <1>1, <2>1, <2>2
<1>2. CASE told'[m] = "none"
  BY <1>2
<1>3. CASE Reply /\ hnd.kind = "start" /\ m = hnd.mut /\ told'[m] = hnd.out
  <2>1. UNCHANGED <<receipts, runs, inbox>> /\ hnd.pc = "book"
    BY <1>3 DEF Reply, journalVars, executorVars
  <2>2. /\ hnd.out = "started" => receipts[m].job # m
        /\ hnd.out \in {"refused", "unavailable"} =>
             ~Started(m) /\ \A f \in StartFrames : f.mut # m
    BY <1>3, <2>1 DEF Honest, AnswerReady
  <2> QED
    BY <1>3, <2>1, <2>2 DEF Started, StartFrames
<1> QED
  BY <1>1, <1>2, <1>3, ToldCases

LEMMA HonestInitially == Init => HonestInv
<1> SUFFICES ASSUME Init PROVE HonestInv
  OBVIOUS
<1>1. /\ hnd = Idle /\ inbox = {} /\ seen = {} /\ \A m \in Starts : told[m] = "none"
  BY DEF Init, Mutations
<1>2. Honest
  BY <1>1 DEF Honest, Untold, AnswerReady, NothingComes, AnswersAreTrue, SeenStaysVisible, Idle, StartFrames
<1> QED
  BY <1>2, SettlingInitially DEF HonestInv

LEMMA HonestStep ==
  ASSUME HonestInv, [Next]_vars
  PROVE  HonestInv'
<1>1. SettlingInv'
  BY SettlingStep DEF HonestInv
<1>2. Untold'
  BY UntoldStep DEF Untold
<1> QED
  BY <1>1, <1>2, AnswerReadyStep, ToldStep, SeenStep DEF HonestInv, Honest

\* What the handler is about to answer is so: main.rs:508-735.
THEOREM HonestInvariant == Spec => []HonestInv
  BY HonestInitially, HonestStep, PTL DEF Spec

\* What a client was told of a start stays so through crashes and late
\* replies: main.rs:598-735.
THEOREM AnswersStayTrue == Spec => []AnswersAreTrue
<1>1. HonestInv => AnswersAreTrue
  BY DEF HonestInv, Honest
<1> QED
  BY HonestInvariant, <1>1, PTL

\* A receipt that was shown once is shown for ever: main.rs:342-414 hides only
\* starts that failed before a job was made of them.
THEOREM SeenReceiptsStay == Spec => []SeenStaysVisible
<1>1. HonestInv => SeenStaysVisible
  BY DEF HonestInv, Honest
<1> QED
  BY HonestInvariant, <1>1, PTL

-----------------------------------------------------------------------------
(* While no journal statement has failed.                                  *)

\* In flight under its provisional id.
Open(m) == receipts[m].state \in {"pending", "dispatched"} /\ receipts[m].job = m

Limbo == faults = 0 => \A m \in Starts :
  up /\ Open(m) => hnd.kind = "start" /\ hnd.mut = m /\ hnd.pc # "book"

\* The answer about to be given is written down.
AnswerWritten ==
  faults = 0 /\ hnd.kind = "start" /\ hnd.pc = "book" =>
    /\ hnd.out = "timeout" => receipts[hnd.mut].state \in {"outcome_unknown", "completed"}
    /\ hnd.out = "unavailable" => ~Exists(hnd.mut)

WrittenInv == HonestInv /\ Limbo /\ AnswerWritten /\ AnswersAreJournaled

\* A row is open after a step only if it was before, or was just claimed.
LEMMA OpenCases ==
  ASSUME IInv, [Next]_vars, NEW m \in Starts, Open(m)'
  PROVE  Open(m) \/ ClaimStart(m)
<1>0. receipts \in [Starts -> Receipts]
  BY DEF IInv, TypeOK
<1>1. CASE \E n \in Starts : ClaimStart(n)
  BY <1>0, <1>1 DEF ClaimStart, Open
<1>2. CASE \A n \in Starts : ~ClaimStart(n)
  <2>1. CASE BindJob
    <3>1. hnd.run \in RunIds /\ m \notin RunIds
      BY <2>1, BrokerAssumption DEF BindJob, At, IInv, Shapes
    <3> QED
      BY <1>0, <2>1, <3>1 DEF BindJob, Open
  <2>2. ASSUME NEW M, NEW st, receipts' = WithState(M, st)
        PROVE  /\ receipts'[m].job = receipts[m].job
               /\ (receipts'[m].state = st /\ m \in M) \/ receipts'[m] = receipts[m]
    BY <1>0, <2>2 DEF WithState, Receipts
  <2>3. CASE MarkDispatched
    <3>1. receipts[hnd.mut] = [job |-> hnd.mut, state |-> "pending"]
      BY <2>3 DEF MarkDispatched, At, IInv, Journaled
    <3> QED
      BY <2>2, <2>3, <3>1 DEF MarkDispatched, Open
  <2>4. ASSUME NEW j, CompleteStart \/ DoubtStart \/ BookJob(j) \/ Restart PROVE Open(m)
    <3>1. Booked \notin {"pending", "dispatched"}
      BY DEF Booked
    <3>2. UNCHANGED receipts
          \/ \E M : \E st \in {"completed", "outcome_unknown"} :
               receipts' = WithState(M, st)
      BY <2>4, <3>1
         DEF CompleteStart, DoubtStart, BookJob, Booked, Restart, RestartWith, WriteFails
    <3> QED
      BY <2>2, <3>2 DEF Open
  <2>5. CASE ReleaseStart
    <3>1. \/ UNCHANGED receipts
          \/ receipts' = [receipts EXCEPT ![hnd.mut] = [job |-> hnd.mut, state |-> "none"]]
      BY <2>5 DEF ReleaseStart, journalVars
    <3> QED
      BY <1>0, <3>1 DEF Open
  <2>6. CASE ReceiptsKept
    BY <2>6 DEF ReceiptsKept, Open
  <2>7. \/ ReceiptsKept \/ ReleaseStart \/ MarkDispatched \/ CompleteStart \/ DoubtStart
        \/ BindJob \/ Restart \/ \E j \in hnd.todo : BookJob(j)
    BY <1>2
       DEF Next, HandlerStep, Prepare, CancelUnavailable, ReadUnavailable, TransitionFails, Send,
           ReceiveStart, ReceiveCancel, ReceiveRead, Receive, LoseReply, BindFails, Reply, journalVars,
           ReceiptsKept, ClientStep, Connect, Disconnect, Query, RefuseStart, ClaimCancel, BeginRead,
           ExecutorStep, ServeStart, ServeRefuse, ServeCancel, ServeRead, RunEnds, ForgetRun, Crash,
           ExecutorDies, vars, BoundedStep, WriteFails, StatementFails
  <2> QED
    BY <2>1, <2>3, <2>4, <2>5, <2>6, <2>7
<1> QED
  BY <1>1, <1>2

\* A row comes with the claim of its start, and in no other way.
LEMMA RowsCome ==
  ASSUME IInv, [Next]_vars, NEW m \in Starts, ~Exists(m), Exists(m)'
  PROVE  ClaimStart(m)
<1>0. receipts \in [Starts -> Receipts]
  BY DEF IInv, TypeOK
<1>1. ASSUME NEW M, NEW st, receipts' = WithState(M, st) PROVE FALSE
  BY <1>0, <1>1 DEF WithState, Exists
<1>2. ASSUME NEW n, NEW row, receipts' = [receipts EXCEPT ![n] = row], n # m PROVE FALSE
  BY <1>0, <1>2 DEF Exists
<1>3. ~UNCHANGED receipts
  BY DEF Exists
<1>4. CASE HandlerStep
  <2>1. CASE ReleaseStart
    <3>1. hnd.mut \in Starts /\ Exists(hnd.mut)
      BY <2>1 DEF ReleaseStart, At, IInv, Shapes, Journaled, Exists
    <3> QED
      BY <1>2, <1>3, <2>1, <3>1 DEF ReleaseStart
  <2>2. CASE BindJob
    <3>1. hnd.mut \in Starts /\ Exists(hnd.mut)
      BY <2>2 DEF BindJob, At, IInv, Shapes, Journaled, Exists
    <3> QED
      BY <1>2, <2>2, <3>1 DEF BindJob
  <2>3. ASSUME NEW j, MarkDispatched \/ CompleteStart \/ DoubtStart \/ BookJob(j) PROVE FALSE
    BY <1>1, <1>3, <2>3 DEF MarkDispatched, CompleteStart, DoubtStart, BookJob, WriteFails
  <2> QED
    BY <1>3, <1>4, <2>1, <2>2, <2>3
       DEF HandlerStep, BoundedStep, Prepare, CancelUnavailable, ReadUnavailable,
           TransitionFails, WriteFails, Send, ReceiveStart, ReceiveCancel, ReceiveRead,
           Receive, LoseReply, BindFails, Reply, journalVars
<1>5. CASE ClientStep
  <2>1. ASSUME NEW n \in Starts, ClaimStart(n) PROVE n = m
    BY <1>2, <2>1 DEF ClaimStart
  <2>2. \E n \in Starts : ClaimStart(n)
    BY <1>3, <1>5
       DEF ClientStep, Connect, Disconnect, StatementFails, Query, RefuseStart,
           ClaimCancel, BeginRead, journalVars
  <2> QED
    BY <2>1, <2>2
<1>6. CASE Restart
  BY <1>1, <1>6 DEF Restart, RestartWith
<1> QED
  BY <1>3, <1>4, <1>5, <1>6
     DEF Next, ExecutorStep, ServeStart, ServeRefuse, ServeCancel, ServeRead, RunEnds,
         ForgetRun, Crash, ExecutorDies, journalVars, vars

\* Before the first failure nothing is left open, and no statement fails.
LEMMA NoFaultBefore ==
  ASSUME IInv, [Next]_vars, faults' = 0
  PROVE  faults = 0 /\ txn = None
<1>0. faults \in Nat
  BY DEF IInv, TypeOK
<1>1. ASSUME Fault PROVE FALSE
  BY <1>0, <1>1 DEF Fault
<1>2. UNCHANGED faults
  <2>1. CASE HandlerStep
    BY <1>1, <2>1
       DEF HandlerStep, BoundedStep, Prepare, ReleaseStart, Refused, CancelUnavailable,
           ReadUnavailable, MarkDispatched, TransitionFails, WriteFails, Send,
           ReceiveStart, ReceiveCancel, ReceiveRead, Receive, LoseReply, BindJob,
           BindFails, CompleteStart, DoubtStart, BookJob, Reply, journalVars
  <2>2. CASE ClientStep
    BY <1>1, <2>2
       DEF ClientStep, Connect, Disconnect, StatementFails, Query, ClaimStart,
           RefuseStart, Refused, ClaimCancel, BeginRead, journalVars
  <2> QED
    BY <2>1, <2>2
       DEF Next, ExecutorStep, ServeStart, ServeRefuse, ServeCancel, ServeRead, RunEnds,
           ForgetRun, Crash, ExecutorDies, Restart, RestartWith, journalVars, vars
<1> QED
  BY <1>0, <1>2 DEF IInv, Journal

LEMMA NoStatementFails ==
  ASSUME IInv, [Next]_vars, faults' = 0
  PROVE  ~Refused /\ \A m, row : ~WriteFails(m, row)
<1>1. faults = 0 /\ txn = None
  BY NoFaultBefore
<1>2. ~Fault
  BY <1>1 DEF Fault
<1> QED
  BY <1>1, <1>2 DEF Refused, WriteFails

LEMMA LimboStep ==
  ASSUME WrittenInv, [Next]_vars
  PROVE  Limbo'
<1> USE DEF WrittenInv, HonestInv, SettlingInv, ChannelInv
<1> SUFFICES ASSUME faults' = 0, NEW m \in Starts, up', Open(m)'
             PROVE  hnd'.kind = "start" /\ hnd'.mut = m /\ hnd'.pc # "book"
  BY DEF Limbo
<1>0. hnd \in Handlers /\ receipts \in [Starts -> Receipts] /\ IInv
  BY DEF IInv, TypeOK
<1>f. faults = 0 /\ ~Refused /\ \A n, row : ~WriteFails(n, row)
  BY <1>0, NoFaultBefore, NoStatementFails
<1>1. CASE ClaimStart(m)
  BY <1>1 DEF ClaimStart, Idle
<1>2. CASE Open(m) /\ ~up
  <2>1. Restart
    <3>1. ~UNCHANGED vars
      BY <1>2 DEF vars
    <3>2. ~HandlerStep
      BY <1>2
         DEF HandlerStep, Prepare, ReleaseStart, CancelUnavailable, ReadUnavailable, MarkDispatched,
             TransitionFails, Send, ReceiveStart, ReceiveCancel, ReceiveRead, LoseReply, At,
             BindJob, BindFails, CompleteStart, DoubtStart, BookJob, Reply,
             BoundedStep, WriteFails
    <3>3. ~ClientStep
      BY <1>2
         DEF ClientStep, Connect, Disconnect, Query, ClaimStart, RefuseStart, ClaimCancel, BeginRead, Admitted,
             StatementFails
    <3>4. ~ExecutorStep /\ ~Crash /\ ~ExecutorDies
      BY <1>2
         DEF ExecutorStep, ServeStart, ServeRefuse, ServeCancel, ServeRead, RunEnds, ForgetRun, Crash,
             ExecutorDies
    <3> QED
      BY <3>1, <3>2, <3>3, <3>4 DEF Next
  <2> QED
    BY <1>0, <1>2, <2>1 DEF Restart, RestartWith, WithState, Recovered, Open, Exists
<1>3. CASE Open(m) /\ up
  <2>0. hnd.kind = "start" /\ hnd.mut = m /\ hnd.pc # "book" /\ hnd # Idle
    BY <1>3, <1>f DEF Limbo, Idle
  <2>1. CASE hnd' = hnd
    BY <2>0, <2>1
  <2>2. CASE HandlerStep
    <3>1. CASE Prepare \/ MarkDispatched \/ Send \/ BindFails
      BY <1>0, <2>0, <3>1 DEF Prepare, MarkDispatched, Send, BindFails, Handlers, WriteFails
    <3>2. ASSUME NEW rho \in replies, ReceiveStart(rho)
          PROVE  hnd'.kind = "start" /\ hnd'.mut = m /\ hnd'.pc # "book"
      BY <1>0, <2>0, <3>2 DEF ReceiveStart, Handlers
    <3>3. CASE LoseReply
      BY <1>0, <2>0, <3>3 DEF LoseReply, GiveUp, Handlers
    <3>4. ~ReleaseStart
      <4> SUFFICES ASSUME ReleaseStart PROVE FALSE
        OBVIOUS
      <4>1. receipts' = [receipts EXCEPT ![hnd.mut] = [job |-> hnd.mut, state |-> "none"]]
        BY <1>f DEF ReleaseStart
      <4> QED
        BY <1>0, <2>0, <4>1 DEF Open
    <3>5. ~CompleteStart /\ ~DoubtStart
      BY <1>0, <1>f, <2>0 DEF CompleteStart, DoubtStart, WithState, Open, Exists, Receipts
    <3>6. ~BindJob
      <4> SUFFICES ASSUME BindJob PROVE FALSE
        OBVIOUS
      <4>1. hnd.run \in RunIds /\ m \notin RunIds
        BY BrokerAssumption DEF BindJob, At, IInv, Shapes
      <4> QED
        BY <1>0, <2>0, <4>1 DEF BindJob, Open
    <3>7. ~CancelUnavailable /\ ~ReadUnavailable /\ ~TransitionFails /\ ~Reply
      BY <1>f, <2>0 DEF CancelUnavailable, ReadUnavailable, TransitionFails, Reply, At
    <3>8. ASSUME NEW rho, ReceiveCancel(rho) \/ ReceiveRead(rho) PROVE FALSE
      BY <2>0, <3>8 DEF ReceiveCancel, ReceiveRead, At
    <3>9. ASSUME NEW j, BookJob(j) PROVE FALSE
      BY <2>0, <3>9 DEF BookJob, WriteFails
    <3> HIDE DEF WrittenInv
    <3> QED
      BY <2>2, <3>1, <3>2, <3>3, <3>4, <3>5, <3>6, <3>7, <3>8, <3>9 DEF HandlerStep, BoundedStep
  <2>3. CASE ClientStep
    BY <2>0, <2>1, <2>3
       DEF ClientStep, Connect, Disconnect, Query, ClaimStart, RefuseStart, ClaimCancel, BeginRead, Admitted,
           StatementFails
  <2>4. CASE ExecutorStep
    BY <2>1, <2>4 DEF ExecutorStep, ServeStart, ServeRefuse, ServeCancel, ServeRead, RunEnds, ForgetRun
  <2>5. CASE Crash \/ ExecutorDies \/ Restart \/ UNCHANGED vars
    BY <1>3, <2>1, <2>5 DEF Crash, ExecutorDies, Restart, RestartWith, vars
  <2> QED
    BY <2>2, <2>3, <2>4, <2>5 DEF Next
<1> QED
  BY <1>0, <1>1, <1>2, <1>3, OpenCases

LEMMA AnswerWrittenStep ==
  ASSUME WrittenInv, [Next]_vars
  PROVE  AnswerWritten'
<1> USE DEF WrittenInv, HonestInv, SettlingInv, ChannelInv
<1> SUFFICES ASSUME faults' = 0, hnd'.kind = "start", hnd'.pc = "book"
             PROVE  /\ hnd'.out = "timeout" =>
                         receipts'[hnd'.mut].state \in {"outcome_unknown", "completed"}
                    /\ hnd'.out = "unavailable" => receipts'[hnd'.mut].state = "none"
  BY DEF AnswerWritten, Exists
<1>0. hnd \in Handlers /\ receipts \in [Starts -> Receipts] /\ IInv
  BY DEF IInv, TypeOK
<1>f. faults = 0 /\ ~Refused /\ \A n, row : ~WriteFails(n, row)
  BY <1>0, NoFaultBefore, NoStatementFails
<1>1. hnd.kind = "start" /\ hnd'.mut = hnd.mut /\ hnd.mut \in Starts
  BY <1>0, StartEnters DEF IInv, Shapes
<1>2. CASE hnd.pc = "book" /\ hnd'.out = hnd.out
  <2>1. \A m \in Starts : ~ClaimStart(m)
    BY <1>2 DEF ClaimStart, Admitted, Idle
  <2> QED
    BY <1>0, <1>1, <1>2, <1>f, <2>1, EndedRowsStay, RowsCome DEF AnswerWritten, Exists
<1>3. CASE HandlerStep
  <2>1. CASE ReleaseStart
    <3>1. hnd'.out # "timeout"
      BY <1>0, <2>1 DEF ReleaseStart, Book, Handlers
    <3>2. receipts'[hnd.mut].state = "none"
      BY <1>0, <1>1, <1>f, <2>1 DEF ReleaseStart
    <3> QED
      BY <1>1, <3>1, <3>2
  <2>2. CASE CompleteStart \/ BindJob
    BY <1>0, <2>2 DEF CompleteStart, BindJob, Book, Handlers
  <2>3. CASE DoubtStart
    <3>1. hnd.out \in {"timeout", "closed"} /\ hnd' = Book({}, hnd.out)
      BY <2>3 DEF DoubtStart, At, Honest, AnswerReady, WriteFails
    <3>2. hnd'.out # "unavailable"
      BY <1>0, <3>1 DEF Book, Handlers
    <3>3. receipts[hnd.mut].state = "dispatched"
      BY <2>3 DEF DoubtStart, At, IInv, Journaled, WriteFails
    <3>4. receipts'[hnd.mut].state = "outcome_unknown"
      BY <1>0, <1>1, <1>f, <2>3, <3>3 DEF DoubtStart, WithState, Exists, Receipts
    <3> QED
      BY <1>1, <3>2, <3>4
  <2>4. ASSUME NEW j, BookJob(j) PROVE hnd.pc = "book" /\ hnd'.out = hnd.out
    BY <1>0, <2>4 DEF BookJob, Handlers, WriteFails
  <2>5. CASE Prepare \/ MarkDispatched \/ Send \/ BindFails
    <3>1. hnd'.pc # "book"
      BY <1>0, <2>5 DEF Prepare, MarkDispatched, Send, BindFails, Handlers, WriteFails
    <3> QED
      BY <3>1
  <2>9. CASE TransitionFails \/ Reply
    <3>1. hnd' = Idle
      BY <2>9 DEF TransitionFails, Reply, WriteFails
    <3> QED
      BY <3>1 DEF Idle
  <2>6. ASSUME NEW rho \in replies, ReceiveStart(rho) PROVE FALSE
    BY <1>0, <2>6 DEF ReceiveStart, Handlers
  <2>7. ASSUME NEW rho \in replies, ReceiveCancel(rho) \/ ReceiveRead(rho) PROVE FALSE
    BY <1>1, <2>7 DEF ReceiveCancel, ReceiveRead, At
  <2>8. ~LoseReply /\ ~CancelUnavailable /\ ~ReadUnavailable
    BY <1>0, <1>1 DEF LoseReply, GiveUp, CancelUnavailable, ReadUnavailable, At, Handlers
  <2> HIDE DEF WrittenInv
  <2> QED
    BY <1>2, <1>3, <2>1, <2>2, <2>3, <2>4, <2>5, <2>6, <2>7, <2>8, <2>9 DEF HandlerStep, BoundedStep
<1>4. CASE UNCHANGED hnd
  BY <1>2, <1>4
<1>5. CASE ClientStep
  <2>1. hnd # Idle
    BY <1>1 DEF Idle
  <2> QED
    BY <1>4, <1>5, <2>1
       DEF ClientStep, Connect, Disconnect, Query, ClaimStart, RefuseStart, ClaimCancel, BeginRead, Admitted,
           StatementFails
<1>6. CASE ExecutorStep
  BY <1>4, <1>6 DEF ExecutorStep, ServeStart, ServeRefuse, ServeCancel, ServeRead, RunEnds, ForgetRun
<1>7. CASE Crash
  BY <1>7 DEF Crash, Idle
<1>8. CASE ExecutorDies \/ Restart \/ UNCHANGED vars
  BY <1>4, <1>8 DEF ExecutorDies, Restart, RestartWith, vars
<1> QED
  BY <1>3, <1>5, <1>6, <1>7, <1>8 DEF Next

LEMMA WrittenStep ==
  ASSUME WrittenInv, [Next]_vars
  PROVE  AnswersAreJournaled'
<1> USE DEF WrittenInv, HonestInv, SettlingInv, ChannelInv
<1>0. IInv
  OBVIOUS
<1> SUFFICES ASSUME faults' = 0, NEW m \in Starts
             PROVE  /\ told'[m] = "timeout" =>
                         receipts'[m].state \in {"outcome_unknown", "completed"}
                    /\ told'[m] = "unavailable" => receipts'[m].state = "none"
  BY DEF AnswersAreJournaled, Exists
<1>f. faults = 0
  BY <1>0, NoFaultBefore
<1>1. CASE told'[m] = "none"
  BY <1>1
<1>2. CASE told'[m] = told[m] /\ told'[m] # "none"
  <2>1. ~ClaimStart(m)
    BY <1>2 DEF ClaimStart, IInv, TypeOK
  <2> QED
    BY <1>0, <1>2, <1>f, <2>1, EndedRowsStay, RowsCome DEF AnswersAreJournaled, Exists
<1>3. CASE Reply /\ hnd.kind = "start" /\ m = hnd.mut /\ told'[m] = hnd.out
  BY <1>3, <1>f DEF Reply, AnswerWritten, journalVars, Exists
<1> QED
  BY <1>0, <1>1, <1>2, <1>3, ToldCases

\* While no journal statement has failed, the answers and the rows agree.
THEOREM WrittenInvariant == Spec => []WrittenInv
<1>1. Init => WrittenInv
  <2> SUFFICES ASSUME Init PROVE WrittenInv
    OBVIOUS
  <2>1. Limbo /\ AnswerWritten /\ AnswersAreJournaled
    BY DEF Init, Limbo, Open, AnswerWritten, AnswersAreJournaled, Idle
  <2> QED
    BY <2>1, HonestInitially DEF WrittenInv
<1>2. WrittenInv /\ [Next]_vars => WrittenInv'
  BY HonestStep, LimboStep, AnswerWrittenStep, WrittenStep DEF WrittenInv
<1> QED
  BY <1>1, <1>2, PTL DEF Spec

\* While no journal statement has failed, a job that is in flight under its
\* provisional id has a handler at work: main.rs:1171-1217 recovers the rest.
THEOREM NobodyInLimbo == Spec => []NoLimbo
<1>1. WrittenInv => NoLimbo
  BY DEF WrittenInv, Limbo, NoLimbo, Open
<1> QED
  BY WrittenInvariant, <1>1, PTL

\* While no journal statement has failed, the journal says what the clients
\* were told.
THEOREM AnswersAreWritten == Spec => []AnswersAreJournaled
<1>1. WrittenInv => AnswersAreJournaled
  BY DEF WrittenInv
<1> QED
  BY WrittenInvariant, <1>1, PTL

-----------------------------------------------------------------------------
(* The contract of runs that the broker shares with the leaf client.        *)

LEMMA Standings ==
  /\ Standing("free") = "none" /\ Standing("running") = "running"
  /\ Standing("ended") = "cancelled" /\ Standing("gone") = "cancelled"
  BY DEF Standing

\* Runs that are over stay so, those in S end at once, the others stand.
LEMMA ContractCancels ==
  ASSUME NEW S \in SUBSET RunIds,
         \A r \in S : runs[r].state = "running" /\ runs'[r].state \in {"ended", "gone"},
         \A r \in RunIds : r \notin S =>
           \/ runs'[r] = runs[r]
           \/ runs[r].state \in {"ended", "gone"} /\ runs'[r].state \in {"ended", "gone"}
  PROVE  Contract!RunsNext
<1>1. ASSUME NEW r \in RunIds
      PROVE  Standing(runs'[r].state) = IF r \in S THEN "cancelled" ELSE Standing(runs[r].state)
  BY Standings
<1>2. ContractRuns' = [r \in RunIds |-> IF r \in S THEN "cancelled" ELSE ContractRuns[r]]
  BY <1>1 DEF ContractRuns
<1>3. \A r \in S : ContractRuns[r] = "running"
  BY Standings DEF ContractRuns
<1>4. Contract!Cancels(S)
  BY <1>2, <1>3 DEF Contract!Cancels
<1> QED
  BY <1>4 DEF Contract!RunsNext

LEMMA ContractStarts ==
  ASSUME TypeOK, NEW r \in RunIds, NEW m \in Starts, runs[r].state = "free",
         runs' = [runs EXCEPT ![r] = [owner |-> m, state |-> "running"]]
  PROVE  Contract!RunsNext
<1>1. runs'[r].state = "running" /\ \A q \in RunIds : q # r => runs'[q] = runs[q]
  BY DEF TypeOK
<1>2. ContractRuns[r] = "none"
  BY Standings DEF ContractRuns
<1>3. ContractRuns' = [ContractRuns EXCEPT ![r] = "running"]
  <2>1. ASSUME NEW q \in RunIds
        PROVE  Standing(runs'[q].state) = IF q = r THEN "running" ELSE Standing(runs[q].state)
    BY <1>1, Standings
  <2>2. ContractRuns' = [q \in RunIds |-> IF q = r THEN "running" ELSE Standing(runs[q].state)]
    BY <2>1 DEF ContractRuns
  <2>3. [ContractRuns EXCEPT ![r] = "running"]
          = [q \in RunIds |-> IF q = r THEN "running" ELSE Standing(runs[q].state)]
    BY DEF ContractRuns
  <2> QED
    BY <2>2, <2>3
<1>4. Contract!Starts(r)
  BY <1>2, <1>3 DEF Contract!Starts
<1> QED
  BY <1>4 DEF Contract!RunsNext

\* Only the host, and its death, changes what runs.
LEMMA RunsAreTheHosts ==
  ASSUME [Next]_vars
  PROVE  UNCHANGED runs \/ ExecutorStep \/ runs' = Lost
<1>1. CASE HandlerStep
  BY <1>1
     DEF HandlerStep, Prepare, ReleaseStart, CancelUnavailable, ReadUnavailable, MarkDispatched,
         TransitionFails, Send, ReceiveStart, ReceiveCancel, ReceiveRead, Receive, LoseReply,
         BindJob, BindFails, CompleteStart, DoubtStart, BookJob, Reply, executorVars,
         BoundedStep, WriteFails
<1>2. CASE ClientStep
  BY <1>2
     DEF ClientStep, Connect, Disconnect, Query, ClaimStart, RefuseStart, ClaimCancel, BeginRead,
         executorVars, StatementFails
<1>3. CASE ExecutorDies \/ Restart
  BY <1>3 DEF ExecutorDies, Restart, RestartWith
<1>4. CASE Crash \/ UNCHANGED vars
  BY <1>4 DEF Crash, executorVars, vars
<1> QED
  BY <1>1, <1>2, <1>3, <1>4 DEF Next

LEMMA ContractStep ==
  ASSUME IInv, [Next]_vars
  PROVE  [Contract!RunsNext]_ContractRuns
<1>0. TypeOK /\ runs \in [RunIds -> [owner : Starts \cup {None}, state : {"free", "running", "ended", "gone"}]]
  BY DEF IInv, TypeOK
<1>1. CASE UNCHANGED runs
  BY <1>1 DEF ContractRuns
<1>2. ASSUME NEW f \in inbox, NEW r \in RunIds, ServeStart(f, r) PROVE Contract!RunsNext
  <2>1. f.mut \in Starts
    BY <1>2 DEF ServeStart, IInv, Shapes, StartFrames
  <2> QED
    BY <1>0, <1>2, <2>1, ContractStarts DEF ServeStart
<1>3. ASSUME NEW f \in inbox, ServeCancel(f) PROVE Contract!RunsNext
  <2> DEFINE S == {r \in RunIds : r \in f.jobs /\ runs[r].state = "running"}
  <2>1. \A r \in RunIds : runs'[r] = IF r \in f.jobs /\ Known(r)
                                      THEN [runs[r] EXCEPT !.state = "ended"] ELSE runs[r]
    BY <1>3 DEF ServeCancel
  <2>2. \A r \in S : runs[r].state = "running" /\ runs'[r].state \in {"ended", "gone"}
    BY <1>0, <2>1 DEF Known
  <2>3. \A r \in RunIds : r \notin S =>
          \/ runs'[r] = runs[r]
          \/ runs[r].state \in {"ended", "gone"} /\ runs'[r].state \in {"ended", "gone"}
    BY <1>0, <2>1 DEF Known
  <2> QED
    BY <1>0, <2>2, <2>3, ContractCancels
<1>4. ASSUME NEW r \in RunIds, RunEnds(r) PROVE Contract!RunsNext
  <2> DEFINE S == {r}
  <2>1. \A q \in S : runs[q].state = "running" /\ runs'[q].state \in {"ended", "gone"}
    BY <1>0, <1>4 DEF RunEnds
  <2>2. \A q \in RunIds : q \notin S => runs'[q] = runs[q]
    BY <1>0, <1>4 DEF RunEnds
  <2>3. S \in SUBSET RunIds
    OBVIOUS
  <2> HIDE DEF S
  <2> QED
    BY <2>1, <2>2, <2>3, ContractCancels
<1>5. ASSUME NEW r \in RunIds, ForgetRun(r) PROVE Contract!RunsNext
  <2> DEFINE S == {}
  <2>1. \A q \in S : runs[q].state = "running" /\ runs'[q].state \in {"ended", "gone"}
    OBVIOUS
  <2>2. \A q \in RunIds : q \notin S =>
          \/ runs'[q] = runs[q]
          \/ runs[q].state \in {"ended", "gone"} /\ runs'[q].state \in {"ended", "gone"}
    BY <1>0, <1>5 DEF ForgetRun
  <2>3. S \in SUBSET RunIds
    OBVIOUS
  <2> HIDE DEF S
  <2> QED
    BY <2>1, <2>2, <2>3, ContractCancels
<1>6. CASE runs' = Lost
  <2> DEFINE S == {r \in RunIds : runs[r].state = "running"}
  <2>1. \A r \in RunIds : runs'[r] = IF Known(r) THEN [runs[r] EXCEPT !.state = "gone"] ELSE runs[r]
    BY <1>6 DEF Lost
  <2>2. \A r \in S : runs[r].state = "running" /\ runs'[r].state \in {"ended", "gone"}
    BY <1>0, <2>1 DEF Known
  <2>3. \A r \in RunIds : r \notin S =>
          \/ runs'[r] = runs[r]
          \/ runs[r].state \in {"ended", "gone"} /\ runs'[r].state \in {"ended", "gone"}
    BY <1>0, <2>1 DEF Known
  <2> QED
    BY <1>0, <2>2, <2>3, ContractCancels
<1>7. CASE ExecutorStep
  <2>1. CASE \E f \in inbox : ServeRefuse(f) \/ ServeRead(f)
    BY <1>1, <2>1 DEF ServeRefuse, ServeRead
  <2> QED
    BY <1>2, <1>3, <1>4, <1>5, <1>7, <2>1 DEF ExecutorStep
<1> QED
  BY <1>1, <1>6, <1>7, RunsAreTheHosts

\* What this model lets the runtime do with its runs, the contract of runs
\* allows.  That says nothing of runtimes that do less, or end otherwise, than
\* the model: main.rs and executor.rs against runtime-rpc-protocol.ts.
THEOREM BrokerReliesOnRuns == Spec => ReliesOnRuns
<1>1. Init => Contract!RunsInit
  BY Standings DEF Init, Contract!RunsInit, ContractRuns
<1>2. IInv /\ [Next]_vars => [Contract!RunsNext]_ContractRuns
  BY ContractStep
<1> QED
  BY <1>1, <1>2, InductiveInvariant, PTL DEF Spec, ReliesOnRuns, Contract!RunsSpec
=============================================================================
