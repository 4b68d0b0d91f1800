----------------------------- MODULE BrokerHost -----------------------------
(***************************************************************************)
(* The life of the broker around its requests: the Node process that hosts *)
(* it (startBrokerHost), the native broker it spawns, the broker's socket  *)
(* path, and the lock of module BrokerLock.  A host is asked to stop by a  *)
(* signal or by its Pi session; it tells the broker, closes its listener   *)
(* and releases the lock without waiting for the broker to be gone.        *)
(***************************************************************************)
EXTENDS BrokerLock

CONSTANT MaxServed  \* bound: requests one broker serves

ASSUME HostAssumption == MaxServed \in Nat

VARIABLES
  host,    \* where startBrokerHost stands in each process, once it has the lock
  child,   \* the broker process that each host spawned
  term,    \* the brokers that have been sent SIGTERM
  busy,    \* is the broker inside handle_connection?
  served,  \* connections it has served
  socket   \* whose listener the socket path leads to, if any

hostVars == <<host, child, term, busy, served, socket>>
allVars == <<lockVars, hostVars>>

HostStates  == {"none", "listening", "running", "closing", "closed"}
ChildStates == {"none", "recovering", "binding", "serving", "leaving", "gone"}
Alive(p) == child[p] \notin {"none", "gone"}

HostInit == /\ LockInit
            /\ host = [p \in Procs |-> "none"]
            /\ child = [p \in Procs |-> "none"]
            /\ term = {}
            /\ busy = {}
            /\ served = [p \in Procs |-> 0]
            /\ socket = NoProc

\* acquireBrokerLock, step by step; all of it before the listener.
LockStep(p) == /\ host[p] = "none"
               /\ AcquireStep(p)
               /\ UNCHANGED hostVars

Lock(p) == /\ host[p] = "none"
           /\ Acquire(p) \/ AcquireFailed(p)
           /\ UNCHANGED hostVars

-----------------------------------------------------------------------------
(* The host.                                                               *)

HostGoes(p, from, to) == /\ ~Exited(p)
                         /\ host[p] = from
                         /\ host' = [host EXCEPT ![p] = to]

\* The token file and the executor listener.
Listen(p) == /\ pc[p] = "held"
             /\ HostGoes(p, "none", "listening")
             /\ UNCHANGED <<lockVars, child, term, busy, served, socket>>

\* The listener cannot be set up, or the session is over already: no broker.
GiveUpEarly(p) == /\ pc[p] = "held"
                  /\ HostGoes(p, host[p], "closed")
                  /\ host[p] \in {"none", "listening"}
                  /\ UNCHANGED <<lockVars, child, term, busy, served, socket>>

Spawn(p) == /\ HostGoes(p, "listening", "running")
            /\ child' = [child EXCEPT ![p] = "recovering"]
            /\ UNCHANGED <<lockVars, term, busy, served, socket>>

\* Mutant of Cleanup: the broker is not told.
CleanupQuietly(p) == /\ HostGoes(p, "running", "closing")
                     /\ UNCHANGED <<lockVars, child, term, busy, served, socket>>

\* Mutant of Cleanup: only signals and the session end it, a broker that is
\* gone does not.
CleanupOnSignal(p) ==
  /\ Alive(p)
  /\ HostGoes(p, "running", "closing")
  /\ term' = term \cup {p}
  /\ child' = [child EXCEPT ![p] = IF @ \in {"recovering", "binding"} THEN "gone" ELSE @]
  /\ UNCHANGED <<lockVars, busy, served, socket>>

\* cleanup, on SIGTERM, SIGINT, the end of the session or the broker's exit.
\* The broker installs its handlers after bind; before that SIGTERM kills it.
Cleanup(p) ==
  /\ HostGoes(p, "running", "closing")
  /\ term' = IF Alive(p) THEN term \cup {p} ELSE term
  /\ child' = [child EXCEPT ![p] = IF @ \in {"recovering", "binding"} THEN "gone" ELSE @]
  /\ UNCHANGED <<lockVars, busy, served, socket>>

CloseListener(p) == /\ HostGoes(p, "closing", "closed")
                    /\ UNCHANGED <<lockVars, child, term, busy, served, socket>>

\* releaseBrokerLock, after the listener is closed.
Unlock(p) == /\ host[p] = "closed"
             /\ ReleaseStep(p)
             /\ UNCHANGED hostVars

UnlockFails(p) == /\ host[p] = "closed"
                  /\ ReleaseFailed(p)
                  /\ UNCHANGED hostVars

\* The process is killed.  The broker is not: it is a process of its own, and
\* a pipe that nobody reads does not stop it.
HostExits(p) == Exit(p) /\ UNCHANGED hostVars

-----------------------------------------------------------------------------
(* The broker process.                                                     *)

ChildGoes(p, from, to) == /\ child[p] = from
                          /\ child' = [child EXCEPT ![p] = to]

\* A panic, an error or a signal that cannot be handled: the socket stays.
Dies(p) == /\ Alive(p)
           /\ child' = [child EXCEPT ![p] = "gone"]
           /\ busy' = busy \ {p}
           /\ UNCHANGED <<lockVars, host, term, served, socket>>

\* recover_incomplete_jobs, then remove_stale_socket: whatever socket is there.
RemoveStaleSocket(p) == /\ ChildGoes(p, "recovering", "binding")
                        /\ socket' = NoProc
                        /\ UNCHANGED <<lockVars, host, term, busy, served>>

Bind(p) == /\ socket = NoProc
           /\ ChildGoes(p, "binding", "serving")
           /\ socket' = p
           /\ UNCHANGED <<lockVars, host, term, busy, served>>

\* Someone else bound the path in between: the broker exits.
BindTaken(p) == /\ socket # NoProc
                /\ ChildGoes(p, "binding", "gone")
                /\ UNCHANGED <<lockVars, host, term, busy, served, socket>>

\* One connection at a time, which may wait for the executor for a minute.
Accept(p) == /\ child[p] = "serving"
             /\ socket = p
             /\ p \notin term \cup busy
             /\ served[p] < MaxServed
             /\ busy' = busy \cup {p}
             /\ served' = [served EXCEPT ![p] = @ + 1]
             /\ UNCHANGED <<lockVars, host, child, term, socket>>

Finish(p) == /\ p \in busy
             /\ busy' = busy \ {p}
             /\ UNCHANGED <<lockVars, host, child, term, served, socket>>

\* Mutant of LeaveLoop: in the middle of a connection.
LeaveLoopAtOnce(p) == /\ p \in term
                      /\ ChildGoes(p, "serving", "leaving")
                      /\ UNCHANGED <<lockVars, host, term, busy, served, socket>>

\* The accept loop sees TERM between two connections.
LeaveLoop(p) == /\ p \in term \ busy
                /\ ChildGoes(p, "serving", "leaving")
                /\ UNCHANGED <<lockVars, host, term, busy, served, socket>>

\* remove_file(socket_path), whoever bound it, and exit.
RemoveSocket(p) == /\ ChildGoes(p, "leaving", "gone")
                   /\ socket' = NoProc
                   /\ UNCHANGED <<lockVars, host, term, busy, served>>

-----------------------------------------------------------------------------
ChildStep(p) == \/ RemoveStaleSocket(p) \/ Bind(p) \/ BindTaken(p)
                \/ LeaveLoop(p) \/ RemoveSocket(p)

\* What a host does once it has been told to stop.
ClosingStep(p) == CloseListener(p) \/ Unlock(p)

HostNext == \E p \in Procs :
  \/ Lock(p) \/ LockStep(p) \/ Listen(p) \/ GiveUpEarly(p) \/ Spawn(p)
  \/ Cleanup(p) \/ ClosingStep(p) \/ UnlockFails(p) \/ HostExits(p) \/ ChildStep(p)
  \/ Accept(p) \/ Finish(p) \/ Dies(p)

HostSpec == HostInit /\ [][HostNext]_allVars

\* A host that is closing goes on, and so does a broker on its way to its loop
\* or out of it; a connection need not end, for reads from a client and writes
\* to it have no timeout.  A host whose broker is gone notices it.  An acquire
\* that has begun goes on.
HostFairSpec ==
  /\ HostSpec
  /\ \A p \in Procs : /\ WF_allVars(LockStep(p))
                      /\ WF_allVars(ClosingStep(p))
                      /\ WF_allVars(ChildStep(p))
                      /\ WF_allVars(child[p] = "gone" /\ Cleanup(p))

-----------------------------------------------------------------------------
(* Properties.                                                             *)

\* Each variable has its kind of value, and the stages agree: no broker without
\* a host that spawned it, no request in a broker that is not in its loop.
HostTypeOK ==
  /\ host \in [Procs -> HostStates]
  /\ child \in [Procs -> ChildStates]
  /\ term \subseteq {p \in Procs : child[p] # "none"}
  /\ busy \subseteq {p \in Procs : child[p] = "serving"}
  /\ served \in [Procs -> 0..MaxServed]
  /\ socket \in Procs \cup {NoProc}
  /\ \A p \in Procs : /\ host[p] # "none" =>
                           pc[p] \in {"held", "unlink", "exited"} \cup Released
                      /\ child[p] # "none" => host[p] \in {"running", "closing", "closed"}

\* Until the first host is killed, at most one broker is meant to be running:
\* every other one has been told to stop before the lock was free again.
OneWantedBroker ==
  NobodyExited =>
    \A p, q \in Procs : Alive(p) /\ Alive(q) /\ p \notin term /\ q \notin term => p = q

\* A host that has come to its end by itself, and be it early, has left no lock
\* file that it could remove and no broker that was not told to stop.
StopLeavesNothing ==
  \A p \in Procs : pc[p] \in Released =>
    /\ pc[p] = "done" => file.by # p
    /\ Alive(p) => p \in term

\* A host that stops gives up its lock file, unless it cannot be removed, and
\* its broker ends, or has been told to and is held by a client that does not
\* go on.
StopsClean ==
  \A p \in Procs :
    (host[p] = "closing")
      ~> \/ Exited(p)
         \/ /\ pc[p] = "unremoved" \/ (pc[p] = "done" /\ file.by # p)
            /\ Alive(p) => p \in term \cap busy

\* A broker that dies takes its host with it.
BrokerDeathEndsHost ==
  \A p \in Procs : (child[p] = "gone") ~> (Exited(p) \/ pc[p] \in Released)

=============================================================================
