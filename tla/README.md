# Northstar: models and proofs

Northstar is a Pi extension and command line for research: web search and fetch,
long-running agent jobs, browsers, and a local job broker. Most of its files
(`src/src/web`, `social`, `github`, ...) are stateless adapters of outside
services. The part with state that several actors share, that outlives a
process, or that is awaited across callbacks is smaller, and is what these
modules are about.

## 1. The system

### Components, their state and what makes them right

| Part | State | Operations | What makes it right |
|---|---|---|---|
| **Native broker** (`rust/crates/northstar-broker`: `main.rs`, `db.rs`, `executor.rs`) | SQLite tables `mutation_claims` and `job_receipts`; one connection at a time; one channel to the executor | connect, start, cancel, read, query receipt; crash, recovery | a start runs at most once, is journaled first, is never lost from sight; answers agree with the journal |
| **Broker lock** (`runtime/broker-lock.ts`) | one file with its owner's pid | acquire, take over, release | one host at a time |
| **Broker host** (`runtime/broker-host.ts`) | the broker child, the executor listener, the socket path | start, supervise, clean up | one wanted broker; nothing is left behind |
| **Local leaf runtime** (`runtime/local-leaf-runtime.ts`) | map of model runs and their provider calls | start, status, result, cancel, prune, dispose | an end once told is final; nothing that runs is forgotten; bounds |
| **Leaf client** (`runtime/leaf-runtime-client.ts`, `rebindLeafRuntime` of `index.ts`) | requests on the event bus, the list of the newest 64 runs, the published client | negotiate, start, poll, fetch, time out, dispose, replace | a timeout cancels the runs it can; nobody else's are cancelled; every call ends |
| **Agent job registry** (`web/agent/agent-jobs.ts`, `agent-events.ts`) | job records, in-flight handles, journals | create, execute, snapshot, expire, progress | ends are final and readable; journals replay; hung drives hold nobody |
| **Embedding sidecar** (`sidecar/sidecar-manager.ts`, `shared-sidecar.ts`) | one Python child, its status, port, token, back-off; a counted handle | start, ensureRunning, stop, crash, restart | no orphan; a stop is not undone; nobody waits for ever |
| **Chrome bridge** (`chrome/chrome-profile-auth.ts`, `-adapter.ts`, `-bridge.ts`, `chrome-extension/service_worker.js`) | live and staged grants, queues and waiters, the companion's own grant and lease | authorize, execute, renew, revoke; poll, result; lapse, alarm | no success under a revoked grant; no grant comes back; every call ends |
| **Scrapling bridge** (`web/access/scrapling-bridge.ts`) | one Python subprocess and its listeners, the pending command | fetch, restart and retry, time out, abort, close, health probe | no subprocess is forgotten; every fetch ends |
| **Extension wiring** (`index.ts`) | session order, the published services | session start and shutdown, rebinding | services belong to the session that is on |
| **MCP client, browser page state** | one stdio child; the snapshot token | connect, close; snapshot, navigate | no use of a closed or stale one |
| **v1 TypeScript broker** | replay window and state store of the predecessor | | superseded by the native one |
| **Agent core, search, web, domain tools, CLI** | none that outlives a call | | pure or I/O |

`PROJECT.json` lists every component with its sources and the reason where it is
left out.

### How they interact

```
 CLI / jobs commands --socket--> native broker --socket--> executor listener --> leaf runtime --> provider
                                   |  SQLite                   (in the host)
 broker lock <-- broker host --spawns, SIGTERM--> native broker
 agent jobs --(event bus)--> leaf client --(event bus)--> a leaf runtime
 web search --> shared sidecar --> sidecar manager --spawns--> Python
 browser tools --> Chrome adapter --> authorization, bridge server <--HTTP polls-- companion --> Chrome
 crawl, page reader --> Scrapling bridge --spawns, stdin/stdout--> Python
```

The host takes the lock, listens for the executor channel and spawns the
broker. The broker recovers its journal, binds its socket, and handles one
connection at a time on one thread. A handler commits a transaction, writes a
frame to the host, waits for the reply, commits another one and answers. The
host serves frames from the leaf runtime, whose runs outlive the request that
made them. The Chrome adapter stages a grant, has the companion acknowledge it,
and commits it; its operations wait in the bridge's queue until the companion
polls. The Scrapling bridge writes one command at a time and reads lines.

### What is hard

* A start cannot be undone: a lost reply must not lead to a second run, and the
  journal must be right whichever step the broker dies at.
* A late reply must not answer the next request on the same channel.
* Every `await` of the Node parts is a point where a stop, a timer, an exit or
  another call comes in, and the code after it uses state from before it.
* A promise race rejects its callers but does not stop the loser: drives,
  provider calls and started children go on after everybody was told.
* A grant lives in two processes, and its revocation is not acknowledged: either
  side can act on what the other has dropped.
* The exit of a child and its last line are two events, in any order, and come
  to whoever's listeners are still attached.
* The lock and the socket are files: reading, deciding and removing are separate
  system calls of several processes.

The full list, with its lines and the properties aimed at each, is under
"hazards" in `PROJECT.json`.

## 2. The modules

| Module | Models | Checked by | Proved in |
|---|---|---|---|
| `SubmissionLedger` | what the broker promises those who submit jobs: accepted before it is executed, executed once, withdrawn only when it never was, not executed once settled | `submit` (implemented by `Broker`) | `BrokerProofs` (the implementation) |
| `Broker` | `main.rs`, `db.rs`, `executor.rs`; the host's listener and runs as the broker sees them | `submit`, `journal`, `fate` | `BrokerProofs` |
| `BrokerLock` | `broker-lock.ts` | `hosts`, `steal` | `BrokerHostProofs` |
| `BrokerHost` | `broker-host.ts` and the broker's socket; extends `BrokerLock`, so that host and lock are one composition | `hosts` | `BrokerHostProofs` |
| `RuntimeRuns` | what the two ends of the runtime RPC agree on about a run: started once, ended once, cancelled only while it runs | no run: all three are proved | `LeafRuntimeProofs` (the implementation), `LeafClientProofs`, `BrokerProofs` (the reliance) |
| `LeafRuntime` | `local-leaf-runtime.ts` | `leaf` | `LeafRuntimeProofs` |
| `LeafClient` | `leaf-runtime-client.ts`, its replacement in `index.ts` | `client` | `LeafClientProofs` |
| `AgentJobs` | `agent-jobs.ts`, the journal of `agent-events.ts` | `jobs` | `AgentJobsProofs` |
| `SidecarManager` | `sidecar-manager.ts` | `sidecar` | `SidecarManagerProofs` |
| `ChromeProfile` | authorization, adapter, bridge server and companion of the Chrome bridge | `chrome` | `ChromeProfileProofs` |
| `ScraplingBridge` | `scrapling-bridge.ts` | `scrapling`, `hang` | `ScraplingBridgeProofs` |

`MC<Module>` instantiates a module for model checking; `MC<Module>_<run>.cfg` is
the run. "map" in `PROJECT.json` gives the lines of each definition. A
definition whose comment begins "Mutant of" belongs to no specification: it is
a plausible bug that the named property must notice.

**Granularity.** In the broker, a committed transaction, the write of a frame,
the wait for a reply and the answer are steps: between them the process can die,
within them it cannot be seen. In Node, everything between two awaits is one
step, since nothing else runs there. In the lock, each system call is a step.

### Broker

A mutation is a pair of a client and the request id it chose, as in the primary
key of `mutation_claims`; starts and cancels may choose the same ids, since the
table does not tell them apart. `receipts[m]` is the row that the start `m` created;
its job id is the provisional one (a digest of `m`, for which `m` stands) until
`BindJob` replaces it by the runtime's. `hnd` is the one request in progress and
where its handler stands (`pc`): "prepare" (the executor slot), "mark"
(dispatched), "send", "await", "bind", "complete", "doubt", "book". `ClaimStart`,
`MarkDispatched`, `BindJob`, `CompleteStart`, `DoubtStart`, `ReleaseStart` and
`BookJob` are the transactions. Up to `MaxFaults` statements fail (`faults`), and the
handler takes its error path. A statement that fails is rolled back, but the
three functions that move a receipt do not roll back a COMMIT that fails
(`WriteFails`): the transaction stays open in `txn`, its row is what the broker reads
from then on (`Row`), no other transaction can begin (`Refused`), claims of cancels go
into it (`Claimed`), and all of it is lost with the process or when a later statement
fails (`StatementFails`). `LoseReply` is the read timeout: the stream is given up,
which is what keeps a late reply from being read as another's. `Crash` loses
everything but the journal, `ExecutorDies` loses the runs, `Restart` is a new
host and a new broker, with `recover_incomplete_jobs`. `Serve*`, `RunEnds` and
`ForgetRun` are the host's side.

`Meaning`, `LedgerJournal` and `LedgerExecuted` map its state to that of
`SubmissionLedger`: a claim is an acceptance, the release of a claim a
withdrawal, a served start frame an execution, a completed receipt is settled,
one whose outcome is unknown is in doubt. `over` is history, the receipts that were
ever completed: the code may put such a one in doubt again, and the ledger does
not let it be executed all the same.

Abstracted: tokens (a client that connects has a valid one, with a set of
granted methods), deadlines inside a request, framing (an invalid frame is the
verdict "garbled"), the executor's authentication. A job list in a read names
one job at most, so that `BookJob` is one row at a time, as in the code.

### BrokerLock and BrokerHost

`pc[p]` is where `acquireBrokerLock` of process `p` stands. `saw[p]` is the pid it
read, which it uses after further system calls; `tries[p]` counts its attempts
to `MaxAttempts`, the code's three. With `IoFails`, any of the calls can fail: an acquire
then ends as "lock_io_error" or "stale_lock_removal_failed", and a release, which
ignores it, leaves the file ("unremoved"). A process takes part once and has its own pid:
reuse of pids is left out. `BrokerHost` adds the host (`host`), its child (`child`),
signals sent (`term`), the request the broker is busy with and the socket path.
Cleanup signals the broker, closes the listener and releases the lock without
waiting for the broker's exit, as the code does; the exiting broker removes the
socket that is at its path. A broker looks for its SIGTERM between two connections
only, and a connection (`busy`) need not end: a client that sends nothing holds it.

### LeafRuntime and LeafClient

In `LeafRuntime`, `state` holds the runs, `kept` those in the map, `going` those whose
provider call has not settled, `old` those whose retention is over once they have an
end. `call[c]` is a request between its awaits: "resolving" its model after the capacity
was counted, or "settling" a cancellation within its window. A provider call ends at any
time after a cancel, or never.

In `LeafClient`, a call has one request at a time, so `call[c].at` says what is
asked of the runtime: "negotiating", "starting", "asking" its status, "fetching"
its result, or "sleeping" between polls. `known[k]` is `startedRunIds` of client
`k`, oldest first; `tracked[k]` is its history. A timeout of any request of a
client cancels every run that client knows (`doomed` on their way); an error reply
whose code is "timeout" ("expired") ends the call and cancels nothing. The runtime
at the other end is another extension and may answer late, start a run whose start
nobody waits for (`stray`), cancel a run when it is disposed, or keep silent.

The two modules are not composed: each request would be two steps of either, and
what they share is little. What they do share, and `Broker` with them, is
`RuntimeRuns`. The runtime is mapped to it by its `state` as it is, the client by
`runs`, whose "going" is the contract's "running", and the broker by `ContractRuns`:
how a run ended makes no difference to it, so "cancelled" stands for every end, and
for a run that was lost with its host.

### AgentJobs

`slot[j]` is the drive in `inFlight`, `drive[d]` what each drive does, whether in its
slot or not. `TimerFires` clears the slot while the drive goes on. `Progress`,
`Succeeds` and `Fails` are what `driveAgentJob` writes, into the record it holds, be it
in the registry or not; each renews the retention of its job at its end (`Renewed`).
`ResultThrows` is a result that cannot be encoded for the journal: the job was ready and
becomes failed, with its result. `Prune` is the part of the other operations that drops
expired jobs, with their handles and journals. The agent core is a number of rounds that
succeed, fail, or hang.

### SidecarManager

`at[s]` is the await that the start `s` is in, `generation` the start that has the
current generation (a stop takes it from all of them), `child[s]` the process it
spawned. A start and its child share a name; `process`, `token`, `port` and `promise`
name whose they are, which is what the code's identity checks compare. A name
is used again when nothing refers to it (`Forgotten`), so that the model has
unboundedly many starts, of which `Starts` can overlap. `wanted` is history: it
says whether the last call from outside was a start.

Abstracted: only the default random port; the external URL, with which the
manager is only a health check; the length of the back-off; crashes counted
beyond the maximum, which make no difference. The turn between the spawn and its
possible error is a `setImmediate`, and is over before another start has its port.

### ChromeProfile

A call of the adapter goes idle, preparing, posted (its command is in the
bridge), waiting (for the result), back (it has it, and the code after the await
is to run), done; `call[c]` keeps what it read before the await. What it gets is an
answer, "ok" or "error", or that `send` threw: the two differ in what the adapter
looks at afterwards. A call ends before it sends anything without a selected
companion or a token of the bridge (`StageAborts`), and a companion refuses or skips
what is not for it or cannot be parsed (`RefuseRoute`). A grant is
named by the `authorize` call that asked for it. `auth` is the live and the
staged grant in Pi, `comp[p].grant` and `comp[p].leased` what companion `p`
holds, `queue` and `waiters` the bridge's. `Lapse`, `CommandTimeout`,
`LeaseAlarm`, `WorkerDies` (a service worker loses its memory, the grant with
it), `StopServer` and `SetAutomationEnabled` are the disruptions; those that
come from outside are counted by `MaxEvents`. `ended`, `acked` and `runs` are
history.

Abstracted: tokens and pairing, the page operations themselves (an operation
runs and ends, once started), the tab the worker owns, the lease's due time;
`revokeCommand`, `revokeAll` and `purgeStaleInstances`, which only tests call,
and `typedMemory`.

### ScraplingBridge

`pc[f]` is the await in which the fetch `f` is: "dns", "await" (its command is
written), "restart" (the old child is closed before another is spawned),
"check", "fallback". `pending` is the pair of `_pendingResolve` and
`_pendingReject`, `child` is `_child`, and `ears[p]` whether subprocess `p` still
has its listeners. What the subprocess does (`os`, `out`) and what Node has
noticed (`noticed`, the lines read) are apart, which is what makes exits and
replies cross. `late` is history: the fetches whose timer fired.

Abstracted: the bridge switched off by the environment, partial lines, proxy
validation, write errors on the stdin of a dead child; a failed spawn is an exit.
Callers fetch one page at a time, as the crawl and the page reader do.

## 3. The runs

| Run | Bounds | States | What it shows |
|---|---|---|---|
| `submit` | 2 clients with the same request id, 2 run ids, 1 crash, 2 failing statements | 501,080 | at most one execution, write-ahead, receipts that name their own run, true answers, lasting visibility, that the broker implements the ledger, and that every handler comes to its answer or to a write that its peer does not take |
| `journal` | 1 client, two starts and a control request with the id of one of them, 2 runs, 1 crash, 1 failing statement | 1,686,809 | every receipt has its claim, "completed" only when over; until a statement fails, no job in limbo and answers backed by the journal |
| `hosts` | 2 mortal hosts, failing file system, 2 requests each | 49,308 | exclusion until the first exit; every acquire decides; a dead owner's record is taken over; a stopping host leaves no lock file that it could remove, and no broker but one that was told to stop and is held by a client; a broker's death ends its host |
| `leaf` | 2 requests at a time, 3 runs, capacity 1, map of 2 | 1,780,000 | ends stand, nothing running is forgotten, bounds, disposal |
| `client` | 2 leaf calls, 1 refresh, 2 clients, a list of 1 | 846,273 | a timeout cancels the known runs, a client asks for a cancellation only after a timeout of its own; a polled run is known unless newer ones took its place; every call comes back |
| `jobs` | 1 job, 2 drives, 2 rounds | 36,646 | ends can be read, they stand and journals replay unless two drives are at work at a time, slots are freed |
| `sidecar` | 3 overlapping starts, 2 crashes | 293,026 | no orphan, own endpoint, no wait for ever |
| `chrome` | 2 authorizations, 1 use, 1 companion, 1 disruption | 211,770 | a live grant was acknowledged and none comes back; a success was run, once, under a grant still live; calls end, and so do grants that Pi dropped |
| `scrapling` | 2 pages, 4 subprocesses | 333,517 | no subprocess is forgotten, a closed bridge leaves nothing, and fetches end unless their command is timed out |
| `fate`, `steal`, `hang` | small | | the divergences of section 5 |

Why the bounds are enough for what is asked:

* Two clients with equal request ids are what scoping by client has to tell
  apart. Two run ids let a run be made twice, or bound to the wrong row. One
  crash at every step, with recovery, already puts a restarted broker before
  everything its predecessor left. A second failing statement is the one that ends
the transaction that the first left open. `journal` has a start and a cancel with one
id, and a start whose id nobody shares; the proofs lift these bounds.
* Two hosts are a predecessor and its successor. Three contenders with one mortal (a
  dead owner and two who read its record) were checked apart, on the lock alone with a
  failing file system (4,105 states), for `SingleOwner` and `AcquireDecides`; `steal`
  has the three.
* Three runs over a map of two make the bound drop one, with a capacity of one
  that two requests overrun.
* A list of one is full with the first run, so that the second one evicts it; the
  refresh is the request whose timeout cancels the runs of others; two clients are the
  one being replaced and its replacement.
* Jobs share nothing but the pruning that each one's operations do to the expired
  others, so one job that expires while it is polled meets it. Two drives are what the
  lost race makes.
* Three starts are a superseded one, a current one and one yet to come, beside
  stops and crashes. With two crashes, one restarts and one gives up; the code's
  five differ only in how often.
* Two authorizations are a grant and the one that replaces it, or two handshakes
  that overlap; the use is an operation or a renewal under either. The
  safety properties were also checked with two disruptions (1,119,259 states) and
  with two companions (2,752,936 states).
* Two pages are a fetch and the one its leftovers could meet. Four subprocesses
  are two fetches that are each restarted once; the code has no bound.

`CHECK_DEADLOCK FALSE` is said where processes end for good (`hosts`, `steal`)
and where runs, drives or calls are bounded and all may be over (`leaf`, `client`, `jobs`,
`chrome`, `scrapling`, `hang`). Brokers and sidecars can always be asked again,
and deadlock is checked there.

### Fairness

* `Broker`: weak fairness of `BoundedStep`, the steps of a handler that end by
  themselves: transactions on a local file, reaching the executor (the token is the
  first thing written to its new connection, whose buffer has room for it), and the wait
  for its reply, each read of which has a timeout (60 s, or the settlement window and 5
  s). The write of a frame to the executor and of an answer to a client have no timeout
  (`executor.rs:214`, `main.rs:213`), and so no fairness; nor is there any of the
  requests of a client, of the executor or of restarts. `fate` alone assumes peers that
  take what is written (`DrainedSpec`), so that its counterexample is not a stuck write.
* `BrokerHost`: the steps of an acquire that has begun (they are consecutive
  system calls of one process), the closing of a host, the steps of a broker
  child on its way to its loop and out of it, and the exit handler of a child.
  A connection need not end (`Finish`): reads from a client have no timeout. Nobody
  has to exit or to stop, and no call has to fail or to succeed.
* `AgentJobs`: only the timer of a drive. A drive may hang.
* `SidecarManager`: each await of a start ends (all have timers), the back-off
  timer and the safety timer of a stop fire, and a child that was sent its
  signals goes. Nobody has to call, and no child has to be healthy or to crash.
* `LeafClient`: deadlines pass, sleeps end, request timers fire. The runtime need
  not do anything.
* `ChromeProfile`: awaited calls of the adapter come back, by an answer or by
  their timeout; a lease runs out, and the worker's alarm is periodic. Nothing is
  asked of the user, the network or the companion's polling.
* `ScraplingBridge`: lookups and fallback fetches end (they have their own
  timers), Node delivers lines and exits that have happened, timers fire, the
  system ends what was killed, and the probe ends with its input. No subprocess
  has to answer or to die of SIGTERM, and the caller need not go on.

`LeafRuntime` has no fairness and no liveness property: a provider call may never end.

## 4. The proofs

All proofs are for every value of the constants under the named assumptions
(`BrokerAssumption`, `LockAssumption`, `ChromeAssumption`, ...), which say little
more than that "none" is no client, run or process, and that bounds are numbers.
Two properties, `NoLimbo` and `AnswersAreJournaled`, speak of what is so until the first
journal statement fails (`faults = 0`).

**BrokerProofs** is a chain of inductive invariants, each resting on the one before.

1. `IInv`: `TypeOK`, `AtMostOnce`, `WriteAhead`, `ReceiptIsClaimed`. `AtMostOnce` is not
   inductive: a second frame for a start that already ran would break it. `Journaled`
   says what the row of the start in hand looks like at each step of its handler;
   `Executed`, that an unhandled frame and a run of the same start exclude each
   other, that both are past "pending", and that a handler that has not sent its
   frame has neither; `Journal`, that rows are keyed by their job and absent rows are blank.
2. `ChannelInv`: whatever is on an open channel belongs to the request in hand.
   It gives `ReceiptNamesOwnRun` and `FramesStayWithOwner`: a late reply is never
   the answer to the next request, because the stream was given up.
3. `SettlingInv`: a run that was reported over is over, a refused start made no
   run, and a start that was ever settled has no frame left to be served. It gives
   `CompletedIsOver`, and with it `BrokerImplementsLedger`: the broker, with its
   crashes, timeouts and recovery, implements the ledger. `ClaimStart` is the
   ledger's acceptance, `ReleaseStart` its withdrawal, `ServeStart` its execution,
   `CompleteStart` and `BookJob` settle, `DoubtStart`, `BookJob` and `Restart` put in
   doubt; every other step stutters.
4. `HonestInv`: the client of the start in hand was told nothing yet, the answer about
   to be given is true, and a start that was refused has no frame left. It gives
   `AnswersAreTrue` and `SeenStaysVisible`.
5. `WrittenInv`, while no statement has failed: the answer about to be given is written,
   and an open receipt is that of the start in hand. It gives `NoLimbo` and
   `AnswersAreJournaled`.
6. `BrokerReliesOnRuns`, from `IInv`: what the broker's module lets the executor do
   with a run, and the death of the host, are steps of the contract that
   `LeafRuntime` implements (below). It says that the model of the broker takes the
   executor to do nothing that the contract forbids, not that the broker suits
   every runtime that keeps the contract.

**BrokerHostProofs**: the lock first, `SingleOwner` and `OwnerKeepsFile`, until a
process exits. The strengthening is `Quiet`: nobody has reached the removal, because
whoever was read is alive, so only owners remove. The restriction is needed: see
`steal`. `NoLockLeftBehind` needs no such restriction. It rests on `FileIsOwn`: a file
that names a process was written by it while it owned the lock, so a process that is
done has removed its file or lost it to another. `HostNext` is composed of the lock's
own actions and of steps that leave the lock alone, so hosts inherit all of this (the
lemma `HostImplementsLock`, which holds by that composition). On top of it come
`HoldsLock`, by which a host that listens, runs or closes is an owner, and
`WantedIsHosted`, by which a broker that was not told to stop has a host that is
running. Two such brokers would need two owners, hence `OneWantedBroker`, and
`StopLeavesNothing`, which is the safety half of `StopsClean`.

**LeafRuntimeProofs**: `ReportsStand`, `RunningIsKept`, `CancelHits` from `LeafInv`. The
key is `GoingIsOpen`: a provider call that has not settled is that of a running or a
cancelled run, so a late answer finds either nothing told or a cancellation, which it
does not overwrite. `CancelHits` says that none of the runs a cancellation named runs
while it waits, and that a run is cancelled only if its controller was aborted; that the
provider heeds the abort is its own affair. `CapacityBound` and `DisposalIsThorough`
count, and follow from `CountInv`. The runs are counted together with the requests that
have passed the capacity check and still resolve their model (`Counted`): a check that
passes leaves room for what every other caller may have under way. `Disposing` counts,
from the start of a disposal, the runs that it does not wait for and those same
requests: each of them is a caller's last, since a disposed runtime takes no new ones.
`RunningIsGoing` says that a running run has a provider call to wait for.
`RuntimeImplementsRuns` maps the runtime to its contract: a started run starts, a
cancellation cancels all it hits at once, a provider's answer finishes a run that is
still running, and whatever prunes, waits or expires stutters. `EndsAreFinal` comes from
the contract.

**LeafClientProofs**: `TimedOutIsCancelled`, `CancelIsForTimeout`, `PolledIsKnown`,
`DisposedIsQuiet`. The difficulty is the bounded list: `KnownFit` says that a run in the
list is in the history too, with at least as many runs behind it there as in the list. A
run that the bounded list evicts therefore has `MaxKnown` newer ones.
`ClientReliesOnRuns`: all that the client's module lets the runtime do with a run is
allowed by the contract. It does not follow that the client suits every runtime that
keeps the contract, one that starts or ends runs in ways the module leaves out among
them. `NotStarted` is what it takes: the run of a call that has not been told of its
start, or whose start is a stray, was not made before.

**AgentJobsProofs**: `EndStands`, `ReadyHasResult`, `SlotIsLive`, `JobsTypeOK`. `OneDrive`
says that a job whose drives never overlapped has one drive at work and none once
it is over. The history variable `overlapped` is where the code makes no promise
(the second drive of section 5).
`JournalReplays` is not inductive, since it says nothing of rounds to come. `JournalInv`
adds it: while a job runs, its one drive has reached every round in the journal
(`Driven`), so what it appends is later; and a journal that closed belongs to a job
that is over. `EndIsReadable` needs `EndShown`: an end that was shown is in the record
from then on, so that only its retention can take it away.

**SidecarManagerProofs**: `NoOrphans`, `StopSticks`, `StartingIsGoing`. `OwnChild` says
that a current start finds its own child or none, so that a spawn overwrites
nobody; `NobodyStarts`, that a stop took the generation, the child and the timer;
`PromiseIsCurrent`, that a start which callers share is the current one, so that a start
call that is coalesced waits for something.
`EndpointIsOwn` needs more, since the port, the token, the child and the status
are written by different steps of a start, of which several overlap. `EndpointParts`
says when each is whose: the port is that of the current start from its spawn on
(`PortIsOwn`), the token from the moment it was sent (`TokenIsOwn`), what is said to run
is the child of the last start, which is over (`RunningIsOwn`), a start is alone
between its spawn and its token (`OneSpawned`), and a stop that will take the port
at its end was followed by no start (`LatestIsLast`).

**ChromeProfileProofs**: `LiveIsEarned`, `StageIsInFlight`, `FreezeIsOfLive`,
`NoSuccessAfterRevoke` from `GrantInv`; `SuccessWasRun`, `QueuedIsWaited` from
`CommandInv`. `GrantInv` ties the grant in Pi to the call that asked for it:
`YesIsAcked`, that a positive answer on its way is that of a companion which accepted
the grant; `StagedIsOpen` and `LiveIsCommitted`, where the call of a staged or a live
grant stands. `CommandInv` rests on `OnePlace`: a command is in one queue, once, or in
one companion's hands, never both, so that no operation is started twice.
`QueuedIsWaited` is about the bridge's server only: its waiter takes a queued command
away in time, while the caller in Pi may have given up before, and the command may still
be obeyed.

**ScraplingBridgeProofs**: `NobodyForgotten`, `BridgeTypeOK`. `ListensToChild`: an open
bridge hears no living subprocess but its child; `OneFetch` and `RestartIsBare`: a
restart has let go of the old child, so a spawn overwrites nobody; `ClosedIsBare`:
no lookup goes on behind a close that would spawn after it; `PendingWaits`: the
callbacks are those of the fetch that waits.
`WaitsAreSettled` and `ClosedInsists` are what the two liveness properties of the
bridge need of every step: that no fetch waits without the callbacks that can settle
it, and that no closed bridge has a subprocess without a SIGKILL sent or a timer set
for it. They rest on `TermIsWatched` and `OpenAsksNobody`: only a close asks politely,
it asks the one child, and the timer of that child is not lost before its exit.

Some properties are stated as theorems only, since a theorem covers every instance:
`TypeOK`, `FramesStayWithOwner`, `OneWantedBroker`, `OwnerKeepsFile`, `CancelHits`,
`ReadyHasResult`, `SlotIsLive`, `StartingIsGoing`, `StopSticks`, `StageIsInFlight`,
`FreezeIsOfLive`, `QueuedIsWaited`, `DisposedIsQuiet`, `JobsTypeOK`, `BridgeTypeOK`,
`NoLockLeftBehind`, `StopLeavesNothing`, `ImplementsRuns`, both `ReliesOnRuns`,
`WaitsAreSettled`, `ClosedInsists`. Each was model-checked on the instance of its
module's run before it was proved.

**Model-checked only.** Liveness, which is beyond the prover: `HandlerReachesAnswer`,
`AcquireDecides`, `StaleRecordIsRetaken`, `StopsClean`, `BrokerDeathEndsHost`,
`SlotIsFreed`, `StartEnds`, `CallsEnd`, `StrandedGrantEnds`, `LeafCallsEnd`,
`ClosedLeavesNothing`, `FetchesEndInTime`. Every invariant and every action property of
the runs is a theorem. For three of the liveness properties the part that a step could
break is proved: that of `StopsClean` is `StopLeavesNothing`, that of
`ClosedLeavesNothing` is `ClosedInsists`, and that of `FetchesEndInTime` is
`WaitsAreSettled`.

## 5. Where documents and code part

| Run | Text | Code |
|---|---|---|
| `fate` | ADR 0010 line 91: when the executor dies the broker immediately settles its receipts and shuts down | the broker looks at the channel only during a request; idle, it keeps its dispatched receipts |
| `steal` | `broker-lock.ts:54`: never removes a lock without confirming that the owner is dead | the owner is confirmed, then whatever file is there by now is removed |
| `hang` | `scrapling-hybrid-search-spec.md:27`: timeout per fetch, 30 s by default | the timer sets `timedOut` before it calls a reject that does nothing once `timedOut` is set (`scrapling-bridge.ts:604`): the fetch never ends, and neither does its caller |

Others are in the models without a run of their own:

* An exiting broker removes the socket at its path, be it that of its successor
  (`main.rs:1280`); ADR 0010 line 77 has endpoints removed only in absence of a
  live lock holder.
* A cancel and a start with the same request id share one claim (`db.rs:113`). A start
  whose id a cancel has used is refused as a duplicate although it has no receipt
  to query, where the comments of `claim_start_atomic` and of its caller
  (`main.rs:493`) promise one with every claim. `ReceiptIsClaimed` is the half that holds.
* After its timer, a job that still runs can be driven a second time
  (`agent-jobs.ts:900`); line 886 says that later calls observe the final status.
* `PollTimesOut` of `SidecarManager` writes the status of the manager for a
  superseded start, where `sidecar-manager.ts:118` says that a stale generation
  never touches it.
* The Chrome adapter sets its target before the companion has acknowledged the
  grant (line 275); line 201 says "null until authorize binds it". The worker's
  `ensureOwnedTab` (`service_worker.js:520`) does not look at the cancellation
  that lines 54 to 57 describe.
* A line that a Python subprocess wrote is read after its exit was noticed, and
  answers the command sent to its successor (`scrapling-bridge.ts:544`):
  `ReplyIsOwn` is stated in the module and does not hold.

## 6. Not modelled, and next

Not modelled for good: parsing and validation, endpoint paths and permission
bits, page and URL predicates, adapters of services, the command line, which
keep no state from one call to the next and are most of the repository's lines; ranking
over reals and text, which TLC cannot evaluate; the settlement and worker
libraries of the crate, which its main does not call; the v1 broker, superseded.

Next, in this order:

1. `ExecutorChannel`: the single accept of the listener, composed with `Broker`;
   a draining predecessor beside a recovering successor.
2. `SharedSidecar`: the counted handle and signal shutdown over `SidecarManager`.
3. The probe of `session_start` and the order of session events in `index.ts`.
4. `BrokerSession`: token expiry, epochs, sequence numbers.
5. `McpClient`, `PageState` and the browser modes, the journal's page reads, rank
   fusion over integers.

Proofs: the safety halves of the other liveness properties (a call of the Chrome
adapter or of the leaf client that waits has something that can end it; a Chrome
grant that Pi dropped has a lease or an alarm that ends it).
