# Verification of hermes-kanban-remote

TLA+ models of the cluster server in `src/hermes_cluster`, model-checked with TLC on small
instances and, for all safety properties, proved with TLAPS for every instance.

## 1. The system

A cluster server keeps tasks, nodes and leases, assigns tasks to nodes, watches heartbeats, retires
leases and moves the tasks of failed nodes. The source holds two servers.

* The **deployed app** (`app.py`, `serve.py`): an in-memory `ClusterState`, a `NodeManager` with its
  watchdog, a `LeaseManager` with its scanner, a `RecoveryManager` with its periodic loop, and HTTP
  endpoints. Endpoints are coroutines without an `await`, so they run one at a time on the thread of
  the event loop; the scanner (10 s), the recovery loop (30 s) and the watchdog are threads beside it.
* **ClusterCore** (`core/cluster_core.py`): an SQLite `ClusterStore`, its own scheduler, workflow
  resolver, watchdog wiring and the older recovery of `core/recovery.py`, with the `TaskManager` on
  top. The app does not start it.

Sync between clusters and webhooks are parts that either server can mount.

### Components

| component | state | operations | talks to | correct when | module |
|---|---|---|---|---|---|
| ClusterState | `_tasks`, `_nodes`, `_leases`, `_task_lease_index`, `_sync_version`, a lock for each | create, set status, unassign, set dependencies, trigger pending, schedule pending, lease create/revoke/scan/lookup, sync message | called by everything; calls back on expiry | one active lease to a task; the index never misleads; promotion waits for dependencies | `ClusterState` |
| task endpoints | none | submit, complete, fail, unblock, advance, dependencies, claim, release | ClusterState and LeaseManager, several critical sections each | a freed task has no lease, a running one has a holder | `ClusterApi`, `ClusterThreads` |
| node endpoints, NodeManager | statuses, heartbeats, listeners, capability cache | join, leave, heartbeat, capabilities, status | ClusterState; events to listeners | a status follows the heartbeat | `NodeWatch`, `ClusterApi` |
| watchdog | thread | mark nodes online, degraded, offline | NodeManager | stale readings are set right | `NodeWatch` |
| lease endpoints, LeaseManager | counters, callbacks, `_lock`, scanner thread | create, revoke, list, extend, start, stop | either store; calls back under its locks | calls return, an expiry is announced once, overdue leases are retired | `LeaseManager`, `ClusterApi` |
| recovery | counters, loop thread | trigger, detect expired, revoke all, reschedule | ClusterState | a task of a failed node is placed elsewhere or failed, and keeps to one holder | `ClusterApi`, `ClusterThreads` |
| recovery detector | queue of 100 events, thread | notify, handle, start, stop | fed by the app's listeners | a silent node is reported, and not over and over | `NodeWatch`, `Services` |
| sync | pending messages, peers, thread, version log | queue, delta and full sync, receive | peers by HTTP, a store | retries are harmless; what is lost is made up for; versions do not run away | `Sync`, `ClusterApi` |
| ClusterCore | store, scheduler, resolver, detector queue, threads | submit, complete, fail, propagate, schedule, recover | its own store | dependents follow their dependencies, none is left behind | `ClusterCore` |
| SQLite store | tables, one reentrant lock, one connection | as ClusterState, in transactions | – | as ClusterState, over a restart too | `SqliteStore` |
| task manager | none | create, duplicate, update, cancel, retry, reschedule, delete, purge | SQLite store | a deleted task stays deleted, a running one has a node | `ClusterCore` |
| hooks | registrations, capped history | register, emit, deliver with retries, start, stop | HTTP | bounded attempts, a truthful history | `Hooks` |
| background loops | flag, event or queue, thread | start, stop | – | a running service is served by one thread, a stopped one comes to rest | `Services` |
| federation, configuration, status, visualisation, plugin | dictionaries and files | – | – | (no behaviour worth a model) | – |

### What is hard

* Recovery runs on a thread of its own and on the event loop, and works on tasks whose leases it
  revoked earlier in the run.
* Handlers read a task without a lock (`get_task` hands out the stored object) and write it in
  several critical sections; in ClusterCore a call is a string of transactions with readings between.
* The lease index loses the entry of a younger lease when an older one is revoked.
* Expiry callbacks run while locks are held, or between two transactions.
* The watchdog judges by heartbeats and statuses it read at the start of its pass, and its writes to
  the SQLite store wait for somebody else's commit.
* Messages of peers may arrive in any order, twice, late or never, and overwrite any task.
* A queue of events is bounded in one detector, lost with a restart in the other.
* Every service is stopped with a join that gives up after a few seconds.
* Dependencies may be declared at any time, in cycles too.

`PROJECT.json` lists these and the other hazards, each at its line.

## 2. Modules

| module | models | granularity |
|---|---|---|
| `ClusterState` | the tables of `state/__init__.py` and one operator for each store method | – |
| `TaskOwnership` | what the lease system promises: a task has one holder at a time, and passes from one to the next only through nobody | abstract specification |
| `ClusterApi` | every endpoint that changes tasks, nodes or leases, watchdog, scanner, recovery, received sync messages | one request, one step |
| `ClusterThreads` | the same system cut into critical sections: one handler at a time on the loop, recovery on the loop and on its own thread, background threads | one critical section, one step |
| `LeaseManager` | the manager with its two locks over either store: callers, scanner, callbacks, extension | one critical section or one wait for a lock, one step |
| `NodeWatch` | heartbeats, the watchdog's pass, `set_status` on several threads, the app's listeners, the detector's bounded queue | one reading, write or report, one step |
| `Sync` | clusters that push to each other: queue, delta and full sync, attempts, lost requests and answers, receivers, restarts | one message handled, one step |
| `SqliteStore` | the tables and statements of `state/cluster_store.py` | – |
| `ClusterCore` | the second server and the task manager: a thread that serves calls, the detector's thread, scanner, watchdog, restart | one transaction or reading, one step |
| `Hooks` | registrations, emission, deliveries that interleave at their waits, stop and start, the history | one attempt, one step |
| `Services` | start, stop and loop of the seven background services | one test, wait or pass of a loop, one step |
| `*Proofs` | theorems about the module they are named after | – |
| `MC*` | symmetry sets and values of constants for TLC | – |

`ClusterApi` and `ClusterThreads` extend `ClusterState`; `ClusterThreads` also instantiates
`ClusterApi` (`Api`) for the handlers that are a single critical section and for its state
predicates; `ClusterApi` instantiates `TaskOwnership` with the refinement mapping
`holder <- heldBy`, the node of a task's active lease. `ClusterCore` extends `SqliteStore`. The
others stand alone: they need of tasks and leases only what is described next.

### State

* `ClusterState`: `tasks[t]` is a record of status, `assigned_to`, `depends_on` and `requires`;
  status `"absent"` means that the id has not been generated yet. `nodes[n]` likewise, with the
  node's `seat`, its place in the join order: the scheduler takes the first eligible node of the
  dictionary. `leases` is the sequence of leases in creation order, an id is a position, `index` is
  `_task_lease_index` with 0 for no entry. Leases are never removed, as in the code. Time is
  two-valued: `ttl` becomes `"over"` by the step `LeaseFallsDue`, at any moment.
* A sync message to the app carries a status (one of the code's or an unknown one), an assignee or
  none, and a version. The receiving endpoint ignores timestamps and senders.
* `ClusterThreads`: `thread[p]` is the next step of the thread, its arguments and what it has read
  before: the online nodes of `schedule_pending`, the leases a recovery has still to revoke, those
  whose tasks it has still to reschedule.
* `LeaseManager`: `Uses` says which methods each caller calls, a bound. `storeLock` and `lock` are `_leases_lock` and `_lock`; `call[p]` is what a thread is
  in the middle of; `told` counts the callbacks made for a lease, to two, which stands for more than
  once. The variable `backend` is chosen initially and never changes, so that a run covers both stores.
* `NodeWatch`: the age of a heartbeat is the class it falls into (`"fresh"`, `"late"`, `"lost"`),
  which `GetOlder` advances at any moment; `pass` is the watchdog's pass with the clock, heartbeats
  and statuses it has read; `Strangers` are ids that leases name and nobody registered, whose expiries
  take room in the queue; `change[p]` is a `set_status` between its comparison, its write and its
  report; `queue` is the detector's.
* `Sync`: `tasks[c][t]` is a status with the version of cluster `c`'s copy (0: none); `log[c]` the
  largest version in its `sync_log`; `pending[c]` the coordinator's queue; `send[c]` the pass it is
  in, with the peers still to serve, the attempt, the message its receiver is handling, and whether
  an earlier attempt had arrived. `writes` is history: how often a task has really been changed.
* `ClusterCore`: `nodes` is the node table as every thread reads it on the shared connection, `saved`
  as last committed, `before` the order of its rows. `api.plan` is the list of transactions the
  served call has still to run, with a step `"read"` for each dependency that the resolver looks up;
  `recovery` is where the detector's thread stands and the task it judged. `done` (what was ever
  completed, and from the start what is not in the bound `Awaited`, which in `core` is the only task
  another waits for) and `fresh` (nothing has happened since the server started) are history. `SelfCaps` are
  the capabilities the server is started with, and registers at every restart. `TakeLease` stands
  for a client of the store: nothing in the repository takes leases there, and the store checks
  neither task nor node. A row that was deleted keeps status `"deleted"`.
* `Hooks`: `deliveries` are the calls of `deliver` in the order they started, `history` the capped
  `_deliveries`, `got` what the endpoint has really received.
* `Services`: `kind` is chosen initially; `loops[i]` is where the i-th thread ever started stands,
  `caller` where the caller of `start` and `stop` does, `gaveUp` whether a join has ever run out.

Titles, priorities, versions of tasks (but in `Sync`), fail reasons, load, the logs and the
statistics are left out. In `ClusterApi` rescheduling handles all freed tasks at once; as the
scheduler treats each task alone and the nodes stand still within the step, the outcome is that of
the loop. `ClusterThreads` has the loop itself.

Operators whose comment begins with *Fault:* are variants of the definition that follows them, with
a plausible mistake; no specification uses them. Each states a mistake that some property has to
notice, and `PROJECT.json` pairs them under `mutants`.

## 3. Model checking

| run | instance | shows |
|---|---|---|
| `peer_leases` | 1 task, 2 nodes, 3 leases, sync versions to 2 | `AtMostOneLease`, `UnassignedHoldsNoLease`; every step implements `TaskOwnership`, with peers overwriting tasks |
| `full_api` | 2 tasks, 1 node, a capability, 2 leases, sync version 1 | types; `IndexNamesTask`; `LeaseLifecycle`: no lease comes back or changes hands, with hand-posted leases |
| `thread_handlers` | 1 task, 2 nodes, 2 leases, no recovery thread | `UnassignedHoldsNoLease` and `TaskOwnership` at every critical section; `RunningHasHolder` and `CompletedHoldsNoLease` between requests |
| `thread_dependents` | 3 tasks, each may wait for the first two, 1 node, a peer, no recovery thread | types; `PromotedInOrder`, the dependencies being read one by one |
| `thread_recovery` | 1 task, 1 node, 2 leases, a peer, recovery thread, fairness | `LeaseLifecycle` under two recoveries at once; `RecoveryEnds` |
| `lease_locks` | a caller of all methods, one that extends, scanner, 3 leases in memory and 2 in SQLite, fairness | owners of the locks; `NotifiedOnce`, `ExpiryNotified`, `ExtendedOnce`; `OthersReturn`, `OverdueRetired` |
| `sync` | 2 clusters that push to each other, 1 task, 2 changes, 2 attempts, a restart at any time, fairness | `NoRunaway`, `RedeliveryIgnored`; `CatchesUp`: a copy that is behind does not stay behind |
| `core` | 2 tasks, the second may wait for the first, the server's own node and one that is only named, 1 lease, 1 event, restarts at any time, fairness | `ReadyInOrder`; from step to step `RunningHasNode`, `StaysDeleted`, `NoneLeftBehind`; `RecoveryRevokes` |
| `node_watch` | 1 node, 1 stranger, 1 caller, a queue of 2, 3 calls or expiries, fairness | the queue's bound; `Settles`, `LostIsReported`, `NoRecoveryStorm` |
| `hooks` | 2 webhooks, 2 events, 2 deliveries of up to 3 attempts, a history of 3, fairness | bounds; `HistoryTellsTheEnd`; `EveryDeliveryEnds` |
| `services` | each of the 7 services, 4 threads, 3 events, a queue of 2, fairness | `RunningIsServed`, `OneLoop`; `StoppedEnds` |
| `expired_task` | 1 task, 2 nodes, 1 lease, fairness | violated: see below |

### Bounds

`MaxLeases` bounds the leases ever created (a claim at the bound is not possible, so the state space
is finite). With two leases a task is claimed, freed and claimed again; with three an old lease can
be deleted while a newer one is active and the index has lost its entry, and a lease can be extended
twice. `MaxSync` bounds the version of messages: each accepted message raises the local version, so
it is also the number of messages the app accepts. Two nodes are enough for a task to change hands;
two tasks for a dependency. A submitted task of the app is promoted at once, so pending tasks with
dependencies only arise through a peer, which is why `thread_dependents` has one.

`lease_locks` has two callers beside the scanner, one for all methods and one that extends. In memory
with three leases an extension overlaps each of the four methods, another extension of the same lease
included, and any of them the scanner. In SQLite, where the scan has many more interleavings, two
leases leave room for two extensions of one lease to overlap, and for an extension with a revocation
or a listing; an extension never overlaps a creation there. `Room` keeps a place for each lease that
calls under way may still add, two extensions of one lease counting once: of those only one may add
a lease, which is what `ExtendedOnce` says. Two threads that both create, revoke or list are not run
against each other; `NotifiedOnce`, `ExpiryNotified` and `ExtendedOnce` are theorems for any number
of callers.

`sync` has versions up to three: a copy made by a full state counts two where its writer counted
one, which is what could make versions climb. In `core` the one lease, taken for the first task
whatever its node, falls due, is revoked and is
deleted, the detector has an event in the queue while it handles another, and the watchdog only
marks nodes offline: heartbeats bring them back. Two nodes in `node_watch` are out of reach (more
than 12 million states); the nodes meet only in the watchdog's pass, which reads and judges each by
itself, and in the queue; and what fills the queue there, expiries of leases that name an id nobody
registered, fills it in the run as well. The bound of three calls lets two strangers' events fill the
queue and a status be set by hand. A history of three records
holds neither all attempts of two deliveries nor only those of one. Four threads let a service be
restarted while its last two threads are still to end.

Deadlock is checked except for `LeaseManager`, which really can stop (below), and for the modules
whose bounded calls run out: `Sync`, `NodeWatch` and `Services`.

### Fairness

Nothing obliges clients to call; threads go on, as the operating system sees to it.

* `ClusterThreads!FairSpec`: a thread in the middle of a handler or a recovery goes on.
* `ClusterApi!FairLocalSpec`: the scanner and the recovery loop run again and again; both are `while`
  loops around a scan and a timed wait.
* `LeaseManager!FairSpec`, `NodeWatch!FairSpec`: strong fairness for a thread that waits for a lock.
  Python's locks are not fair by themselves, but every holder other than a stuck one gives the lock
  back after a few statements and scanner, watchdog and senders sleep in between, so the lock is free
  almost always. Nothing is assumed of the detector in `NodeWatch`: the app never starts its loop
  (`notify_offline` only fills the queue), so an event may be taken or not.
* `Sync!FairSpec`: the receiver goes on, the timer for full states runs out again and again (strong,
  because a restart or a delta pass may come first), and of the full states sent to a peer not all
  are lost. Delta messages may all be lost.
* `ClusterCore!FairSpec`: the detector's thread goes on; `ClusterCore.start` starts it.
* `Hooks!FairSpec`: the event loop wakes up a delivery whose wait is over.
* `Services!FairSpec`: a loop tests its condition, its pass ends, its timed wait runs out; a caller
  waiting for room in a queue or for a join goes on once it can.

### Where the code departs from what is written about it

`expired_task` checks what a comment and SPEC.md say, and TLC finds it violated:
`detect_expired_leases` first marks overdue leases expired, then recovers their nodes; the revoker
looks at active leases only, so the task of the expired lease itself stays running under the node
that lost it, for ever.

More counterexamples can be replayed with `tlc -config BadX.cfg MCY`:

| cfg, module | property | what happens |
|---|---|---|
| `BadRescheduleRace`, `MCClusterThreads` | `OnlyUnplacedFail` | Recovery frees a task, the other thread's scheduler places it, recovery's own call places nothing and recovery marks the running task failed. The rescheduler's lock, which its comment relies on, is never taken. |
| `BadReleaseRace`, `MCClusterThreads` | `RunningHasHolder` | Release sets the status to ready; before it clears the assignee, recovery's scheduler starts the task; the release then erases the new holder, and the task runs without one. |
| `BadRecoveryLease`, `MCClusterThreads` | `AtMostOneLease` | A task freed by recovery's list of revoked leases may have been released and claimed anew since; recovery takes its assignee away and leaves the new lease, and the next claim makes two. |
| `BadPromotionRace`, `MCClusterThreads` | `PromotedInOrder` | A task whose lease a recovery has revoked is released before the recovery clears it; a peer sends it back to pending, with a dependency; recovery's unassign then makes it ready without looking at what it waits for. The propagation itself keeps the order. |
| `BadExtendDeadlock`, `MCLeaseManager` | `EveryCallReturns` | `extend` scans while it holds the lock that the expiry callback takes: with any lease overdue it waits for itself, holding everything up; it can also meet the scanner in the opposite lock order. `OthersReturn` shows that there is no third way. |
| `BadSyncDiverges`, `MCSync` | `Agrees` | A full state is applied through `set_task_status`, which counts a version of its own, and a message overwrites a version whatever it was: two copies come to rest with equal versions and different statuses. |
| `BadRecoveredTerminal`, `MCClusterCore` | `TerminalStays` | The older recovery reads a task, chooses a node and sets the status later: a task completed, cancelled or failed meanwhile runs again, without the node that was chosen. |
| `BadReturnReported`, `MCNodeWatch` | `OnlyOfflineReported` | The app's listener looks for "offline" anywhere in `old -> new`: a node that comes back is reported to be recovered, too. |
| `BadLostUnrecovered`, `MCNodeWatch` | `LostIsRecovered` | The watchdog reports the lost node, the listener queues it, and no one takes it from the queue. |

`Services` states three more that fail: `LoopsUntilStopped` (a pill left by a slow stop of the
detector ends the loop of the next start), `StopReturns` (with a full queue and no consumer, the
detector's `stop` waits for room for ever), `StartedIsServed` (a `start` of the sync loop is ignored
while the last thread is still about to end).

Plain disagreements seen while reading, which need no model to show:

* A lease can be posted for a task that has one (`POST /leases`; SPEC 8.1 says one node holds a
  task). `revoke` returns True for a lease that is already terminal. Nothing renews a lease
  (CHANGELOG, v0.4.0).
* A task is promoted at submission, before its dependencies can be declared, and cycles are accepted
  (SPEC 21). A completed task can be released, advanced or recovered back to ready (README: leases
  prevent duplicate execution); a failed task keeps its lease and may be scheduled to another node.
  Tasks placed by the scheduler have no lease, so the failure of their node is never recovered.
* The app feeds a detector that it never starts, mounts no dispatcher and emits no events. `leave` is
  undone by the watchdog's next pass, or, when it sticks, the node's tasks are never recovered. The
  app's heartbeat sender beats for `node_main`, which never joined; nothing beats for the core's own
  node. The capability cache of `NodeManager` outlives a re-join. `start` and `stop` of the sender are
  called safe from any thread and have no lock; disabling and enabling auto-recovery can leave two
  loops.
* ClusterCore: the node callback takes the length of a number, so that nothing is scheduled when a
  node comes online; blocked tasks are never unblocked; `schedule_task_to_node` starts pending tasks
  whatever they wait for; purging strands dependents; the recovery's new assignee goes to a copy; an
  offline node is not reported again after a restart, which loses the queue; a refused update rolls
  back what the watchdog has written and not committed. The default database is `":memory:"`, for
  which a restart begins from nothing.
* Sync: messages are numbered by what was received, so that two queued in a row carry one number and
  the second is rejected; `remove_peer` during a pass skips the next peer; an unknown status in a
  message makes every later read of the SQLite row fail; two-way snapshots of nodes with equal load
  swap for ever.
* Hooks: a lost answer delivers the same event again; `worker_count` limits nothing.

## 4. Proofs

The theorems hold for any tasks, nodes, threads, clusters, inputs and bounds that satisfy the
assumptions of the modules: `None` is not a node, requests carry subsets of the declared sets, bounds
are naturals, and where nodes or webhooks are counted there are finitely many.

| theorem | statement |
|---|---|
| `ClusterApiProofs!TypeCorrect` | `Spec => []TypeOK` |
| `ClusterApiProofs!IndexCorrect` | `Spec => []IndexNamesTask` |
| `ClusterApiProofs!LeaseExclusive` | `PeerSpec => []AtMostOneLease` |
| `ClusterApiProofs!ClaimableUnleased` | `PeerSpec => []UnassignedHoldsNoLease` |
| `ClusterApiProofs!LifecycleCorrect` | `Spec => LeaseLifecycle` |
| `ClusterApiProofs!OwnershipImplemented` | `PeerSpec => ImplementsOwnership` |
| `ClusterApiProofs!PromotedInOrder` | `PeerSpec => [][PromotionStep]_storeVars` |
| `ClusterApiProofs!LocalRunningHeld` | `LocalSpec => []RunningHasHolder` |
| `ClusterApiProofs!LocalCompletedUnleased` | `LocalSpec => []CompletedHoldsNoLease` |
| `ClusterApiProofs!FirstNodeUnique` | `Spec`: if a node is eligible for a task, exactly one is the first |
| `ClusterApiProofs!PassLeavesNone` | `Spec => [][PassStep]_storeVars`: a scheduling pass overlooks and misplaces no task |
| `ClusterApiProofs!LookupFinds` | `Spec`: a lookup finds an active lease of the task whenever there is one, and no other |
| `ClusterThreadsProofs!ThreadsTypeCorrect` | `Spec => []TypeOK` |
| `ClusterThreadsProofs!ThreadsLifecycle` | `Spec => LeaseLifecycle` |
| `ClusterThreadsProofs!HandlersExclusive` | `~AutoRecovery => (Spec => [](AtMostOneLease /\ UnassignedHoldsNoLease))` |
| `ClusterThreadsProofs!HandlersPromoteInOrder` | `~AutoRecovery => (Spec => PromotedInOrder)` |
| `ClusterThreadsProofs!HandlersSettle` | `~AutoRecovery /\ MaxSync = 0 => (Spec => []RunningHasHolder)` |
| `ClusterThreadsProofs!HandlersFreeNodes` | `~AutoRecovery /\ MaxSync = 0 => (Spec => []CompletedHoldsNoLease)` |
| `ClusterThreadsProofs!HandlersImplementOwnership` | `~AutoRecovery => (Spec => ImplementsOwnership)` |
| `ClusterThreadsProofs!TimelyExclusive` | `Spec /\ TimelyRecovery => [](AtMostOneLease /\ UnassignedHoldsNoLease)` |
| `ClusterThreadsProofs!TimelyImplementsOwnership` | `Spec /\ TimelyRecovery => ImplementsOwnership` |
| `ClusterThreadsProofs!ThreadsRightLeases` | `Spec => []RightLeases`: nobody revokes or reschedules for a lease of another task |
| `LeaseManagerProofs!LocksOwned` | `Spec => []TypeOK` |
| `LeaseManagerProofs!CalledBackOnce` | `Spec => []NotifiedOnce` |
| `LeaseManagerProofs!ExpiryCalledBack` | `Spec => []ExpiryNotified` |
| `LeaseManagerProofs!OneExtension` | `Spec => []ExtendedOnce` |
| `LeaseManagerProofs!OnlyExtensionsDeadlock` | `Spec`: while a thread is busy, one is not blocked, or `Deadlocked` |
| `LeaseManagerProofs!DeadlockForGood` | `Spec => [][Deadlocked => Deadlocked']_vars` |
| `SyncProofs!LastWriterOrdered` | `should_apply` is a strict order that decides between any two writes |
| `SyncProofs!MergeConverges` | keeping the winner of two writes is idempotent, commutative, associative |
| `SyncProofs!SyncTypes` | `Spec => []TypeOK` |
| `SyncProofs!VersionsBounded` | `Spec => []NoRunaway` |
| `SyncProofs!RetriesHarmless` | `Spec => RedeliveryIgnored` |
| `SyncProofs!OverwrittenByNewsOnly` | `Spec => [][NewsStep]_vars`: a copy changes with a higher version or by a message newer than all before |
| `ClusterCoreProofs!CoreTypes` | `Spec => []TypeOK` |
| `ClusterCoreProofs!ReadyAfterDependencies` | `Spec => []ReadyInOrder` |
| `ClusterCoreProofs!RunningPlaced` | `Spec => RunningHasNode` |
| `ClusterCoreProofs!DeletionFinal` | `Spec => StaysDeleted` |
| `ClusterCoreProofs!PropagationComplete` | `Spec => NoneLeftBehind` |
| `HooksProofs!HooksTypes` | `Spec => []TypeOK` |
| `HooksProofs!HistoryFaithful` | `Spec => []HistoryTellsTheEnd` |
| `HooksProofs!NothingForgotten` | `Spec`: until the history is full it has every attempt |
| `ServicesProofs!RunningServed` | `Spec => []RunningIsServed` |
| `ServicesProofs!LoopAlone` | `Spec => []OneLoop` |
| `ServicesProofs!StopLeavesNobody` | `Spec`: no thread is left after a stop, if none gave up |
| `NodeWatchProofs!WatchTypes` | `Spec => []TypeOK` |
| `NodeWatchProofs!OfflineRelayed` | `Spec => [][RelayStep]_vars`: news of an offline node goes from thread to queue to detector |

Every invariant is proved from a stronger, inductive one (`LeaseInv` in `ClusterApi`, `Alone` in
`ClusterThreadsProofs`, `Inv` in the others), which the initial states satisfy and each action keeps.

**ClusterApi.** Nothing in the store forbids a second lease. A claim needs a task without an
assignee, so `AtMostOneLease` follows if such a task has no active lease, `UnassignedHoldsNoLease`;
and this holds because release and recovery revoke before they free. A release revokes the one lease
that `get_by_task` finds; that it finds the right one needs `AtMostOneLease` again and
`IndexNamesTask` (the index does not lead to another task's lease). A peer may create a task that has
never existed, with no assignee: no lease may be waiting for it, which is `AbsentUnassigned`. Hence

    LeaseInv == TypeOK /\ IndexNamesTask /\ AbsentUnassigned
                /\ AtMostOneLease /\ UnassignedHoldsNoLease

`PeerSpec` leaves out only leases posted by hand, with which the two invariants are false. The
ownership theorem uses the invariant for the refinement mapping: with at most one active lease,
`heldBy` changes only from nobody to somebody or back.

Promotion and scheduling turn one table into another by `Moves`: pending to ready or running with
dependencies met, ready to running with a node. `Moves` is transitive, as completed stays completed,
so that passes may follow one another within a request. Every request is `Orderly`: what it writes
before those passes makes no task running, and completes one only whose lease is gone. The last part
needs `LeaseInv`: the one lease that completion revokes is the task's only one.

The models pick the scheduler's node by `CHOOSE` among the first eligible ones. That there is one is
well-foundedness of the finite set of nodes; that there is only one is the invariant `SeatsOK` (a
seat is the number of nodes that had joined before, nobody leaves the table).

**ClusterThreads.** The module of the proofs instantiates `ClusterApiProofs` as `Proved`, shows that
the two have the same operators and cites its lemmas. With the recovery thread, `Types` adds to the
tables what each place in a thread is sure to have (a task at a claim, a lease left at `revoke`, a
freed one at `unassign`), and every step is a `LeaseStep`. Without it, only the loop writes tasks and
creates leases, and the scanner can but take active leases away; so what a step of a handler has
found still holds at the next. `Alone` says so, place by place: `Claiming` (the task of a claim is
ready, has no assignee, then runs, then has one and no lease), `Revoking` (the lease found is the
task's only one; once revoked, the task is cleared), `Promoting` (a
dependency read as completed stays so until all are read and the task is promoted) and
`Recovering` (a recovery holds the only leases of as many tasks, cleared one by one, which keep their
assignee until it is their turn), next to the invariant of `ClusterApi` in the form `Exclusive`.
Without peers `Settled` is added: a running task without an assignee is the one being claimed, and a
completed task has no lease. Each family of steps has a lemma that proves `Keeps`. With the recovery
thread `Alone` is not kept, and `AtMostOneLease`, `RunningHasHolder` and `PromotedInOrder` are indeed
false: see the departures `BadRecoveryLease`, `BadReleaseRace` and `BadPromotionRace`.

What survives is said in two ways. `TimelyRecovery` restricts behaviours, not constants: whenever the
recovery thread unassigns a task, the task has no active lease and is not about to be given one. (The
code does not see to that, so it is a hypothesis on the behaviour and no assumption; the thread breaks
it only where somebody else frees a task of its list and it is claimed again within the run.) Under it
`Shared` is inductive: the leases are `Exclusive` and the loop is `Secure`, which is what is left of
`Alone` when statuses and assignees may change under a handler's feet. A recovery on the event loop is
always timely, as no claim comes in between. So an untimely unassignment is the *only* way to a second
lease. `RightLeases` needs no hypothesis: a lease keeps its task (`LeaseLifecycle`), so what a handler
has looked up, however long ago, is of its task, and what a recovery run revoked stays revoked.

**LeaseManager.** `Inv` adds to the types `Places` (which locks a call holds where it stands),
`Callbacks` (in memory a lease is marked before it is called back and whatever a scan has still to
retire is active, since the scan holds the lock), `Announced` (an expired lease was called back or is
being, and a scan of the SQLite store marks only what it has called back) and `Extensions`: a lease
that was extended is retired, or about to be by the thread that holds the manager's lock. So an
extension that finds its lease active under that lock is the first, though the scan in the middle of
it works on a reading.

`OnlyExtensionsDeadlock` is the safety side of `OthersReturn`. `Blocked` says that the lock a thread
needs for its next step is taken; the invariant `Errands` says which locks are taken by whom at which
step. A holder that is blocked itself must be calling back from its scan, and then either it extends
(and waits for itself) or it meets an extension (and they wait for each other). That a thread that is
not `Blocked` can take a step is an ENABLED and out of the prover's reach; evaluated with TLC it holds
in every state of the run.

**Sync.** A copy is `Earned` when its version is at most one above the number of changes and there
was a change if there is a copy. All copies on the way, in queues, batches and snapshots, are earned;
a full state raises a version only when the one received is higher, to at most that. For retries,
`PassOK` says that the messages a receiver has handled, and all of a batch that arrived once, are in
its log, which never goes down: so none of them is fresh again. The order of `LWWResolver` is proved
apart: the receivers of the coordinator do not use it. `NewsStep` says how much they do without it:
versions tell contents apart and never fall, but for a message that overwrites what is there.

**ClusterCore.** `ReadyInOrder` needs that a completed task is in `done` (`CompletedOnce`) and that a
verdict formed in an earlier transaction still holds when it is written (`ApiOK`: dependencies are
changed only by the serving thread, and what was completed once stays in `done`). A
dependent's verdict is `"ready"` only while every dependency that was read had been completed when it
was read: `ApiOK` says it of those that are no longer in `api.deps`, for the plans in `Judging`.
`RunningHasNode` is about steps: a task that runs without a node got there by the step before the
assignment, in the call that places it, or by recovery, whose tasks come from leases (`HasLease`,
`RecoveryOK`): then a lease had been taken for it before it had a node, as no call takes a node away.
Each lemma on a step proves `Kept`: the invariant, that deleted tasks stay deleted, and this. The
watchdog, the queue and restarts touch none of it but the types. `NoneLeftBehind` is
about a whole propagation, which is cut into transactions: `PropagationOK` says that every dependent
which is pending and waits for nothing is still among those the propagation has to look at, or is
the one it is judging, with nothing read so far that speaks against it. Between its transactions only the recovery thread changes statuses, and it makes no task pending or completed.

**Hooks.** `HistoryTellsTheEnd` is inductive with the types and `RecordsKnown`: a record that is
appended is the last of its delivery and follows the one before, and dropping the first record drops
the earliest of its delivery only. `Complete` adds that nothing is dropped before the cap is reached.

**Services.** `RunningIsServed` rests on `Serves` (the last thread is the one alive) and `Signals` (a
running service has not been told to stop, and only the detector has pills in its queue); `OneLoop`
on `Alone`: without a stop that gave up, only the last thread is alive, and none when the service can
be started, of the sync coordinator either, whose `start` asks the thread instead of a flag.

**NodeWatch.** Types, with what is not a type in them: the pass looks only at known nodes, a status
change under way is a real change, the queue keeps its bound. `OfflineRelayed` follows step by step:
whoever has written the status is the one to report it, and the queue loses its head only.

Every safety property of the runs is proved. Model-checked only is all liveness (fairness and ENABLED
are out of the prover's reach): `RecoveryEnds`, `OthersReturn`, `OverdueRetired`, `CatchesUp`,
`RecoveryRevokes`, `Settles`, `LostIsReported`, `NoRecoveryStorm`, `EveryDeliveryEnds`,
`StoppedEnds`.

## 5. Not modelled, and the plan

Left out for good: federation registry (a dictionary; forwarding a task is a placeholder),
configuration files and the setup wizard, status and visualisation pages, plugin and server entry
points, HTTP and SQL text. Within the modelled parts: the scheduling and recovery logs, statistics,
filters and sorting of the task manager, the watchdog's `check_now`, the assignees and the node table
of a sync snapshot, the length of waits, and claims with an empty node id (`LeaseManager.create`
refuses it after the task has been set to run: the task stays so under the empty id, without a lease;
all ids in the models are names).

Next: the batches of a sync snapshot with assignees, and the safety side of the liveness properties
that have none yet (that a silent node known to the detector is not dropped is `OfflineRelayed`; that
a delivery or a stopped loop always has a step left would be such, too).
