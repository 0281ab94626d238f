# Kubernetes 1.13.4: the machinery of its controllers in TLA+

This directory is a verification project for the Kubernetes source under
`src/src/kubernetes-1.13.4/` (below, `k8s/`; `client-go/` stands for
`k8s/staging/src/k8s.io/client-go/`). It holds TLA+ modules translated from the Go
code, TLC configurations that model-check them on small instances, and proofs that
TLAPS checks. `PROJECT.json` lists every run, mutant, theorem, hazard and finding,
and maps each definition to the source lines it models.

Kubernetes is two million lines. All its controllers, the scheduler and the
kubelet rest on one small concurrent core: a **work queue**, the **delaying and
rate limiting** wrapper that retries, the **shared informer** that mirrors the API
server, and **leader election**. A fault there is a fault of everything, tests
hardly reach its interleavings, and it is small enough to be modelled whole.
The project starts with this core, and goes on with four of its users and of the
parts it rests on: the **ReplicaSet controller**, the **scheduler's cache**, the **kubelet's pod
workers**, and the **API server's storage** with its watch cache.

## 1. Inventory

| Component | State | Operations | Talks to | What is hard | What makes it correct |
|---|---|---|---|---|---|
| Work queue `client-go/util/workqueue/queue.go` | `queue`, `dirty`, `processing`, `shuttingDown`, a condition variable | Add, Get, Done, ShutDown | every controller's workers | an item added while it is processed; signals that wake the wrong worker; shutdown with workers anywhere | no item is processed twice at once, none is lost, a wakeup is never lost, workers drain and exit |
| Delaying queue `delaying_queue.go` | channel `waitingForAddCh` (capacity 1000), heap and map of waiting entries, timer, `stopCh` | AddAfter, waitingLoop, ShutDown | the work queue; callers block on its channel | a full channel, two requests for one item, a stale timer, shutdown in two steps | nothing dropped, postponed or added early; retries happen; shutdown frees everybody |
| Rate limiters `default_rate_limiters.go`, `rate_limitting_queue.go` | failures per item | When, Forget, NumRequeues | delaying queue | bounds of the exponential | backoff grows to its bound and is reset |
| DeltaFIFO `client-go/tools/cache/delta_fifo.go` | `items`, `queue`, `populated`, `initialPopulationCount`, `closed` | Add, Update, Delete, Replace, Resync, Pop, Close, HasSynced | fed by the reflector, reads the indexer (`knownObjects`), popped by the controller loop | it compares with an indexer that is behind by what is pending; Close and Pop use different locks | queue and items agree; deltas are in order; HasSynced is exact; Pop returns after Close |
| Reflector, controller loop `reflector.go`, `controller.go` | last resource version, the watch, resync timer | ListAndWatch, watchHandler, Run, processLoop | API server, DeltaFIFO | watches that fail between events, relists over pending deltas | the indexer converges to the API server |
| Shared informer `shared_informer.go` | indexer, listeners, syncing listeners | HandleDeltas, distribute, shouldResync, AddEventHandler, Run | DeltaFIFO, event handlers | handlers that join late or have other resync periods | every handler knows what the indexer knows; no ghosts |
| Leader election `client-go/tools/leaderelection/` | observed record and time, reported leader, the deadline; the lock is an annotation of an API object | Run, acquire, renew, tryAcquireOrRenew, Check | API server, clock | calls that fail after they took effect, late updates, local clocks, a deadline that starts late | one leader at a time, who holds the lock; nobody takes the lease over early |
| ReplicaSet controller, expectations `k8s/pkg/controller/` | expectations, UIDs of pods to be deleted, informer caches | syncReplicaSet, manageReplicas, event handlers | informers, work queue, API server | syncs on a stale cache, expectations that expire, calls that fail halfway | never more creations than replicas missing, no wait in vain, convergence |
| Scheduler cache `k8s/pkg/scheduler/internal/cache/` | assumed pods with deadlines, pods per node, nodes | AssumePod, FinishBinding, ForgetPod, Add/Update/RemovePod, Add/RemoveNode, cleanup | scheduleOne, binding goroutines, informer events, error function | a binding that fails late or in secret, expiry against a late Add, another pod of the same name | each pod counted once, on its node; the process does not crash; no assumed pod stays |
| API server storage `k8s/staging/src/k8s.io/apiserver/pkg/storage/` | etcd revisions; store, window of events and watchers of the cacher | Create, Delete, GuaranteedUpdate, Watch, dispatchEvents | etcd, clients | stale suggestions, the limits of the window, watchers registered while events are on their way, a watch of etcd that breaks | answers are true of etcd; watchers miss, repeat and reorder nothing |
| Kubelet pod workers `k8s/pkg/kubelet/` | channel, goroutine, last undelivered update per pod | UpdatePod, managePodLoop, ForgetWorker, killPodNow | sync loop, runtime, eviction | forget and recreate while a sync runs, one place for waiting updates | sends find room, one sync per pod at a time, the latest update is synced, kills are answered |
| Volume operations, garbage collector, node lifecycle, proxy | pending operations; the owner graph; timers | | | | see section 8 |
| Admission, kubectl, kubeadm, API types, cloud providers | none over time | | | | not modelled: stateless, generated, or calls to external systems |

The parts meet like this: API server &rarr; reflector &rarr; DeltaFIFO &rarr; HandleDeltas
&rarr; indexer and handlers &rarr; work queue &rarr; workers &rarr; API server, with failed syncs
taking the detour through the rate limiter and the waiting loop; leader election
decides whether the whole pipeline runs. The workers of a ReplicaSet create pods, the scheduler
binds them (assuming first, learning from its informer later), the kubelet syncs them; all of them read
through the watch cache and write through the etcd store.

## 2. Modules

| Module | Models | Extends |
|---|---|---|
| `WorkSet` | the abstract promise of a work queue: pending and running items | |
| `WorkQueue` | `queue.go` with the workers that use it; `RefinesWorkSet` instantiates `WorkSet` | |
| `RateLimitingQueue` | the delaying queue, the limiters and the worker loop of the ReplicaSet controller | `WorkQueue` |
| `DeltaFIFO` | `delta_fifo.go` with the goroutine that pops | |
| `SharedInformer` | API server, reflector, resync, HandleDeltas, handlers, shutdown | `DeltaFIFO` |
| `LeaderElection` | candidates, the API object that is the lock, calls in flight, time | |
| `ReplicaSet` | `replica_set.go` and the expectations of `controller_utils.go`, with the pod informer as the controller sees it | |
| `SchedulerCache` | `internal/cache/cache.go` with scheduleOne, bind, handlers, expiry and the error function | |
| `PodWorkers` | `pod_workers.go` with the sync loop's handlers and killPodNow | |
| `Store` | `etcd3/store.go`: one object in etcd and the requests that change it | |
| `Cacher` | `cacher.go` and `watch_cache.go`, which feed on the log of `Store` and give it suggestions | `Store` |
| `SequenceFacts` | lemmas on Append, Tail, concatenation and enumerations | |
| `WorkQueueProofs` (with `RateLimitingQueue`), `SharedInformerProofs`, `LeaderElectionProofs`, `ReplicaSetProofs`, `PodWorkersProofs`, `SchedulerCacheProofs`, `CacherProofs` (with `Store`) | theorems | the module each is named after |
| `MC*` | the instances for TLC, with symmetry where it is used | the module each is named after |

Definitions named like a variant of another one (`AddNewSilent`, `GetItemLIFO`,
`ExpiredAtDeadline`, ..., or marked "Slip") are the mutants: plausible mistakes in the definition
that follows, each of which a property must catch. They are not part of a
specification.

### WorkQueue

The variables of `Type` keep their names. A worker is at `get` (about to call
Get, or awake in it), at `wait` (in `cond.Wait`), at `work` (it `held`s an item),
or at `exit`. Every critical section of `queue.go` is one action: the mutex makes
it atomic. `Get` is three actions, since `cond.Wait` releases the lock: `GetWait`
(the loop's condition holds), `GetItem`, `GetShutdown`. `Signal` moves one sleeper,
any of them, to `get`, `Broadcast` all; a woken worker competes with those that
arrive, as with `sync.Cond`. `Done` removes the item from `processing`, and queues it
again and signals if it is dirty. Metrics and `Len` change no state of the queue.

### RateLimitingQueue

Time is relative: every entry carries the ticks `left`, and `Tick` lowers all of
them, so no absolute clock bounds the run. `waitingLoop` is modelled at the grain of
its blocking points: `LoopTop` (test of `shuttingDown`, take what is due, compute
`nextReadyAt`), `AddReady` (one `q.Add` for each due entry, each with its own
lock), `StartTimer` (when there is nothing left to add), then the select: `SelectStop`,
`SelectTimer`, `SelectHeartbeat`, `Receive` and the inner drain loop (`Receive` again,
`Drained`). `Insert` keeps the earlier of two times. `AddAfter` tests
`shuttingDown`, adds at once if the delay is not positive, and otherwise blocks on the
channel: `sending` is the entry a caller is stuck with, `Send` hands it over or
leaves through `stopCh`. `ShutDown` is two steps (`BeginShutDown`: the inner queue;
`CloseStop`: `stopCh`), as in the code. Workers run `processNextWorkItem`
of the ReplicaSet controller: get, sync, then `Forget` or `AddRateLimited`,
then `Done`; a worker that blocks in `AddRateLimited` still holds its item. `When` is
the maximum of the exponential limiter and of the token bucket, which is modelled as
any delay.

### DeltaFIFO and SharedInformer

An object is its version, 0 if there is none. `items[k]` is the sequence of deltas of a key
(empty: the key is not in the map), `store` is the indexer (`knownObjects`),
`popper` is where `processLoop` is. `Pop` includes the whole of its `process`
callback, since the code holds `f.lock` meanwhile. Where Pop tests `IsClosed` and then
waits there are two steps (`PopEmpty`, `PopWait`), because `Close` does not take
`f.lock`; all other operations need the lock (`Lockable`). `Replace` iterates over
Go maps: the order in which new keys join the queue is any (`Joining`).
A `Tombstone` is a Deleted delta that carries `DeletedFinalStateUnknown`; it matters to
`dedupDeltas`, which keeps the other of two deletions.

The API server is the `log` of all changes. The reflector always lists with resource version 0, which
any cache may answer (`reflector.go:172-175`): a list returns the state at any version, also one older than
what this reflector has read, and the reflector goes on from there. `back` has the keys such a list took back in time, and its size
is bounded by `MaxBack`. A watch delivers the next change, `WatchFails` goes back to the list. `ShouldResync` and `ResyncStore` are
two steps, because the code calls `shouldResync` and `store.Resync` under different locks.
`view[l]` is what handler `l` knows after it has handled all it was sent. History
variables: `awaited` (keys of the first list not popped yet), `last` (newest
version ever stored), `back`, `blind` (keys that a Replace mistreated, see the findings).

### LeaderElection

Time is in whole seconds, the precision of the times in the stored record. `tryAcquireOrRenew`
is a little program per candidate (`pc`): `Begin` takes "now" and calls Get, `HandleGet` is
the moment the server answers, `Decide` compares and either gives up or calls Update,
`HandleUpdate` / `UpdateConflicts` / `UpdateFails` is what the server does, and
`Succeeded` or `AnswerLost` how the caller learns of it. Create and Update are one: an
update with the version read, 0 if there was no object. A caller that gives up may leave its update in `late`, and
`LateUpdate` handles it at any later time. `renew` alternates between pauses and rounds
(`BeginRound` sets the deadline, `RoundFails` gives up); the goroutine of an attempt may
outlive its round, and goes on. `Halt` is the end of Run by cancellation, or the crash of a process.
Records that a client has written carry the monotonic clock (`exact`), those it reads
do not (`Stored` models the JSON round trip), so the two are never equal and
`observedTime` is set again when the client reads its own record back.

### ReplicaSet

One ReplicaSet. `server` is what the API server has of each pod (live, dying, gone, none), `cache`
what the informer's store shows, `notes` the notifications the handlers have not had yet: the three lag behind
one another pod by pod. `Watch` brings the events of a pod one by one, `Relist` skips the creation of a pod. `HandlePod`
is addPod, updatePod and deletePod. The controller starts (`RSInit`) when its caches have synced, which does not mean that its
handlers have run: there may be pods already (`Inherited`), the first list may be older than the server (`Shown`), and the notifications of the pods it
has shown are still to be handled (`startup`). An "add" is a creation observed, an update with a deletion
time or a delete is a deletion observed, once per UID. A sync is a little program: `SyncBegins` looks at the
expectations, `ListPods` at the pods (in this order, at two times), `ExpectCreations` or
`ExpectDeletions` sets the expectations, `CreatePod` and `BatchEnds` are slowStartBatch with its doubling batches,
`DeletePod` the deletions in any order, `SyncEnds` updates the status and requeues after an error. A creation may succeed, time out
(which the code counts as a success), fail, or fail after it took effect. `Expire` is the
ExpectationsTimeout. History variables: `blind` (the controller is
allowed to be wrong: an answer was lost, or unfulfilled expectations expired), `missed` (it waits for a creation nobody will
tell), `external` (pods somebody else deleted), `carried` (by how many pods what went before the start misleads the controller: those the first list
did not show, and the addPod calls of the start that lowered expectations set since; 0 again at the first list of pods after all other creations were told).

### SchedulerCache

`c` is the cache as a record, and each of its operations a function from cache to cache, for it runs under the
lock. `pods[n][u]` counts how often pod `u` is in the NodeInfo of `n`, so that double counting is
visible; `down` is what follows a nil dereference or `klog.Fatalf`. The pods of one name are created one after the other with
new UIDs (`object`), the informer tells the handlers each state in `stream`, and `Relist` drops what is between two states, which turns two
pods into an update (`merged`). `Schedule`, `Assume`, `Bind`, `Finish`, `Forget` are
scheduleOne and its goroutine; the API server binds by name (`k8s/pkg/registry/core/pod/storage/storage.go:152-190`), so the binding of a pod that was
deleted may be accepted for its successor. A binding may fail before, without or after its effect, or be made
by another scheduler (`ChangePod`). `Expire` is cleanupAssumedPods, `ErrorRemovesNode` and `Retry` are
the error function (`removed` remembers that it removed a node).

### PodWorkers

A worker is a goroutine with its channel; `podUpdates` says which worker a pod has now. A worker that is forgotten
(`removeWorkers`) has its channel closed, finishes what it is at, and may do so beside a new worker for the same
pod. `Deliver` is the decision of UpdatePod: send if `isWorking` is false, else keep one update and never replace a kill.
`Receive`, `SyncBegins`, `WrapUp`, `checkForUpdates`, `Exit` are the
loop. The handlers of the sync loop (additions, updates, removes, syncs, the work queue, cleanups) call UpdatePod or
removeWorkers; `killPodNow` is called for a pod chosen some time before (`Choose`), and may time out. History: `taken` (the version of the last sync begun), `fate` (of
each kill).

### Store and Cacher

`log` is the object at each revision of etcd. An object is known by its mod revision, and the UID by
the revision of its creation. A request may expect a revision (tryUpdate returns a conflict), a UID (the
preconditions), or neither. `GuaranteedUpdate` starts with the cacher's suggestion (`stored`) or with `getCurrentState`;
`Try` is the top of the loop, `CheckData` the refetch before a no-op is believed, `Txn` the compare-and-swap with its
read on failure. A conditional delete takes the same way from `getCurrentState`.

In `Cacher`, `terminateAllWatchers`, `Replace`, `processEvent`, `WatchBreaks` are startCaching and the
reflector under it. `processEvent` puts an event into the window and into `incoming` under the lock of the
watch cache; `dispatchEvent` hands it to the watchers whose index it concerns and stops those
whose channel is full. `Watch` is two steps, since nothing is locked between `ready.wait` (`WatchReady`) and the registration (`Register`
or `TooOld`). A watcher sends its initial events, then what comes in that is newer (`SendInitial`, `SendNext`), as the type the
selection makes of it (`Heard`). `After` finds the first event of the window to send, as the binary search does. `Told` is the reference: what a client that
knows the object as of a revision has to hear of a later one, computed from the log alone. `doubtful` marks the two
registrations that go wrong (section 4).

## 3. Runs

| Run | Instance | Shows |
|---|---|---|
| `workqueue` | 3 items, 2 workers | `QueueIsDirtyWork`, `ExclusiveProcessing`, `NoLostWakeup`, `DrainedOnExit`, `WorkersExit`, and that the queue implements `WorkSet` with its fairness |
| `delaying` | 2 items, a worker, another caller, channel of 1, delays up to 1 | `NoRetryLost`, `NeverPostponed`, `NeverEarly`, `RetryHappens`, `ShutdownCompletes` |
| `informer` | 2 keys, 2 changes, 1 handler, at most 3 deltas per key, one list that goes back in time | `QueueListsItems`, `SyncedMeansPopped`, `DeltasInOrder`, `StoreMatchesUnlessBlind`, `NoGhostObjects`, `Converges` |
| `informer_relist`, `informer_handlers`, `informer_close` | smaller | violations, section 4 |
| `election` | 2 candidates, LeaseDuration 5, RenewDeadline 2, RetryPeriod 1, latency 1 | `AtMostOneLeader`, `LeaderHoldsLock`, `LeaderIsHealthy`, `TakeoverAfterLease` |
| `election_overlap` | LeaseDuration 4, RenewDeadline 3, RetryPeriod 2, latency 0 | violation, section 4 |
| `pod_workers` | 1 pod, 2 goroutines, 2 kills, 2 versions | `SendsFindRoom`, `OneSyncAtATime`, `LatestIsSynced`, `KillsAreDelivered` |
| `replicaset` | 3 names of pods, 1 to 3 replicas, burst 2, 1 change, 1 fault or pod that is there at the start | `NoOverCreation`, `KeepsNoDoomedPod`, `NoVainWait`, `ReplicasConverge` |
| `scheduler_cache` | 2 pods of one name, 2 nodes, 1 change, 1 fault | `PodsCountedOnce`, `AddedIsWhatWasTold`, `NoCrash`, `PodsSettle` |
| `storage` | 1 object of 2 values (one indexed), 4 revisions, one goroutine that updates or watches, window of 2, channels of 1, one break | `AnswersAreTrue`, `WatchIsConsecutive`, `WatchersHear` |

**Bounds.** Two workers are enough for every pair of critical sections to
interleave, and the third item makes a signal wake a worker for an item that is gone.
A channel of one entry is full as soon as it is used, which is the interesting case
of the 1000 in the code; two items let one request overtake the other; with
delays of 0 and 1 tick two requests for a key differ by when they were made, and longer delays are covered by
the theorems. `MaxFailures` caps the failure count only: a failure
beyond it still retries, with the same delay. Two changes create and delete an
object, or two of them, with lists and watch failures in between, and a list that goes back makes an object come again after
its deletion; the second key makes queue order matter. `informer_relist` has a third change. `MaxDeltas` stops a list, event or resync that would
make a fourth delta until there is room. Two candidates: a third takes part only as one of the two
already there. `MaxTime` 5 lets a lease observed in the first second be taken
over in the last, and a leader renew several times, fail and give up; a takeover from a
client that had renewed before needs more time than TLC has, and is covered by the theorems, which
have no bound on time. Symmetry is used over the candidates only, in a run without
liveness properties.

One pod suffices for the pod workers, whose state is per pod; two goroutines are the forgotten one and its
successor, and a third is made only after one has ended. In the ReplicaSet, going from
three replicas to one deletes two pods at once, so that a deletion told twice could be taken for the other; names of pods
are used again, and a sync begins its list only if there are names for what is missing. A pod that is there at the start counts as the
fault, and one that was deleted before as the change too, so the start is explored without further faults; the inductive invariant was also checked with
two such pods. Two UIDs of one name and two nodes are what
a relist can confuse; at most one goroutine binds a pod at a time. Four revisions are create, update, delete and create
again, and fill a window of two events; a request starts only while etcd has a revision left for it, and a watch is the last
thing the goroutine does. Changes and faults are capped at one each, which
may come in any state: combinations of two are more than TLC can do in its time, and are not covered.

**Deadlock** is checked in the work queue and pod worker runs. In the others
the bounds end the behaviour (`MaxRV`, `MaxTime`, `MaxRev`, everybody stopped, the ReplicaSet gone, the scheduler
down).

**Fairness.**
- `WorkQueue`: a worker that can take a step at Get, or that holds an item, does
  (WF): goroutines are scheduled, a `sync.Mutex` does not starve, sync functions return.
  Nobody has to add or shut down.
- `RateLimitingQueue`: as above, and a blocked sender is served in order (SF of `Send`),
  a select picks at random among ready cases (SF of `Receive`), time passes. Whether a sync
  fails is not fair: it may fail forever. SF of `Drained` is a real assumption: the inner
  loop of `waitingLoop` that drains the channel has no bound, so senders that are fast
  enough could keep it from the entries that are due.
- `SharedInformer`: lists are answered and watches deliver again and again (SF of
  `ListAndReplace` and `WatchEvent`), the goroutines run (WF; the one that pops is one goroutine, `HandleDeltas \/ PopperStep`). The caches that
serve lists catch up, so from some time on no list goes back (`<>[][rv' >= rv]_rv`): the code relies on it, since a
reflector that is given old lists again and again never catches up. Neither failures nor changes are fair.
- `LeaderElection` has safety properties only.
- `PodWorkers`: goroutines run, a pod in the work queue has its turn, a call that has chosen its pod goes on (WF).
  SF of `SyncBegins`: now and then GetNewerThan returns a status, so a pod is not kept from syncing by the runtime for ever.
- `ReplicaSet`: the worker, the informer and its handlers run, expectations expire, the informer resyncs
  (`UpdateRS` without a change), the kubelet removes pods (WF). Faults and changes are bounded and not fair.
- `SchedulerCache`: goroutines, handlers, scheduling and the loop of cleanupAssumedPods run as long as the process does
  (WF). Faults are not fair.
- `Cacher`: the reflector, the dispatcher and each watcher's goroutine run (WF). Nobody has to write, watch or stop.

**Assumptions on time** in `LeaderElection`, all in `InTime`: an attempt somebody waits
for ends within `MaxLatency` (the timeout of the API client); the timers of a
leader are served in the second they fire; all clocks run at one rate.
Candidates that do not lead may be arbitrarily late.

Every property of a passing run has a mutant in `PROJECT.json` that it catches.

## 4. Findings

1. **A relist over pending deltas loses changes** (`informer_relist`). `Replace` looks for
   deletions in the indexer only (`delta_fifo.go:491`): an object that is pending and not
   yet stored, and gone from the new list, is stored afterwards and stays. And
   `queueActionLocked` (316) drops the Sync of an object that was created again while its
   deletion is pending. In both cases the watch has seen everything, the queue
   is empty and the indexer is wrong until the object changes or the next list.
   `StoreMatchesUnlessBlind` and `Converges` show that these are the only two ways.
2. **A list tells only handlers that are syncing** (`informer_handlers`). What a list brings, the first or a later one, are Sync deltas, which
   `distribute` sends to `syncingListeners` only (`shared_informer.go:404`); a handler with another
   resync period, or none, does not hear of a new object.
3. **Close can miss Pop** (`informer_close`). `Close` broadcasts without `f.lock`, between Pop's test and its wait
   (`delta_fifo.go:142`, 419-423); the processing goroutine then sleeps forever.
4. **LeaseDuration > RenewDeadline is not enough** (`election_overlap`). The deadline of a round starts after the pause
   before it (`leaderelection.go:220-227`), so a leader may last
   RetryPeriod + RenewDeadline after its last renewal. `LeadersExclude` proves that
   LeaseDuration > latency + RetryPeriod + RenewDeadline suffices. The defaults (15s, 10s, 2s) leave three seconds.

Found while modelling the other parts, and shown by the exceptions their properties had to make
(`merged`, `removed`, `doubtful`, "lost", `carried`; these properties say that there is no other way, and do not cover the case itself; TLC finds a counterexample without them):

5. **The scheduler can end itself.** When a pod is deleted and another of its name is bound to another node while the watch is broken, the
   informer's list makes an update of it, and `UpdatePod` calls `klog.Fatalf` (`cache.go:328-331`). And `RemoveNode` does not look
   whether there is a NodeInfo (`cache.go:442-443`): it crashes if the error function (`factory.go:1511`) has removed the node before
   the informer's handler does, or after.
6. **A watch can miss events silently.** `Watch` waits for `ready`, but registers later without looking at it again (`cacher.go:298-353`). If the watch of
   etcd breaks in between and `terminateAllWatchers` has run, the new watcher is given the old window and stays registered: what the
   list replaces is never sent to it, and it is not stopped.
7. **A watch from 0 can go back in time** if there is no object but there are events on their way: no initial event moves its
   start (`cacher.go:338-343`, where the comment says that buffered events "won't be delivered to this watcher second time causing
   going back in time").
8. **A precondition is held against a stale suggestion.** `GuaranteedUpdate` refetches before it believes a conflict or a no-op, but not before it
   returns a precondition that fails (`store.go:285`).
9. **A kill is not always delivered.** `pod_workers.go:62-66` says that a kill "is always delivered"; but a kill is dropped while
   another one waits (230-233), and with the worker when the pod is forgotten (242). The caller then waits for its timeout.
10. **A start over existing pods can create too many.** `WaitForCacheSync` waits for the caches, not for the handlers (`replica_set.go:185`). The first sync can set its
   expectations before addPod has run for the pods of the first list; each of these calls is then counted as a creation (276), so `SatisfiedExpectations`
   is true before "the required adds/dels for the given controller have been observed" (`controller_utils.go:178`), and the next sync, with a cache that
   does not show the new pods, creates them again. TLC finds it if `carried` is left out of `NoOverCreation`, which bounds the damage by one
   pod for each such call.

Two comments that differ from the code without a run: `default_rate_limiters.go:65` speaks of
10^n where the code computes 2^n, and `leaderelection.go:220` says renew returns as soon as an
attempt fails, where it retries until RenewDeadline.

## 5. What is proved

All theorems hold for every value of the constants that satisfies the named
`ASSUME`s of the modules: any items, any finite set of workers, any capacity and delays, any
keys and handlers, any number of candidates, any durations, unbounded time and histories
(the bounds `MaxRV`, `MaxTime`, ... are arbitrary naturals).

- **Work queue** (`WorkQueueProofs`). `WorkInv == WQTypeOK /\ QueueIsDirtyWork /\ ExclusiveProcessing`
  is inductive: that `Add` may queue an item needs to know that the queue has no other
  copy, which is the exact equality `Range(queue) = dirty \ processing`; and that
  `Done` frees its item needs that nobody else holds it. `WakeInv == WQTypeOK /\ NoLostWakeup` counts:
  each action that makes the queue longer wakes a worker (`SignalWakes`), each that takes
  a worker from Get finds the queue empty or shortens it. `ExitInv` adds `DrainedOnExit`.
  `ProcessingIsExclusive` is the part
  of it most users rely on. `RefinesWorkSetSafety`: every step is one of `WorkSet` or a stutter.
- **Rate limiting queue** (`WorkQueueProofs`). `ImplementsWorkQueue`: `RLInv == RLTypeOK /\ WorkInv`
  is inductive, and under it every step is a step of `WorkQueue`; the types are needed because
  what comes out of the channel must be an item. This is little by itself, for the code reaches the inner queue through its interface only; but all
  theorems on the work queue carry over (`RateLimitingSafe`).
  `RetriesAreKept` (`NoRetryLost`): as long as a worker has not called Done on an item whose sync failed, its retry is offered to the channel, in the
  channel or the heap, or the item is dirty. `RetryInv` follows the entry through these places (an entry leaves the heap for the inner queue only); it needs
  besides that `stopCh` is closed only after ShutDown has begun, so that nobody gives an entry up before, and that a worker that is about to call
  Done still holds its item.
  `DelaysAreKept` (`NeverEarly`) needs one fact more, `ReadyIsDue`: what the loop has taken from the heap to add was due when it
  did and has no time left, since `left` only falls. `RequestsAreKept` (`NeverPostponed`) follows a request from the channel through `Insert`
  into the heap (`Kept`): in each step there is an entry of the item that is due no later, or the item is added.
- **Informer** (`SharedInformerProofs`). `InformerInv == FIFOInv /\ LogInv /\ AwaitInv /\ ViewInv`.
  `FIFOInv` is the agreement of items and queue and that no key has two deletions in a row. `AwaitInv`
  is the reason HasSynced is exact: the keys of the first list not yet popped are exactly the first
  `initialPopulationCount` keys of the queue, and whatever is queued later goes behind them
  (`FirstStays`). `ViewInv` is that no handler knows an object the indexer does not
  have. From it: `QueueAndItemsAgree`, `HasSyncedIsExact`, `NoGhosts`.
  `DeliveryInv` adds `OrderInv`, which follows one key through its history at the API server (`History`, `Steady`: versions
  are revisions, an object that is back is newer). `Sound`: every pending delta is from that history, and each deletion, pending or done, has a
  revision that witnesses it, after everything it deletes. A delta with what the reflector reads now then fits behind all others
  (`SoundAppend`), and a pop only moves the boundary (`SoundPop`). A list that goes back keeps `Sound` for the keys that did not change in between, for which
  it reads what the reflector has read before; the others are in `back` and excepted from `Sound`, not from `Final`. `Final`: a key that is not in `blind` comes to
  what the reflector has read. From these: `DeltasStayInOrder` (`DeltasInOrder`), `StoreCatchesUp` (`StoreMatchesUnlessBlind`, so the two ways of
  finding 1 are the only ones, for any history) and `TypeCorrectness`.
- **Leader election** (`LeaderElectionProofs`). `LeaseInv == LETypeOK /\ PastInv /\ UpdateInv`:
  no record is younger than the moment it was observed at (`PastInv`), and an update the server may
  still accept, awaited or late, renews its holder's own lease or was begun LeaseDuration after
  the last renewal of the record it replaces (`UpdateInv`). This gives `LeaseIsRespected` (`TakeoverAfterLease`) for **any** configuration.
  `LeaderInv` adds, per client (`ClientInv`): attempts and rounds are in time, a leader has renewed within
  latency + RetryPeriod + RenewDeadline, holds the lock, and nothing under way from it or from others
  can take it away. Under `LeaseIsSafe` it yields `LeadersExclude`: one leader, who holds the lock
  and knows it, and is healthy. `LeadersHoldTheLock` and `LeadersAreHealthy` state the last two by themselves.
- **Pod workers** (`PodWorkersProofs`). `PodInv == WorkersInv /\ RestTypeOK`, for any pods, goroutines and kills. As long as `isWorking[p]` there is
  exactly one update of `p`, in its channel or in the hands of its goroutine, and else there is none (`TokenInv`); each channel has at most one
  reader (`OwnInv`). The lock is held by who sends, so the channel of capacity 1 has room (`SendsNeverBlock`), and there is one
  goroutine that can be in syncPod (`SyncsExclude`), also when a pod is forgotten and comes back while its old goroutine still runs.
- **Scheduler cache** (`SchedulerCacheProofs`). `SCInv` holds until the informer has merged two pods of one name (finding 5): every pod of the
  cache is counted on the node of its state and on no other (`Counted`); the pod that is added is the one the informer has told, every
  other is only assumed (`Agrees`); in the events still to be told a UID is not given twice, a pod stays on its node,
  and between two pods of the name is a deletion (`StreamInv`), which is what keeps `Agrees` and `klog.Fatalf` away from each other; and the
  cache has the nodes it was told of, unless one was taken away behind its back (`NodesInv`). From it: `CountsEachPodOnce`, `AddsWhatWasTold`,
  and `CrashesOnlySo`: the scheduler ends itself in no other way than finding 5 describes.
- **ReplicaSet controller** (`ReplicaSetProofs`). The invariant is `BaseInv /\ TrustInv`. `BaseInv` is what holds whatever the controller knows: of each pod (`PodInv`),
  the cache follows the server and the notifications follow the cache, an `add` first of all (`Shape`); and the controller deals only
  with pods the cache has shown. `TrustInv` says that the expectations are exact. They are not too low (`SeesInv`): the creations planned and those not told (`Untold`, less the pods of the start, `Unseen`) are
  at most `exp.add` and what was `carried` over from before the start, the UIDSet is at most `exp.del` and has every pod that the controller has deleted and the cache still shows as live (`Doomed`). So when they are fulfilled,
  all three sets are empty (but for `carried` creations), and a sync that may act knows all that was done (`KnowsInv`); this is why the expectations must be looked at before
  the pods are listed. And they are not too high (`WaitInv`). Each step
  is an exchange between these: a creation moves from planned to untold, a batch that is skipped takes both sides down, a failed deletion takes its UID
  with it, so that the second notification of the pod changes nothing. From it: `NeverTooManyPods` (`NoOverCreation`), `DoomedPodsDoNotCount` (`KeepsNoDoomedPod`)
  and `WaitsAreNotInVain` (`NoVainWait`). What `blind` and `carried` excuse is stated in the properties themselves.
- **Store** (`CacherProofs`, `StoreAnswersTruly`). `StoreCacheInv == StoreInv /\ CacheBehind`. The log is only appended to, so what `ModRev` and `Uid` say of a
  revision stays true (`LogGrows`); an object that was read since the call began was there during the call, and one that comes
  from the cache was there at some time (`CacheBehind`), which is why it must be looked at again (`UpdaterInv`, one case for each place a handler can be at). A precondition
  that fails is not looked at again (finding 8), and the theorem says nothing of one that is held against the cache.
- **Watch cache** (`CacherProofs`, `WatchesAreConsecutive`). `WatchInv == CacheInv /\ CallTypeOK /\ \A w : WatcherInv(w)`.
  `CacheInv`: the window has every change from the oldest it can deliver, and the events on their way are changes, in
  order. `WatcherInv` has three parts. `LifeInv`: a watcher is listed from its registration to its end. `HeardInv`: up to the last thing
  heard, nothing is missing. `LiveInv`, as long as it is listed: each change the client has to hear of was heard, or waits
  in exactly the right place of three queues (initial events, its channel, what is on its way) that follow each other in order. When a
  watcher is registered (`RegisterFacts`) the initial events and what is on its way overlap, and `from` cuts one at the
  end of the other; this is where the two exceptions of findings 6 and 7 enter.

**Only model-checked**: everything that needs fairness (`WorkersExit`, the fairness of
`RefinesWorkSet`, `RetryHappens`, `ShutdownCompletes`, `Converges`, `LatestIsSynced`, `KillsAreDelivered`,
`ReplicasConverge`, `PodsSettle`, `WatchersHear`), which is out of the prover's reach. Every invariant and every
action property of a passing run is stated by a theorem.

## 6. What the models leave out

- Work queue: metrics, `Len`; `Done` of an item that was not got.
- Delaying queue: the width of `time.Duration` (a backoff of exactly 2^63 ns passes the guard at `default_rate_limiters.go:98`),
  a second ShutDown (it panics), the fast-slow limiter.
- DeltaFIFO: `knownObjects = nil`, `AddIfNotPresent` and requeueing after an error (no shared informer
  uses them), read-only accessors.
- Informer: the pipeline of each `processorListener` (its buffer is unbounded, so it delays
  notifications, and loses one when a handler panics); errors of the indexer; the
  mutation detector.
- Leader election: callbacks and events; both cases of a select being ready in the same instant; clocks of different rates.
- ReplicaSet: orphans, adoption and release; pods that have ended; the ranking of pods to delete (any are chosen).
- Scheduler cache: resources, ports, images, the node tree; the scheduling queue with its backoff (a pod is queued by name, one at
  a time) and preemption; pods whose deletion has begun. The two handlers of a pod event are told at once. A goroutine that is about to forget a pod does so
  within the 30 seconds of the deadline it has just set.
- Pod workers: create, update and sync are alike; mirror pods; what syncPod does, apart from setting a final status. A worker
  made for a pod that came back has no last sync time, so it takes any status as newer.
- Store: times to live; data that must be encrypted anew. Cacher: the result channel (a slow client is a goroutine that takes no
  step), the end of the whole cacher, List and Get from the cache, resources without a trigger function are watches of everything.

## 7. How to read the results

`tlc -config MCWorkQueue.cfg MCWorkQueue` checks a run (the runs in `PROJECT.json` name module and cfg),
`tlapm WorkQueueProofs.tla` a module of proofs. A violation run must end with a counterexample.

## 8. Not modelled, and plan

Not modelled: **volume operations** (`goroutinemap`, `nestedpendingoperations`, the reconciler), the **garbage collector** (its graph and
three ways to delete are a project of their own), **node lifecycle** and its timed workers, **kube-proxy** (its bounded frequency runner is a
small candidate; the rest is formatting), the **status manager** and probes of the kubelet, `processorListener`. **Admission,
authentication, authorization** are stateless; **kubectl, kubeadm, API types, conversion, generated clients, cloud
providers, volume plugins, runtimes** are generated code, input and output, or calls of external systems.
Most of the repository is of this last kind.

Done: the core with its proofs; ReplicaSet, scheduler cache, pod workers, storage; the proofs of these four and of the order of deltas.

Next, in this order:

1. Composition: the informer's handler adding to the work queue, as an end-to-end property (a change is
   eventually processed); `Cacher` below `SharedInformer`.
2. `processorListener`, the scheduling queue, timed workers, `goroutinemap`, the bounded frequency runner.
