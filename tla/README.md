# TLA+ models of Kite's completion engine

Kite is an engine that completes code in the editor. This directory models the
part of it that is hard to get right and hard to test: the concurrent core of
the python completion engine, the way an edit takes from the editor to a driver,
the indexing of the user's own code on the desktop and in the cloud, and the
concurrency helpers they stand on. All
paths below are relative to the root of the repository; `pythoncomplete/` is
`kite-go/lang/python/pythoncomplete/`.

## 1. The system

| Component | State | Operations | Interaction |
|---|---|---|---|
| Scheduler (`pythoncomplete/driver/scheduler.go`, `scheduling.go`, `providers.go`) | a cache of *speculation states* (one per selected buffer: depth and score of the shortest path from the root, per provider a status, a priority, completions and a cancel function) and a heap of work items | `Update`, `reschedule`, `GetWork`, `WorkStarting`, `GotCompletion`, `WorkComplete`/`WorkIncomplete`/`WorkNotApplicable`, `Prune` | passive, called by the driver under its lock |
| Driver (`pythoncomplete/driver/driver.go`) | the current buffer, `pauseAt`, `doneChans`, the inputs cache, one asynchronous worker and one garbage collector | `Update` (blocking or not), `prepareWorkLocked`, `workLoop`, `garbageCollector`, `Cleanup`, `Reset` | requests and the worker run providers outside the lock `d.cond.L` and come back to store results |
| Driver cache and API (`pythoncomplete/api/api.go`, `drivers.go`) | an ordered map from (user, machine, file) to a driver and a timestamp, `lastUsed` | `Get`, `purgeLocked`, `Reset`, the goroutine that unloads idle data | requests use a driver after the lock of the cache is released |
| Ordered map (`kite-golib/collections/ordered_map.go`) | map and list | `Set`, `Delete`, `RangeInc` | used by the driver cache |
| Worker pool (`kite-golib/workerpool/pool.go`) | queue, wait group, context, errors | `Add`, `AddBlocking`, `Stop`, `Wait`, `Err` | goroutines over an unbuffered channel |
| Lazy loader (`kite-golib/lazy/lazy.go`) | `sync.Once`, `sync.RWMutex`, load error | `LoadAndLock`, `Unlock`, `Unload` | guards models and indices that are unloaded when idle |
| Cancellable contexts (`kite-golib/kitectx`) | a tree of contexts | `CheckAbort`, `ClosureWithCancel`, `Go` | aborts by panicking and recovering at the right level |
| Editor events (`kite-go/client/internal/kitelocal`: `editor.go`, `event_processor.go`, `file_processor.go`; `kite-go/diff/driver.go`) | the last event and response per file and editor; a driver per file, editor and hash of the text | `handleEditorEvent`, `processEvent`, `handleEvent`, `updateLatestResponse`, lookups, eviction, `reset` | a pool of two workers; three steps under two locks; the completion API looks drivers up meanwhile |
| Local indexer and watcher (`kitelocal/internal/indexing/manager.go`, `kitelocal/internal/filesystem/manager.go`, `kite-go/client/internal/watch`) | requests, changes, artifacts, unsaved and timed out files (each a `sync.Map`), watch counts | requests, jobs, `build`, purging, watching, `reset` | a loop, a pool of one worker, file system events through lossy channels |
| Local code (`kite-go/localcode`) | the request of each user, published artifacts; artifacts loaded, idle, errored and polled for | requests, builds, publishing, polling, loading, eviction, `Cleanup` | client, HTTP, worker processes |
| Lexical driver (`kite-go/lang/lexical/lexicalcomplete/driver`) | as the python driver, simpler | | called by the python engine's lexical provider |
| Mixing, filtering, collecting, rendering (`pythoncomplete/driver/*.go`) | none | pure functions over the scheduler's cache | called at the end of a blocking `Update` |
| Providers, parsers, analysis, models, client, services | | | data, I/O, or large sequential algorithms |

What is hard here: a request joins, starts, abandons and reuses work of other
requests; work is cancelled, pruned and started again while an old run of it is
still on its way; every provider may end in five ways (result, not applicable,
abort by the scheduler, abort by its own caller, panic), each with its own path
through deferred functions; one goroutine sleeps on a condition variable for two
conditions; `reschedule` is a recursion over a cyclic graph in the random order
of Go maps with the lock held; drivers are stopped under the requests that use
them; edits are applied in one order and answered in another; an index is replaced
while its files change and while it is reset; calls between processes are lost, and
what was asked for during a build is thrown away with the request it was merged
into. `PROJECT.json` lists these as hazards, each at its line with the
properties that watch it.

## 2. Modules

| Module | Models | Remarks |
|---|---|---|
| `Scheduler` | scheduler, scheduling, providers | the scheduler has no thread of its own, so its operations are operators that the actions of `Driver` conjoin |
| `Driver` | driver.go, on top of `Scheduler` (EXTENDS) | requests, worker, garbage collector and the caller of `Reset` interleave |
| `DriverCache` | api.go, drivers.go, ordered_map.go | a driver is reduced to "stopped" and "busy" |
| `WorkerPool` | pool.go | |
| `LazyLoader` | lazy.go | |
| `JobBarrier` | what callers of a pool rely on | abstract; `WorkerPool` refines it (`PoolIsBarrier`) |
| `SharedData` | what users of a lazy loader rely on | abstract; `LazyLoader` refines it (`LoaderIsShared`) |
| `ProviderRuns` | what the callers and providers of a driver rely on | abstract; `Driver` refines it (`DriverIsProviderRuns`) |
| `ObjectPool` | what users of a context's objects rely on | abstract; `LocalCode` refines it (`ObjectsGoOneWay`) |
| `EditEvents` | editor.go, event_processor.go, file_processor.go, diff/driver.go | |
| `Indexer` | indexing/manager.go with the watcher and the inotify counts | composes three packages |
| `LocalCode` | usercontext.go, artifacts.go, requests.go, worker.go | client and server side and the network between them |
| `DriverProofs`, `DriverCacheProofs`, `WorkerPoolProofs`, `LazyLoaderProofs`, `EditEventsProofs`, `IndexerProofs`, `LocalCodeProofs` | | theorems about the module they are named after, with TLAPS proofs |
| `DataFacts` | | lemmas about numbers and sequences that several of the proof modules cite |
| `MCDriver`, `MCDriverCache`, `MCWorkerPool`, `MCLazyLoader`, `MCEditEvents`, `MCIndexer`, `MCLocalCode` | | instances for TLC |

### Scheduler and Driver

A work item is a pair of buffer and provider. The fields of `speculationState`
and `provisionState` are functions: `depth`, `score`, `status`, `priority`,
`completions`, `cancel`; `queue` is the set of items in the heap (`hIndex >= 0`),
and the item that `GetWork` returns is any of the greatest priority. A missing
entry of `scheduler.specs` and a fresh one cannot be told apart by any call, so
the functions are total and `Prune` makes an entry fresh. Scores are counted in
whole units, of which 1.0 (`One`) and the 1e-6 of `scheduling.go:97` (`tolerance`) are
multiples too, and the product of two of them is any function `product`, since what a
float64 rounds to does not matter to a comparison. The code follows an equally short
path only when its score is greater by more than the tolerance, so what score a state ends
up with may depend on the order of the calls, and the properties say no more than
holds: `DepthIsShortest` of the depths, and `GreatestScoreIsChosen` up to the tolerance.
On a path of several steps the tolerances add up. Raising the priority of a queued item
that is not pending takes it out of the heap (`setPriority`), both in `reschedule` and
in `WorkStarting`.

`reschedule` is recursive in the code. In the model the calls that are still to
be executed are the set `calls`, and any of them may be next: a superset of the
orders a Go map's iteration gives. While `calls` is not empty the lock is held
(`Free` is false), so nothing else can observe the half-done update.

`Update` is split where the lock's holder is split: `UpdateBegins` (unpause, empty
the heap, orphan all states, copy completions), `Reschedule` once per call,
`UpdateEnds` (cancel orphaned work, store the root, start or join the blocking
providers). `UpdateUnchanged` is the early return of the scheduler, and
`UpdateFails` that of a stopped driver. A request that waits ends with
`UpdateReturns` or, when its context expires, `UpdateAborts`.

A run of a provider is a record with the work item, a number that tells the runs
of one item apart, and the context it runs in. It ends by one of `Complete`,
`NotApplicable`, `Panic`, `Abort` and `AbortParent`, all of which contain the
deferred function of `prepareWorkLocked` (`Finish`). The last two are the cases of
`kitectx.recoverAbort`: below a live parent an abort becomes a
`ContextExpiredError`, below an expired one it goes on unwinding, and the deferred
function sees no error. That a cancelled run does not get past `CheckAbort`
(`Provide`) follows from `CancelFunc`, which waits until the context is expired.

Three history variables record what the state alone does not show: `interrupted`
(items that `WorkIncomplete` made pending), `truncated` (items that were
aborted and marked complete) and `rescheduled` (the buffer of the last Update that called
`reschedule`). The last is not always `root`: for a state at depth 0 the scheduler
returns early (`scheduler.go:240`) and the driver stores its buffer as the root
(`driver.go:400`), while depths and scores go on being those from the buffer before.

`ProviderRuns` keeps of the driver which runs there are, three of the statuses, and
for each call whether it waits and for which runs; lock, heap, labels, cancellation
and the three goroutines are gone. A call counts as made when it blocks or returns,
so that `UpdateBegins` and `Reschedule` are stutters; pruning is `Forget`, which leaves
the runs of what it forgets going. It promises that a provider is not started where it is
known to be in progress or settled, or after Reset, and that a call goes without a run of
a blocking provider only if that one was settled before or is one of those that may take
longer.

### DriverCache

The ordered map is a sequence, the least recent entry first. `Get` is one action,
since all of it runs under the lock. `Reset` holds the lock over several steps,
one entry at a time: it deletes the entry, cleans the driver up and waits for its
work. The unloader holds `API.lastUsedLock` meanwhile, which a request needs to
return; that it resets the models' caches too (`api.go:97`) is left out. `New` chooses between no capacity with a time to live and a capacity of
one without, and so does `Init`. The timestamp of an entry is the time to live after its
last use, and `purgeLocked` removes it when that is more than the time to live ago:
`PurgeIsComplete` is about this test, twice the time to live after the last use.

### WorkerPool and LazyLoader

A send on the pool's unbuffered channel is one step of adder and worker
(`Handoff`); the jobs of a batch are interchangeable and are offered in any order.
`JobReturns`, `RecordErr` and `Done` are separate, so that `Wait` may wake between
them. The readers of the lazy loader hold the read lock in the program counters
that say so; a waiting writer keeps new readers out, as `sync.RWMutex` does, and
`sync.Once` counts a function that panicked as done.

`JobBarrier` keeps of the pool the jobs added, settled and discarded, the errors and
the state of Wait; queue, workers, wait group and batches are gone, and blocked and
woken are one. `SharedData` keeps who holds the data and whether it is there.

### EditEvents

An event goes through four program counters, one for each stretch of code between
two locks: `handleEditorEvent` (queued, with the time it was received),
`processEvent` (under the lock of the event processor: compared with the last
response, and either dropped, sent with the full text, or sent with diffs against
the text of the response), `handleEvent` (under the lock of the file processor) and
`updateLatestResponse`. `handleEvent` has four ways to end, each an action: applied,
failed ("could not construct driver"), aborted by the timeout, and a panic of a driver,
which `editor.go:54` swallows, so that the event has no response. The last two leave the
map with any of the contents it has at the three points where they can happen
(`CutShort`); the deferred `cleanupLocked` is part of each. A text is a model value and stands for its
hash; the empty text is distinguished because the code takes it for a missing one
(`file_processor.go:246`, `driver.go:39`). `ts` of a driver is a number of the clock
`now`, of which every reading is later than the one before; that two may be equal on
Windows, in spite of the sleep at `file_processor.go:370-377`, is not modelled. The history variable
`lost` says that a driver was evicted or reset.

### Indexer

A `sync.Map` of requests or changes, and the list a job works through, give each path
the position of its time stamp among those of the map, 0 for a path that is not in it,
since a job takes the most recent first. The map of artifacts gives for
each path the set of files that were written after the builder read them, empty for
an artifact that is up to date.

None of the goroutines holds a lock over two operations on the maps, and the model has
none over them either. A driver looks for an artifact (`artifactThatContains`), stores its
request and notifies the loop. The loop takes a change, comes by the artifacts key by key in
any order (`outdatedArtifacts`), deletes from `unsavedFiles`, stores one change after
another (`StoreChange`) and adds the job. The worker looks at a request (`Filter`) before it
deletes it and, for an absent file, before it stores the file in `unsavedFiles`; its other
program counters follow `build`: the builder runs, the artifacts that contain the path are
purged one by one, each deleted and then unwatched, the new one is stored, its directories
are watched. `reset()` is another thread that comes by the artifacts key by key, and whose
`Unwatch` and `Delete` are two steps. Merged into one step are the two searches of
`artifactThatContains` (`Load`, then `Range`), the reads of a filter, and the watching or
unwatching of the directories of one artifact.

`Write` marks the file in every artifact and in the build under way, and raises an event if
the directory is watched at that moment and the channel of the watcher's events
(`watcher_linux.go:103`) is not full. `SendChanges` drops what does not fit in the channel of
changes; that it then blocks on `purgeChan` only makes it late.

Three history variables name what the code gives up by design. `missed` is, per artifact,
the writes that were not watched or whose event was dropped, and all files when a build was
tried and failed or was filtered; `overlooked` is, per artifact, the changes received while it
was being replaced. Both are emptied when the artifact's next build starts, so that an
artifact is held to the promise again. `mismatched` says that a watch failed, or that `reset()`
ran beside the end of a build.

### LocalCode

One user and machine. On the server, `request` holds the files merged into the
user's request, `build` what the worker selected, `published` the artifacts in the
order of publication. On the client, `artifacts` is in the order of last access,
`idle` is the set of what awaits its cleanup with the minutes it has waited
(`cleanupInactive` first adds to it and then cleans up what has waited long enough), and `fetch` is
where each goroutine stands in `makeRequest` or `pollForArtifacts`. Their steps are the
critical sections of the code: `erroredArtifact`, `findArtifact`, `containsArtifact` and `isDirty`,
then the request or the load. An artifact has a root only when the build had an error: the
python builder leaves that of its result empty, so that an error of the loader does not
keep `makeRequest` from going on. `pending` is the snapshot of files that the poller works
through.

`Cleanup` of a context stops nothing but the ticker and, some day, the poller: a caller that
has the context may still be given an object, start a request and load. The actions of
those have no guard on `closed`. `held` is one of the callers that were given an object, any one
at a time, and uses it for up to a minute; what holds of any one caller holds of all.

`Sync` is the end of an upload: files are modified, or removed, or the database fails, and the
observer is told afterwards in any case (`observeFileSync`), so that files may change before,
during and after a build, and the context may be told late. The removal of a file raises no
`updated_at`: the artifact that is marked dirty for it stays so until a file is modified, because
the worker finds that it is current. After `Cleanup` the observer is gone with the context.

`opened` is the set of files that drivers work on. Faults, bounded together by `MaxFaults`,
are: a search, request or answer that
is lost, an error status that is taken for a success, a build that fails or panics, a
load that fails, or for which there is no loader (nothing is recorded then), the expiry of any
of the published artifacts, which `publishArtifact` notices at the next publish, and a change
of workers.

`ObjectPool` keeps of all this the numbers of the objects: which are stored, idle, cleaned
up and lent, and whether the context is closed.

## 3. What is checked

Twelve runs, nine of which pass; all numbers are of distinct states.

| Run | Bounds | Shows |
|---|---|---|
| `worker_pool` (62 000) | 2 workers, 3 jobs in 2 batches, one Stop, one Wait | `WaitGroupExact`: the counter is the number of unsettled jobs at every step; `WaitIsBarrier`, `WaitReturnsErrors`: Wait returns after, and with the errors of, all jobs added before it; `StopReleasesWait`: under fairness; `PoolIsBarrier`: the pool implements `JobBarrier` |
| `driver` (1.9 million) | 2 buffers that complete to each other, 2 requests; garbage collection, contexts that expire, the time limit, Reset | `InProgressHasDoneChan`, `DoneChanIsOpen`: no panic and no dead channel in `updateBlocking`; `QueuedIsReachable`; `OrphansCancelled`; `PendingIsQueued`; `NoLostWakeup`; `ResetIsQuiet`: nothing is in progress after Reset, as far as the scheduler knows; `DriverIsProviderRuns`: the driver implements `ProviderRuns` |
| `driver_depth` (235 000) | 3 buffers, a cycle of zero-depth completions, several paths to one buffer, depth limit 1; pruning | `DepthIsShortest`: the labels are the best of those of all paths from the root, which `Labels` computes by a search; `LabelsAreLeast`: they are the least labels that follow every completion; `LockIsReleased`: `reschedule` terminates |
| `driver_live` (105 000) | 2 requests; pruning, panics, providers that do not apply, Reset | `UpdateIsAnswered`, `ResetEnds` |
| `lazy_loader` (328) | 3 readers, 2 unloaders, loads that fail and panic | `HolderHasData`, `LoadIsExclusive`, `UnloadIsNotStarved`; `LoaderIsShared`: the loader implements `SharedData` |
| `driver_cache` (526 000) | 3 requests, 3 files, ttl 1, clock up to 4, both configurations | `CacheIsBounded`, `CachedIsLive`, `NoDriverLeaks`, `PurgeIsComplete`, and no deadlock over the two locks |
| `edit_events` (1.7 million) | 3 events of one file and editor, 2 texts and the empty one, 2 workers, 2 drivers kept, one lookup; aborts, reset, stale history | `KeyedByContent`: a driver with a hash holds the text it is filed under, but for the empty one; `SyncedUnlessResend`: what the last response does not ask to resend can be diffed against; `EventsBoundDrivers`: every event, however it ends, leaves at most `maxStates` drivers |
| `indexer` (432 000) | 2 files in 2 directories, one artifact with both, one file not saved at first, 3 requests, 2 writes, a channel of one; failing builds and watches, reset | `WatchesMatch`: watches are counted once per artifact; `StaleIsPending`: an outdated artifact is going to be rebuilt; `AllHandled`: requests and changes do not stay behind |
| `local_code` (979 000) | 1 file, 1 goroutine and the poller, 1 artifact kept, 3 loads, 2 faults | `HeldIsAlive`: the minute of grace is enough; `CleanedOnce`; `ObjectsGoOneWay`: the context implements `ObjectPool`; `FilesAreServed`: a file that is asked for is served, or has an error, again and again |

The bounds are the smallest at which the interesting cases happen. Two buffers that
complete to each other make every state reachable and orphaned in turn, and a third
request (run `driver_queue`) comes back to a buffer after it was pruned; three files
are needed for an expired driver behind one that is not. Three events are what it
takes to store two responses in the order in which the events were not applied and to
diff a third against the result; two drivers kept make eviction happen. Two writes
change a file before and during a rebuild. Three loads replace an
artifact, idle it and load it again (with one artifact kept, which of several was
accessed the longest ago is not put to the test); two faults are a sync and a failure after it. Each property has a mutant of the code's model, listed in `PROJECT.json`,
under which TLC finds it violated, so none holds by the size of the instance. The
constant `Events` of `Driver` names the events of the environment a run includes,
so that runs can leave out what their question does not depend on. Runs of the
driver, the pool, the events, the indexer and local code switch the deadlock check
off, because the program may stop when all requests are over; in `driver_cache` that final state is the explicit
action `Terminated`, and any other state without a successor is a deadlock.

### Fairness

`LockSpec` assumes that the holder of the lock goes on. `FairSpec` of `Driver` adds
that `sync.Mutex` hands the lock over in turn (its starvation mode does), hence the
strong fairness of what waits for it, and that a provider returns in one way or
another. Nothing is assumed of the worker: it may be dead, and requests must be
answered all the same. `FairSpec` of `WorkerPool` and of `LazyLoader` assume that the
goroutines inside are scheduled; nobody is made to call `Add`, `Stop`, `Wait`,
`LoadAndLock` or `Unload`. `FairSpec` of `Indexer` assumes that the loop, the worker and a
driver that is about to store a request or to notify the loop go on, and that a job added to
the pool is handed out some day (strong fairness, since the
jobs compete in a select); nobody is made to ask for an artifact, and nothing is assumed of
files, the watcher's ticker or `reset`. `FairSpec` of `LocalCode` assumes that each goroutine,
the poller and the worker go on, that the client's ticker cleans up and callers let
objects go, and that the drivers of each file keep asking for it until one of their calls
starts a request, which is what the property is about.

### Where code and documentation disagree

Three runs check what a comment says, and TLC finds a counterexample:

* `driver_queue`: "if hIndex >= 0, then status == statusPending"
  (`scheduler.go:412`). A run outlives the pruning of its state; the buffer is
  reached again and its item queued; the old run ends and marks the queued item
  complete. `GetWork` then panics and the only asynchronous worker of the driver is
  gone. Requests are still answered (`UpdateIsAnswered`), speculation is not done
  any more.
* `edit_events_state`: "this driver is already in the correct state"
  (`file_processor.go:243`). The driver for the empty text is made from another state
  of the file, and an event without diffs leaves it there. Since an empty text counts
  as missing, asking the editor to resend does not repair it: the driver is found
  again, and the answer is again to resend.
* `local_code_cleanup`: "Cleanup cleans up any state" (`usercontext.go:191`). A load that
  ends after Cleanup stores an object that nobody cleans up; so does the second of two
  loads of one artifact.

Five statements have no run of their own. Each is a definition that can be put as an
INVARIANT into a configuration of its module, and TLC then finds a counterexample:

* `ResetWaitsForWork` (`Driver`): Reset "blocks until all ongoing background work has
  been finished" (`driver.go:476`). Two runs of one item share an entry of `doneChans`.
  `ResetIsQuiet` is what does hold of it: no work is left that the scheduler knows of.
* `AbortedIsIncomplete` (`Driver`): work that was aborted is not complete
  (`scheduler.go:121`). When the request that started it expires, it is marked complete.
* `HolderSawNoPanic` (`LazyLoader`): "l.load() ran without a panic or error"
  (`lazy.go:39`). After a panic, the next reader gets the lock and no data.
* `ExpiresAfterTTL` (`DriverCache`): drivers "expire after 5 seconds" (`api.go:107`); the
  time to live is counted twice, at `drivers.go:50` and `drivers.go:91`.
* `StaleIsNoticed` (`Indexer`): artifacts that need to be rebuilt are found
  (`indexing/manager.go:361`). A change that is received while its artifact is deleted and
  not yet stored again finds none.

Three smaller ones were met while modelling: a worker of the pool may
start a queued job after `Stop` (`pool.go:75`, both cases of the select being ready),
and a driver may be stopped between `Get` and `Update` (`api.go:209-210`), which costs
that request an error; and `shard` (`workergroup.go:72`) divides by the number of
workers, which is zero until the first discovery succeeds.

## 4. What is proved

TLAPS proves, for any sets of buffers, providers, completions, requests, workers,
jobs, readers, files, editors, texts and events and for any value of the bounds, every
safety invariant that the runs check, the two action properties of
`DriverCache` and `EditEvents`, and all four refinements. The assumptions are the named
ASSUMEs of the modules, which TLC evaluates in the runs. Those that go beyond the types
of the constants: there is an editor and a file (`EditAssumption`), the jobs of a pool
and the files of the indexer are finitely many, so that jobs can be counted and one of
the requests is the most recent (`IndexerAssumption`), there are finitely many buffers
(`BufAssumption`; a buffer is a hash of two words and the two ends of a selection) and
scores (`SchedulerAssumption`; a float64), which only `RescheduledDepthIsShortest` needs,
and the value for "none" is none of the values it stands beside.

* `WorkerPoolProofs`: `TypeCorrect`, `CountIsExact` (`WaitGroupExact`), `WaitCorrect`
  (`WaitIsBarrier`) and `WaitHasErrors` (`WaitReturnsErrors`). The inductive invariant
  adds that the job a worker holds is unsettled and no other worker's, that a job's
  error is recorded or still in the hands of its worker, and that the jobs counted as
  added before Wait are no longer new. The count follows from how the set
  `Outstanding` changes in each action, by the cardinality facts of
  `FiniteSetTheorems`. `PoolRefinesBarrier` (`PoolIsBarrier`): every step of the pool is
  a step of `JobBarrier` or a stutter. It needs the same invariant, for the guards of
  `Settle`, `Discard` and `WaitReturns`, and that no error is recorded which no job
  returned.
* `DriverProofs`: `TypeCorrect`, `DoneChannels` (`InProgressHasDoneChan`),
  `DoneChannelsAreOpen` (`DoneChanIsOpen`), `QueueIsReachable`, `OrphansAreCancelled`,
  `WorkerIsWoken` (`NoLostWakeup`). The inductive invariant `IInv` adds
  `RunsAreDistinct` (a run is known by its item and number, and no number was used
  twice, without which the end of one run could close another's channel),
  `OrphansCancelledOutsideUpdate` (orphans are cancelled also while a provider's
  results are being rescheduled; a state's depth only leaves -1 there) and
  `NewRootIsScheduled` (in an Update the new root is either labelled or its call is
  still to be executed, so that the blocking providers are never started on an
  orphan). One lemma per action shows that it preserves the invariant;
  `PrepareEffect` and `AnswerEffect` state once what starting work does.

  `PendingWorkIsQueued` (`PendingIsQueued`) rests on `RestingIsUnscheduled`: pending
  work outside the heap still has priority -1 unless its run was interrupted.
  Without the priority the invariant is not inductive, since `reschedule` pushes an item
  only when its priority rises.

  `RescheduledDepthIsShortest` (`DepthIsShortest`) and `RescheduledScoreIsGreatest`
  (`GreatestScoreIsChosen`) are the correctness of the recursion over a cyclic graph, for any
  scores, any product and any tolerance. Their invariant, `Searched`, is about the middle of
  a search: a step along a completion leads to a call still to be executed or to one that
  the early returns would drop (`Superseded`), and every label and every call is in *any* set
  that has the label of the root and is closed under the completions followed so far. Once the
  calls are used up the first part is `GreatestScoreIsChosen`: no step from a label that was
  left leads to an equally short path with a score that is greater by more than the tolerance.
  That bound is for one step. Against the greatest product of scores over all shortest
  paths the tolerances of the steps add up, so the labels are *not* those of a best path, and
  nothing of the kind is claimed.

  For the depths, `DepthIsShortest` compares with `Labels`, a search that adds in each round
  what one completion leads to. Its rounds are a recursive function; that it has a value in
  every round follows from the least number principle (`RoundsExist`). The search makes no
  more rounds than there are labels, and it needs no more: a round that adds nothing is the
  last that matters (`RoundsStop`), and each earlier one adds a label (`LabelsClosed`). So what
  it finds is closed, and by the second part of `Searched` every label left is one of a path;
  by the first part no path is shorter than the depth left, round by round (`RoundsWithin`).
  `RootIsReached` adds that the root, also when it is not the buffer the search began from,
  is at depth 0.

  `ResetLeavesQuiet` (`ResetIsQuiet`) needs `StoppedForGood`: from the call of Reset on
  the driver is stopped, and whoever holds the lock in the middle of an Update found it not
  stopped, so that no Update that began before the Reset starts work after it.
  `DriverRefinesRuns` (`DriverIsProviderRuns`): every step of the driver is a step of
  `ProviderRuns` or a stutter. `PrepareBegins` and `AnswerRuns` show that starting and
  joining work is `Begin` and `Call`, where `InProgressHasDoneChan`, `DoneChanIsOpen` and
  `RunsAreDistinct` are needed: the channel a call finds is that of a live run of the
  very item, and a new run has a number of its own. `LeaveRuns`, `FinishRuns`,
  `GarbageCollectRuns` and `WorkerStartsRuns` do the rest.
* `DriverCacheProofs`: `CacheTypes`, `CacheBounded` (`CacheIsBounded`),
  `CachedDriversAreLive` (`CachedIsLive`), `DriversDoNotLeak` (`NoDriverLeaks`), and the
  action property `PurgeMissesNothing` (`PurgeIsComplete`). The invariant adds
  `InOrderOfUse`: the order of the entries is the order of their timestamps, and
  none is later than now and the time to live. That is what makes it right for
  `purgeLocked` to stop at the first entry it may not remove.
* `LazyLoaderProofs`: `TypeCorrect`, `HolderIsServed` (`HolderHasData`), `LoadExclusive`
  (`LoadIsExclusive`). The invariant relates a reader that holds the lock to the state
  of the `sync.Once` it went through. `LoaderRefinesShared` (`LoaderIsShared`) follows from
  it: a load is a step of `SharedData` because nobody holds the data, an Unload because
  it has the lock.
* `EditEventsProofs`: `EventTypes`, `DriversKeyedByContent` (`KeyedByContent`),
  `ResponsesInSync` (`SyncedUnlessResend`) and the action property
  `EventsBoundTheDrivers` (`EventsBoundDrivers`). The invariant adds `HandledInSync`, what
  `SyncedUnlessResend` says of the responses that are not recorded yet (an event in
  between may not undo it), and `TimesAreDistinct`: every time that a driver has, or that
  an event on its way is going to give one, was read from the clock once. Without it
  `cleanupLocked`, which sorts by time, could have to choose among drivers of the same
  time. `Sound` collects what the parts of `handleEvent` keep, so that the four
  ways it can end share one proof.
* `IndexerProofs`: `IndexerTypes`, `WatchesMatchArtifacts` (`WatchesMatch`) and
  `StaleArtifactsArePending` (`StaleIsPending`). The invariant has three parts, proved one
  after the other: the types of what loop, worker and `reset()` have at hand (`AtHand`);
  `Exclusive`, that as long as `mismatched` is false, `reset()` and the end of a build do not
  meet, so that each step counts one artifact in or out (`OneWatched`, `OneUnwatched`); and
  `StaleInv`, which makes for the build under way, whose files may be
  written before its artifact is stored, the promise that outdated artifacts have. Since the
  exemptions are per artifact and end with its next build, the argument is about pairs of
  artifact and file: `NoneForgotten` is shared by the steps that take no change away and start
  no build, and the others are proved one by one.
* `LocalCodeProofs`: `HeldObjectsAreAlive` (`HeldIsAlive`) and `ObjectsAreCleanedOnce`
  (`CleanedOnce`). `OneHome` says that an object is in `artifacts`, in `idle` or cleaned
  up, once, and in none before its load; `HeldOutlivesIdle` that what is held has been idle
  for no longer than it has been held. The second is what makes a minute of grace
  enough for a caller that keeps an object up to a minute, whatever the order of the
  ticker, the poller and the caller. The other half of the state (files, requests and
  builds) is left untyped: `OthersKeepInv` shows once that steps which leave the
  client's objects alone cannot matter. `ContextRefinesPool` (`ObjectsGoOneWay`): every step
  is a step of `ObjectPool` or a stutter. Two lemmas carry it: `LoadMakes` (what a load
  makes idle was stored before, and is not stored any more) and
  `CleanupInactiveRetires` (what is cleaned up was idle before the step, since what becomes
  idle in it has waited for no minute, and nobody holds it). Both take from `CleanedOnce`
  after the step that stored, idle and cleaned up objects are apart.

`DataFacts` has the least and the greatest element of a set of naturals, and what
`RemoveAt` leaves of a sequence. The principle is stated of sets, because the provers
cannot instantiate an induction theorem that takes a predicate as a parameter.

Only model-checked: liveness (`StopReleasesWait`, `LockIsReleased`, `UpdateIsAnswered`,
`ResetEnds`, `UnloadIsNotStarved`, `AllHandled`, `FilesAreServed`), since the prover does
not handle fairness and ENABLED.

## 5. What is not modelled

* The GGNN variant of the scheduler (`UpdateWithGGNN`, `rescheduleGGNNCompletion`),
  behind an option.
* `getInputs` and its cache; the set of providers that do not apply, which feeds
  metrics; the fixtures for tests.
* What mixing, filtering and rendering compute; what providers find.
* The text of buffers: a buffer is an element of `Buf`, and which completions stay
  valid when it changes is the constant `Carries`.
* The diff algorithm, selections and cursors of events; what a python driver computes
  from its buffer.
* The library walker, the cached directory listings and their purging, and the
  watchers of macOS and Windows.
* Several users of one local code worker, which share only the order in which they are
  served; the client's map of contexts; disk caches. The data race on a request's files
  (`worker.go:135`) is modelled by the order of the two accesses, not by a crash.
* The lexical driver, `kitectx` as a component of its own.
* The rest of the client, services, parsing, analysis and machine learning.

## 6. Plan

Done: the completion engine's core, the helpers, editor events, the indexer and local
code, four abstract specifications, and proofs of all safety properties. Next, in this order:

1. `InputsCache` (`getInputs`: the LRU, the per-entry lock, `ContainsOrAdd`) and its
   composition with runs that are cancelled while they compute inputs.
2. The GGNN variant as a second pair of operators of `Scheduler`, chosen by an
   option, with `DepthIsShortest` restated for it.
3. `KiteCtx`: abort and recovery over a tree of contexts, as the abstract
   specification of what `Driver` assumes of it.
4. Completions in `ProviderRuns` (an Update is answered from the results of completed
   runs), and an instance of it in `DriverCache` in place of "stopped" and "busy".
5. Abstract specifications of the indexer and of the editor events.
