------------------------------ MODULE Indexer ------------------------------
(***************************************************************************)
(* The indexer of the desktop client (kitelocal/internal/indexing), the    *)
(* watcher that tells it of changed files (kitelocal/internal/filesystem)  *)
(* and the counts of inotify watches (client/internal/watch).              *)
(*                                                                         *)
(* A path that no artifact contains is requested; the indexing loop turns  *)
(* notifications and changes into jobs for a pool of one worker, which     *)
(* builds an artifact, purges the ones it replaces, stores it and watches  *)
(* the directories of its files.  All of this goes through sync.Maps, with *)
(* no lock around two operations, and reset() runs beside it.              *)
(***************************************************************************)
EXTENDS Naturals, Sequences, FiniteSets, SequencesExt

CONSTANTS Path, Dir, DirOf,   \* files, and the directory of each
          Bundle,             \* the files an artifact for a path is built from
          NoPath, NoArtifact,
          Saved,              \* the files that exist from the start
          changeChanSize,     \* 100 in the code
          MaxAsks, MaxWrites, \* bounds: requests by drivers, files written
          Faults              \* what may happen: "fail", "watch", "drop", "reset"

ASSUME IndexerAssumption ==
    /\ DirOf \in [Path -> Dir]
    /\ Bundle \in [Path -> SUBSET Path] /\ \A p \in Path : p \in Bundle[p]
    /\ IsFiniteSet(Path) /\ Saved \subseteq Path
    /\ NoPath \notin Path /\ \A S \in SUBSET Path : S # NoArtifact
    /\ changeChanSize \in Nat \ {0} /\ MaxAsks \in Nat /\ MaxWrites \in Nat

VARIABLES
    asking,             \* the drivers in artifactThatContains for a path
    requests, changes,  \* m.requests, m.changes: for a path in it the order of its ts, or 0
    notified,           \* requestNotifier, a channel of one
    artifacts,          \* m.artifacts: per path the files of the artifact that
                        \* were written after the builder read them
    unsavedFiles, timedOutFiles,
    loop,               \* the indexing loop, when it handles a change
    waiting,            \* jobs in the pool that have not started
    worker,             \* the worker of the pool
    resetter,           \* the goroutine that calls reset()
    watchCounts,        \* fs.watchCounts
    pending,            \* w.changes, sent with the next tick
    changeChan,         \* w.changeChan
    exists,             \* the file system
    asks, writes,       \* input so far
    missed,             \* history: for an artifact, the writes since its last build that were
                        \* not seen or not indexed in spite of a try
    overlooked,         \* history: those whose changes came while it was in no map
    mismatched          \* history: a watch failed, or reset() ran beside a build's end

mapVars == <<requests, changes, artifacts, unsavedFiles, timedOutFiles>>
fsVars  == <<pending, changeChan, exists>>
input   == <<asks, writes>>
history == <<missed, overlooked, mismatched>>
vars == <<asking, mapVars, notified, loop, waiting, worker, resetter, watchCounts, fsVars, input, history>>

LoopType == [pc : {"select", "ranging", "storing"}, paths : SUBSET Path,
             left : SUBSET Path, rebuild : SUBSET Path]
WorkerType == [pc : {"idle", "next", "filtered", "absent", "unsaved",
                     "building", "purging", "watching"},
               kind : {"request", "change"}, todo : [Path -> Nat],
               path : Path \cup {NoPath}, stale : SUBSET Path, purged : Path \cup {NoPath}]
ResetterType == [pc : {"unused", "ranging", "deleting", "over"},
                 left : SUBSET Path, key : Path \cup {NoPath}]

TypeOK ==
    /\ asking \in [Path -> {"no", "store", "notify"}]
    /\ {requests, changes} \subseteq [Path -> Nat]
    /\ notified \in BOOLEAN
    /\ artifacts \in [Path -> (SUBSET Path) \cup {NoArtifact}]
    /\ {unsavedFiles, timedOutFiles, pending, exists} \subseteq SUBSET Path
    /\ {missed, overlooked} \subseteq [Path -> SUBSET Path]
    /\ loop \in LoopType /\ worker \in WorkerType /\ resetter \in ResetterType
    /\ waiting \in [{"request", "change"} -> Nat]
    /\ watchCounts \in [Dir -> Nat]
    /\ changeChan \in Seq(SUBSET Path) /\ Len(changeChan) <= changeChanSize
    /\ asks \in 0 .. MaxAsks /\ writes \in 0 .. MaxWrites
    /\ mismatched \in BOOLEAN

Empty == [p \in Path |-> 0]

IdleLoop == [pc |-> "select", paths |-> {}, left |-> {}, rebuild |-> {}]
IdleWorker == [pc |-> "idle", kind |-> "request", todo |-> Empty, path |-> NoPath, stale |-> {},
               purged |-> NoPath]

(* The bounds may be used up in part, and reset() be over.                 *)
Init ==
    /\ asking = [p \in Path |-> "no"]
    /\ requests = Empty /\ changes = Empty /\ notified = FALSE
    /\ artifacts = [p \in Path |-> NoArtifact]
    /\ unsavedFiles = {} /\ timedOutFiles = {}
    /\ loop = IdleLoop
    /\ waiting = [kind \in {"request", "change"} |-> 0]
    /\ worker = IdleWorker
    /\ \E pc \in {"unused", "over"} : resetter = [pc |-> pc, left |-> {}, key |-> NoPath]
    /\ watchCounts = [d \in Dir |-> 0]
    /\ pending = {} /\ changeChan = <<>> /\ exists = Saved
    /\ asks \in 0 .. MaxAsks /\ writes \in 0 .. MaxWrites
    /\ missed = [k \in Path |-> {}] /\ overlooked = [k \in Path |-> {}] /\ mismatched = FALSE

Stored == {k \in Path : artifacts[k] # NoArtifact}

Containing(p) == {k \in Stored : p \in Bundle[k]}

(* A sync.Map of bundles: the paths in it, Delete, after which later ones  *)
(* move up, and Store with the time of the call.                           *)
Keys(m) == {p \in Path : m[p] > 0}
LastTime(m) == Max({m[p] : p \in Path})
Deleted(m, p) ==
    [q \in Path |-> IF q = p THEN 0 ELSE IF 0 < m[p] /\ m[p] < m[q] THEN m[q] - 1 ELSE m[q]]
StoredNow(m, p) == [m EXCEPT ![p] = LastTime(m) + 1]

-----------------------------------------------------------------------------
(* Files that an artifact for a path has are missed by it.                 *)
Misses(files) == missed' = [k \in Path |-> missed[k] \cup (Bundle[k] \cap files)]

(* Files are written: a file that is not saved yet comes to exist.  The    *)
(* event comes if the directory is watched then, unless the channel of the *)
(* watcher's events is full.                                               *)
Write(f) ==
    /\ writes < MaxWrites
    /\ writes' = writes + 1
    /\ exists' = exists \cup {f}
    /\ artifacts' = [k \in Path |-> IF k \in Containing(f) THEN artifacts[k] \cup {f} ELSE artifacts[k]]
    /\ worker' = IF worker.pc \in {"building", "purging"} /\ f \in Bundle[worker.path]
                 THEN [worker EXCEPT !.stale = @ \cup {f}] ELSE worker
    /\ \/ watchCounts[DirOf[f]] > 0 /\ pending' = pending \cup {f} /\ UNCHANGED missed
       \/ watchCounts[DirOf[f]] = 0 /\ Misses({f}) /\ UNCHANGED pending
       \/ "drop" \in Faults /\ Misses({f}) /\ UNCHANGED pending
    /\ UNCHANGED <<asking, requests, changes, unsavedFiles, timedOutFiles, notified, loop, waiting,
                   resetter, watchCounts, changeChan, asks, overlooked, mismatched>>

(* watchRootDir's ticker: what does not fit in the channel is dropped.     *)
(* That it waits for purgeChan then only makes it late.                    *)
SendChanges ==
    /\ pending # {}
    /\ pending' = {}
    /\ IF Len(changeChan) < changeChanSize
       THEN changeChan' = Append(changeChan, pending) /\ UNCHANGED missed
       ELSE Misses(pending) /\ UNCHANGED changeChan
    /\ UNCHANGED <<asking, mapVars, notified, loop, waiting, worker, resetter, watchCounts, exists,
                   input, overlooked, mismatched>>

(* A driver asks for an artifact and requests it if there is none: the     *)
(* request is stored, then the loop is notified.                           *)
artifactThatContains(p) ==
    /\ asks < MaxAsks
    /\ asking[p] = "no"
    /\ Containing(p) = {}
    /\ asks' = asks + 1
    /\ asking' = [asking EXCEPT ![p] = "store"]
    /\ UNCHANGED <<mapVars, notified, loop, waiting, worker, resetter, watchCounts, fsVars, writes,
                   history>>

StoreRequest(p) ==
    /\ asking[p] = "store"
    /\ asking' = [asking EXCEPT ![p] = "notify"]
    /\ requests' = StoredNow(requests, p)
    /\ UNCHANGED <<changes, artifacts, unsavedFiles, timedOutFiles, notified, loop, waiting, worker,
                   resetter, watchCounts, fsVars, input, history>>

(* Mutant: the loop is notified of a request that is alone.                *)
NotifyLoopOnce(p) ==
    /\ asking[p] = "notify"
    /\ asking' = [asking EXCEPT ![p] = "no"]
    /\ notified' = (notified \/ Keys(requests) \subseteq {p})
    /\ UNCHANGED <<mapVars, loop, waiting, worker, resetter, watchCounts, fsVars, input, history>>

NotifyLoop(p) ==
    /\ asking[p] = "notify"
    /\ asking' = [asking EXCEPT ![p] = "no"]
    /\ notified' = TRUE
    /\ UNCHANGED <<mapVars, loop, waiting, worker, resetter, watchCounts, fsVars, input, history>>

-----------------------------------------------------------------------------
(* changeOrRequest adds a job to the pool, which takes them in any order.  *)
RequestNotified ==
    /\ loop.pc = "select"
    /\ notified
    /\ notified' = FALSE
    /\ waiting' = [waiting EXCEPT !["request"] = @ + 1]
    /\ UNCHANGED <<asking, mapVars, loop, worker, resetter, watchCounts, fsVars, input, history>>

ChangeReceived ==
    /\ loop.pc = "select"
    /\ changeChan # <<>>
    /\ loop' = [pc |-> "ranging", paths |-> Head(changeChan), left |-> Path, rebuild |-> {}]
    /\ changeChan' = Tail(changeChan)
    /\ UNCHANGED <<asking, mapVars, notified, waiting, worker, resetter, watchCounts, pending, exists,
                   input, history>>

(* sync.Map.Range comes by every key, in no order of its own.              *)
outdatedArtifacts(k) ==
    /\ loop.pc = "ranging"
    /\ k \in loop.left
    /\ loop' = [loop EXCEPT !.left = @ \ {k},
                            !.rebuild = IF k \in Stored /\ Bundle[k] \cap loop.paths # {}
                                        THEN @ \cup {k} ELSE @]
    /\ overlooked' = IF k \notin Stored /\ worker.path = k
                     THEN [overlooked EXCEPT ![k] = @ \cup (worker.stale \cap loop.paths)]
                     ELSE overlooked
    /\ UNCHANGED <<asking, mapVars, notified, waiting, worker, resetter, watchCounts, fsVars,
                   input, missed, mismatched>>

outdatedUnsaved ==
    /\ loop.pc = "ranging"
    /\ loop.left = {}
    /\ loop' = [loop EXCEPT !.pc = "storing", !.paths = {}, !.rebuild = @ \cup (unsavedFiles \cap loop.paths)]
    /\ unsavedFiles' = unsavedFiles \ loop.paths
    /\ UNCHANGED <<asking, requests, changes, artifacts, timedOutFiles, notified, waiting, worker,
                   resetter, watchCounts, fsVars, input, history>>

StoreChange(p) ==
    /\ loop.pc = "storing"
    /\ p \in loop.rebuild
    /\ loop' = [loop EXCEPT !.rebuild = @ \ {p}]
    /\ changes' = StoredNow(changes, p)
    /\ UNCHANGED <<asking, requests, artifacts, unsavedFiles, timedOutFiles, notified, waiting,
                   worker, resetter, watchCounts, fsVars, input, history>>

AddChangeJob ==
    /\ loop.pc = "storing"
    /\ loop.rebuild = {}
    /\ loop' = IdleLoop
    /\ waiting' = [waiting EXCEPT !["change"] = @ + 1]
    /\ UNCHANGED <<asking, mapVars, notified, worker, resetter, watchCounts, fsVars, input, history>>

(* handleRequest and handleFileChange collect what is there and take the   *)
(* most recent first.                                                      *)
JobStarts(kind) ==
    /\ worker.pc = "idle"
    /\ waiting[kind] > 0
    /\ waiting' = [waiting EXCEPT ![kind] = @ - 1]
    /\ worker' = [IdleWorker EXCEPT !.pc = "next", !.kind = kind,
                     !.todo = IF kind = "request" THEN requests ELSE changes]
    /\ UNCHANGED <<asking, mapVars, notified, loop, resetter, watchCounts, fsVars, input, history>>

JobEnds ==
    /\ worker.pc = "next"
    /\ worker.todo = Empty
    /\ worker' = IdleWorker
    /\ UNCHANGED <<asking, mapVars, notified, loop, waiting, resetter, watchCounts, fsVars, input, history>>

(* The first in the order of a job.                                        *)
MostRecent == CHOOSE p \in Keys(worker.todo) : \A q \in Path : worker.todo[q] <= worker.todo[p]

(* The build is left out for what timed out before, for what does not      *)
(* exist, and, on request, for what is indexed.                            *)
Filtered(p) ==
    \/ p \in timedOutFiles
    \/ p \notin exists
    \/ worker.kind = "request" /\ Containing(p) # {}

(* A change is deleted before it is looked at.                             *)
SkipChange ==
    /\ worker.pc = "next"
    /\ worker.kind = "change"
    /\ worker.todo # Empty
    /\ Filtered(MostRecent)
    /\ changes' = Deleted(changes, MostRecent)
    /\ missed' = [missed EXCEPT ![MostRecent] = Bundle[MostRecent]]
    /\ worker' = [worker EXCEPT !.todo = Deleted(@, MostRecent)]
    /\ UNCHANGED <<asking, requests, artifacts, unsavedFiles, timedOutFiles, notified, loop, waiting,
                   resetter, watchCounts, fsVars, input, overlooked, mismatched>>

(* A request is deleted after it was looked at; the path of an absent file *)
(* is kept then.                                                           *)
Filter ==
    /\ worker.pc = "next"
    /\ worker.kind = "request"
    /\ worker.todo # Empty
    /\ Filtered(MostRecent)
    /\ worker' = [worker EXCEPT !.pc = IF MostRecent \notin timedOutFiles \cup exists
                                       THEN "absent" ELSE "filtered",
                                !.path = MostRecent, !.todo = Deleted(@, MostRecent)]
    /\ UNCHANGED <<asking, mapVars, notified, loop, waiting, resetter, watchCounts, fsVars, input, history>>

ToNext == [worker EXCEPT !.pc = "next", !.path = NoPath, !.stale = {}]

SkipRequest ==
    /\ worker.pc \in {"filtered", "absent"}
    /\ requests' = Deleted(requests, worker.path)
    /\ worker' = IF worker.pc = "absent" THEN [worker EXCEPT !.pc = "unsaved"] ELSE ToNext
    /\ UNCHANGED <<asking, changes, artifacts, unsavedFiles, timedOutFiles, notified, loop, waiting,
                   resetter, watchCounts, fsVars, input, history>>

StoreUnsaved ==
    /\ worker.pc = "unsaved"
    /\ unsavedFiles' = unsavedFiles \cup {worker.path}
    /\ worker' = ToNext
    /\ UNCHANGED <<asking, requests, changes, artifacts, timedOutFiles, notified, loop, waiting,
                   resetter, watchCounts, fsVars, input, history>>

(* The builder reads the files; a change is deleted before, a request not. *)
BuildStarts ==
    /\ worker.pc = "next"
    /\ worker.todo # Empty
    /\ ~Filtered(MostRecent)
    /\ worker' = [worker EXCEPT !.pc = "building", !.path = MostRecent,
                                !.todo = Deleted(@, MostRecent)]
    /\ changes' = IF worker.kind = "change" THEN Deleted(changes, MostRecent) ELSE changes
    /\ missed' = [missed EXCEPT ![MostRecent] = {}]
    /\ overlooked' = [overlooked EXCEPT ![MostRecent] = {}]
    /\ UNCHANGED <<asking, requests, artifacts, unsavedFiles, timedOutFiles, notified, loop, waiting,
                   resetter, watchCounts, fsVars, input, mismatched>>

RequestDone == requests' = IF worker.kind = "request" THEN Deleted(requests, worker.path) ELSE requests

(* An error, a panic or a timeout of the builder.                          *)
BuildFails ==
    /\ "fail" \in Faults
    /\ worker.pc = "building"
    /\ \/ UNCHANGED timedOutFiles
       \/ timedOutFiles' = timedOutFiles \cup {worker.path}
    /\ RequestDone
    /\ worker' = ToNext
    /\ missed' = [missed EXCEPT ![worker.path] = Bundle[worker.path]]
    /\ UNCHANGED <<asking, changes, artifacts, unsavedFiles, notified, loop, waiting, resetter, watchCounts,
                   fsVars, input, overlooked, mismatched>>

Unwatch(dirs) == watchCounts' = [d \in Dir |-> IF d \in dirs /\ watchCounts[d] > 0
                                               THEN watchCounts[d] - 1 ELSE watchCounts[d]]
Watch(dirs) == watchCounts' = [d \in Dir |-> IF d \in dirs THEN watchCounts[d] + 1 ELSE watchCounts[d]]

watchedDirs(k) == {DirOf[f] : f \in Bundle[k]}

BuildReturns ==
    /\ worker.pc = "building"
    /\ worker' = [worker EXCEPT !.pc = "purging"]
    /\ mismatched' = (mismatched \/ resetter.pc \in {"ranging", "deleting"})
    /\ UNCHANGED <<asking, mapVars, notified, loop, waiting, resetter, watchCounts, fsVars, input,
                   missed, overlooked>>

(* An artifact with the path goes: it is deleted and cleaned up.           *)
Purge(k) ==
    /\ worker.pc = "purging"
    /\ worker.purged = NoPath
    /\ k \in Containing(worker.path)
    /\ artifacts' = [artifacts EXCEPT ![k] = NoArtifact]
    /\ worker' = [worker EXCEPT !.purged = k]
    /\ UNCHANGED <<asking, requests, changes, unsavedFiles, timedOutFiles, notified, loop, waiting,
                   resetter, watchCounts, fsVars, input, history>>

(* Mutant: the watches of a purged artifact are kept.                      *)
KeepWatched ==
    /\ worker.pc = "purging"
    /\ worker.purged # NoPath
    /\ worker' = [worker EXCEPT !.purged = NoPath]
    /\ UNCHANGED <<asking, mapVars, notified, loop, waiting, resetter, watchCounts, fsVars, input, history>>

UnwatchPurged ==
    /\ worker.pc = "purging"
    /\ worker.purged # NoPath
    /\ Unwatch(watchedDirs(worker.purged))
    /\ worker' = [worker EXCEPT !.purged = NoPath]
    /\ UNCHANGED <<asking, mapVars, notified, loop, waiting, resetter, fsVars, input, history>>

(* The artifact is saved.  There is one worker, so that its key is free.   *)
Store ==
    /\ worker.pc = "purging"
    /\ worker.purged = NoPath
    /\ Containing(worker.path) = {}
    /\ unsavedFiles' = unsavedFiles \ Bundle[worker.path]
    /\ artifacts' = [artifacts EXCEPT ![worker.path] = worker.stale]
    /\ worker' = [worker EXCEPT !.pc = "watching", !.stale = {}]
    /\ UNCHANGED <<asking, requests, changes, timedOutFiles, notified, loop, waiting, resetter, watchCounts,
                   fsVars, input, history>>

(* Mutant: as a request, a change is deleted when it has been built.       *)
WatchDirsLate ==
    /\ worker.pc = "watching"
    /\ Watch(watchedDirs(worker.path)) /\ UNCHANGED mismatched
    /\ requests' = Deleted(requests, worker.path)
    /\ changes' = Deleted(changes, worker.path)
    /\ worker' = ToNext
    /\ UNCHANGED <<asking, artifacts, unsavedFiles, timedOutFiles, notified, loop, waiting, resetter,
                   fsVars, input, missed, overlooked>>

(* Its directories are watched, as far as the system has watches left.     *)
WatchDirs ==
    /\ worker.pc = "watching"
    /\ \/ Watch(watchedDirs(worker.path)) /\ UNCHANGED mismatched
       \/ /\ "watch" \in Faults
          /\ mismatched' = TRUE
          /\ \E dirs \in SUBSET watchedDirs(worker.path) \ {watchedDirs(worker.path)} : Watch(dirs)
    /\ RequestDone
    /\ worker' = ToNext
    /\ UNCHANGED <<asking, changes, artifacts, unsavedFiles, timedOutFiles, notified, loop, waiting, resetter,
                   fsVars, input, missed, overlooked>>

-----------------------------------------------------------------------------
(* reset() ranges over the artifacts, and deletes each at the end.         *)
Reset ==
    /\ "reset" \in Faults
    /\ resetter.pc = "unused"
    /\ resetter' = [resetter EXCEPT !.pc = "ranging", !.left = Path]
    /\ mismatched' = (mismatched \/ worker.pc \in {"purging", "watching"})
    /\ UNCHANGED <<asking, mapVars, notified, loop, waiting, worker, watchCounts, fsVars, input,
                   missed, overlooked>>

ResetUnwatches(k) ==
    /\ resetter.pc = "ranging"
    /\ k \in Stored \cap resetter.left
    /\ resetter' = [pc |-> "deleting", left |-> resetter.left \ {k}, key |-> k]
    /\ Unwatch(watchedDirs(k))
    /\ UNCHANGED <<asking, mapVars, notified, loop, waiting, worker, fsVars, input, history>>

(* Others are passed over, or stored too late.                             *)
ResetPasses(k) ==
    /\ resetter.pc = "ranging"
    /\ k \in resetter.left \ Stored
    /\ resetter' = [resetter EXCEPT !.left = @ \ {k}]
    /\ UNCHANGED <<asking, mapVars, notified, loop, waiting, worker, watchCounts, fsVars, input, history>>

ResetDeletes ==
    /\ resetter.pc = "deleting"
    /\ artifacts' = [artifacts EXCEPT ![resetter.key] = NoArtifact]
    /\ resetter' = [resetter EXCEPT !.pc = "ranging", !.key = NoPath]
    /\ UNCHANGED <<asking, requests, changes, unsavedFiles, timedOutFiles, notified, loop, waiting, worker,
                   watchCounts, fsVars, input, history>>

ResetReturns ==
    /\ resetter.pc = "ranging"
    /\ resetter.left = {}
    /\ resetter' = [resetter EXCEPT !.pc = "over"]
    /\ UNCHANGED <<asking, mapVars, notified, loop, waiting, worker, watchCounts, fsVars, input, history>>

DriverStep == \E p \in Path : StoreRequest(p) \/ NotifyLoop(p)
LoopStep ==
    \/ RequestNotified \/ ChangeReceived
    \/ (\E k \in Path : outdatedArtifacts(k)) \/ outdatedUnsaved
    \/ (\E p \in Path : StoreChange(p)) \/ AddChangeJob
JobStep ==
    \/ JobEnds \/ SkipChange \/ Filter \/ SkipRequest \/ StoreUnsaved
    \/ BuildStarts \/ BuildFails \/ BuildReturns
    \/ (\E k \in Path : Purge(k)) \/ UnwatchPurged \/ Store \/ WatchDirs

Next ==
    \/ \E f \in Path : Write(f) \/ artifactThatContains(f)
    \/ DriverStep
    \/ SendChanges
    \/ LoopStep
    \/ \E kind \in {"request", "change"} : JobStarts(kind)
    \/ JobStep
    \/ Reset \/ (\E k \in Path : ResetUnwatches(k) \/ ResetPasses(k)) \/ ResetDeletes \/ ResetReturns

Spec == Init /\ [][Next]_vars

(* The goroutines of the drivers, the loop and the worker run, and every   *)
(* job added to the pool is handed out some day.                           *)
Fairness ==
    /\ WF_vars(DriverStep) /\ WF_vars(LoopStep) /\ WF_vars(JobStep)
    /\ \A kind \in {"request", "change"} : SF_vars(JobStarts(kind))

FairSpec == Spec /\ Fairness

-----------------------------------------------------------------------------
(* The artifacts whose watches are counted: they are stored, but for those *)
(* that are not watched yet or any more, or were purged before the watches *)
(* are taken away.                                                         *)
Watched(k) ==
    \/ /\ k \in Stored
       /\ ~(worker.pc = "watching" /\ worker.path = k)
       /\ ~(resetter.pc = "deleting" /\ resetter.key = k)
    \/ worker.purged = k

(* Every directory is watched once for each artifact with files in it,     *)
(* whatever is built, purged and rebuilt, when no watch failed and reset() *)
(* met no build that was about to store its artifact.                      *)
WatchesMatch ==
    ~mismatched => \A d \in Dir :
        watchCounts[d] = Cardinality({k \in Path : Watched(k) /\ d \in watchedDirs(k)})

(* The indexer is going to be told of a file, or the loop has yet to come  *)
(* by an artifact.                                                         *)
OnItsWay(k, f) ==
    \/ f \in pending \/ \E n \in DOMAIN changeChan : f \in changeChan[n]
    \/ k \in loop.left /\ f \in loop.paths

(* A path on the way to the worker or being built, with no write missed.   *)
BeingRebuilt(k, f) ==
    \/ k \in loop.rebuild \cup Keys(changes)
    \/ worker.pc \in {"building", "purging"} /\ worker.path = k /\ f \notin worker.stale

(* An artifact made from an old version of a file is going to be rebuilt,  *)
(* or the indexer is yet to be told, but for writes since its build that   *)
(* were not seen, or not indexed in spite of a try, and for changes that   *)
(* came while the artifact was in neither its old nor its new place.       *)
StaleIsPending ==
    \A k \in Stored : \A f \in artifacts[k] \ (missed[k] \cup overlooked[k]) :
        OnItsWay(k, f) \/ BeingRebuilt(k, f)

(* Requests and changes are handled: no notification that is dropped and   *)
(* no job that collected its work too early leaves one behind.             *)
AllHandled ==
    \A p \in Path : /\ p \in Keys(requests) ~> p \notin Keys(requests)
                    /\ p \in Keys(changes) ~> p \notin Keys(changes)

(* manager.go:361 "Loop over artifacts to determine if any artifacts need  *)
(* to be rebuilt because of the paths changed here": those that need it    *)
(* are found.                                                              *)
StaleIsNoticed ==
    \A k \in Stored : \A f \in artifacts[k] \ missed[k] : OnItsWay(k, f) \/ BeingRebuilt(k, f)
=============================================================================
