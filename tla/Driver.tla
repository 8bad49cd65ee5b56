------------------------------- MODULE Driver -------------------------------
(***************************************************************************)
(* pythoncomplete/driver/driver.go: requests that update the buffer and    *)
(* block on the providers they need, one asynchronous worker that executes *)
(* the scheduler's queue, the garbage collector, and Cleanup and Reset.    *)
(*                                                                         *)
(* Everything but the providers runs under d.cond.L.  The lock is held     *)
(* over several steps only by a caller whose calls of reschedule are not   *)
(* all executed, or that has not yet reached the end of Update.            *)
(* notApplicableSet, which only metrics are made from, is left out.        *)
(***************************************************************************)
EXTENDS Scheduler

CONSTANTS
    blockingProviders,  \* the providers an Update with requestCompletions waits for
    lexicalProviders,   \* ... Lexical, for which it waits only up to a timeout
    EmptyBuffer,        \* the zero value of d.root
    Request,            \* calls of Update, each with a context of its own
    Background,         \* the context of the asynchronous worker
    NoRequest,
    Emits,              \* <<work, source, c>>: what Provide may pass to its callback
    Events              \* bound: the events of the environment that happen

ASSUME DriverAssumption ==
    /\ blockingProviders \subseteq allProviders
    /\ lexicalProviders \subseteq blockingProviders
    /\ EmptyBuffer \in Buf
    /\ Background \notin Request /\ NoRequest \notin Request
    /\ Emits \subseteq Work \X Buf \X Completion
    /\ Events \subseteq {"expire", "notApplicable", "panic", "timeLimit", "gc", "reset"}

VARIABLES
    pause,        \* d.pauseAt: in the future, in the past, or zero
    root,         \* d.root
    doneChans,    \* d.doneChans: the start of the work that made the channel, 0 if none
    starts,       \* how often each work item was started
    running,      \* the functions returned by prepareWorkLocked that have not returned
    cancelled,    \* those whose context was cancelled by the scheduler
    worker,       \* the goroutine of workLoop
    updating,     \* the request that is in Update with the lock held
    req,          \* the progress of each request
    expired,      \* the requests whose context expired
    reset,        \* the caller of Reset
    resetOn,      \* the channels it waits for
    interrupted,  \* history: work that WorkIncomplete made pending again
    truncated,    \* history: work that was aborted and then marked complete
    rescheduled   \* history: the buffer of the last Update that rescheduled

driverVars == <<pause, root, doneChans, starts, running, cancelled, worker, updating,
                req, expired, reset, resetOn, interrupted, truncated, rescheduled>>

vars == <<schedVars, driverVars>>

StartId == Work \X (Nat \ {0})
Run     == [work : Work, id : Nat \ {0}, ctx : Request \cup {Background}]
Id(r)   == <<r.work, r.id>>
RunningIds == {Id(r) : r \in running}

ReqState == [phase : {"idle", "updating", "waiting", "returned", "aborted", "error"},
             blocking : BOOLEAN, buf : Buf, waits : SUBSET StartId]

TypeOK ==
    /\ SchedTypeOK
    /\ pause \in {"future", "past", "zero"}
    /\ root \in Buf
    /\ doneChans \in [Work -> Nat]
    /\ starts \in [Work -> Nat]
    /\ running \subseteq Run
    /\ cancelled \subseteq StartId
    /\ worker \in {"awake", "asleep", "busy", "exited"}
    /\ updating \in Request \cup {NoRequest}
    /\ req \in [Request -> ReqState]
    /\ expired \subseteq Request
    /\ reset \in {"idle", "waiting", "returned"}
    /\ resetOn \subseteq StartId
    /\ interrupted \subseteq Work
    /\ truncated \subseteq Work
    /\ rescheduled \in Buf

(* A request that is not in Update.                                        *)
Over(phase) == [phase |-> phase, blocking |-> FALSE, buf |-> EmptyBuffer, waits |-> {}]

Init ==
    /\ newScheduler
    /\ pause = "past"
    /\ root = EmptyBuffer
    /\ doneChans = [w \in Work |-> 0]
    /\ starts = [w \in Work |-> 0]
    /\ running = {}
    /\ cancelled = {}
    /\ worker = "awake"
    /\ updating = NoRequest
    /\ req = [q \in Request |-> Over("idle")]
    /\ expired = {}
    /\ reset = "idle" /\ resetOn = {}
    /\ interrupted = {} /\ truncated = {}
    /\ rescheduled = EmptyBuffer

(* Nobody holds d.cond.L.                                                  *)
Free == calls = {} /\ updating = NoRequest

-----------------------------------------------------------------------------
(* prepareWorkLocked for the items of W, in a goroutine with context ctx.  *)
(* Each is pending, so that WorkStarting does not return an error.         *)
prepareWorkLocked(W, ctx) ==
    LET started == [w \in Work |-> starts[w] + 1]
    IN  /\ WorkStarting(W, started)
        /\ starts' = [w \in Work |-> IF w \in W THEN started[w] ELSE starts[w]]
        /\ doneChans' = [w \in Work |-> IF w \in W THEN started[w] ELSE doneChans[w]]
        /\ running' = running \cup {[work |-> w, id |-> started[w], ctx |-> ctx] : w \in W}
        /\ interrupted' = interrupted \ W

(* Mutant: the work that another call has started is not waited for.       *)
BlockOnOwn(q, b) ==
    LET Own == {w \in {b} \X blockingProviders : status[w] = "pending"}
    IN  /\ prepareWorkLocked(Own, q)
        /\ req' = [req EXCEPT ![q] =
                     [phase |-> "waiting", blocking |-> TRUE, buf |-> b,
                      waits |-> {<<w, doneChans'[w]>> : w \in Own}]]

(* updateBlocking, the loop over blockingProviders: pending work is        *)
(* started, and the request waits for the channels of it and of the work   *)
(* that is in progress.  A request that does not block just returns.       *)
BlockOn(q, b) ==
    LET Own     == {w \in {b} \X blockingProviders : status[w] = "pending"}
        Joined  == {w \in {b} \X blockingProviders : status[w] = "inProgress"}
    IN  /\ prepareWorkLocked(Own, q)
        /\ req' = [req EXCEPT ![q] =
                     [phase |-> "waiting", blocking |-> TRUE, buf |-> b,
                      waits |-> {<<w, doneChans'[w]>> : w \in Own \cup Joined}]]

ReturnAtOnce(q) ==
    /\ req' = [req EXCEPT ![q] = Over("returned")]
    /\ UNCHANGED <<status, priority, queue, cancel, starts, doneChans, running, interrupted>>

(* Update of a stopped Driver.                                             *)
UpdateFails(q) ==
    /\ Free
    /\ req[q].phase = "idle"
    /\ pause = "zero"
    /\ req' = [req EXCEPT ![q] = Over("error")]
    /\ UNCHANGED <<schedVars, pause, root, doneChans, starts, running, cancelled, worker,
                   updating, expired, rescheduled, reset, resetOn, interrupted, truncated>>

(* Mutant: resuming does not wake the worker.                              *)
UnpauseSilently == worker' = worker

(* d.cond.Broadcast().                                                     *)
Broadcast == worker' = IF worker = "asleep" THEN "awake" ELSE worker

(* Update when the scheduler has nothing to do: the state has depth 0.     *)
UpdateUnchanged(q, b, blocking) ==
    /\ Free
    /\ req[q].phase = "idle"
    /\ pause # "zero"
    /\ depth[b] = 0
    /\ pause' = "future"
    /\ Broadcast
    /\ root' = b
    /\ IF blocking THEN BlockOn(q, b) ELSE ReturnAtOnce(q)
    /\ UNCHANGED <<depth, score, aged, completions, calls, cancelled, updating,
                   expired, rescheduled, reset, resetOn, truncated>>

(* Update, up to the call of reschedule.                                   *)
UpdateBegins(q, b, blocking) ==
    /\ Free
    /\ req[q].phase = "idle"
    /\ pause # "zero"
    /\ pause' = "future"
    /\ Broadcast
    /\ UpdateSchedule(root, b)
    /\ updating' = q
    /\ req' = [req EXCEPT ![q] = [phase |-> "updating", blocking |-> blocking,
                                  buf |-> b, waits |-> {}]]
    /\ rescheduled' = b
    /\ UNCHANGED <<root, doneChans, starts, running, cancelled, expired,
                   reset, resetOn, interrupted, truncated>>

(* Mutant: orphaned work is left running.                                  *)
UpdateEndsUncancelled(q) ==
    /\ updating = q
    /\ calls = {}
    /\ root' = req[q].buf
    /\ IF req[q].blocking THEN BlockOn(q, req[q].buf) ELSE ReturnAtOnce(q)
    /\ updating' = NoRequest
    /\ UNCHANGED <<depth, score, aged, completions, calls, cancelled, pause, worker,
                   expired, rescheduled, reset, resetOn, truncated>>

(* Update, from the return of reschedule: orphaned work is cancelled, the  *)
(* root is stored and the blocking providers are started.  Cancelling work *)
(* that has returned has no effect.                                        *)
UpdateEnds(q) ==
    /\ updating = q
    /\ calls = {}
    /\ cancelled' = cancelled \cup (CancelOf(Orphaned) \cap RunningIds)
    /\ root' = req[q].buf
    /\ IF req[q].blocking THEN BlockOn(q, req[q].buf) ELSE ReturnAtOnce(q)
    /\ updating' = NoRequest
    /\ UNCHANGED <<depth, score, aged, completions, calls, pause, worker,
                   expired, rescheduled, reset, resetOn, truncated>>

(* One call of reschedule.  Push signals d.cond.                           *)
Reschedule ==
    /\ \E call \in calls :
         \/ rescheduleReturns(call[1], call[2], call[3])
         \/ rescheduleVisits(call[1], call[2], call[3])
    /\ worker' = IF worker = "asleep" /\ queue' \ queue # {} THEN "awake" ELSE worker
    /\ UNCHANGED <<pause, root, doneChans, starts, running, cancelled, updating, req,
                   expired, rescheduled, reset, resetOn, interrupted, truncated>>

-----------------------------------------------------------------------------
(* The rest of updateBlocking: the request waits for its channels, for     *)
(* those of Lexical only until the timeout, and mixes what is cached.      *)
UpdateReturns(q) ==
    /\ Free
    /\ req[q].phase = "waiting"
    /\ \A i \in req[q].waits : i \in RunningIds => i[1][2] \in lexicalProviders
    /\ req' = [req EXCEPT ![q] = Over("returned")]
    /\ UNCHANGED <<schedVars, pause, root, doneChans, starts, running, cancelled, worker,
                   updating, expired, rescheduled, reset, resetOn, interrupted, truncated>>

(* ctx.Abort() in one of the selects.                                      *)
UpdateAborts(q) ==
    /\ req[q].phase = "waiting"
    /\ q \in expired
    /\ req' = [req EXCEPT ![q] = Over("aborted")]
    /\ UNCHANGED <<schedVars, pause, root, doneChans, starts, running, cancelled, worker,
                   updating, expired, rescheduled, reset, resetOn, interrupted, truncated>>

(* The context of a request expires: its deadline, the client that hangs   *)
(* up, or the HTTP handler that has returned.  Without a run that depends  *)
(* on it, nobody notices.                                                  *)
Expire(q) ==
    /\ "expire" \in Events
    /\ req[q].phase = "waiting" \/ \E r \in running : r.ctx = q
    /\ q \notin expired
    /\ expired' = expired \cup {q}
    /\ UNCHANGED <<schedVars, pause, root, doneChans, starts, running, cancelled, worker,
                   updating, req, rescheduled, reset, resetOn, interrupted, truncated>>

-----------------------------------------------------------------------------
(* The function returned by prepareWorkLocked.                             *)

ParentExpired(r) == IF r.ctx = Background THEN pause = "zero" ELSE r.ctx \in expired

(* ... and the expiry is visible to CheckAbort: Cleanup and ctx.Abort()    *)
(* wait for it, a deadline or a hang-up does not.                          *)
ParentSeenExpired(r) ==
    IF r.ctx = Background THEN pause = "zero" ELSE req[r.ctx].phase = "aborted"

(* The provider's callback.  cancel() waits until the context is expired,  *)
(* so that a cancelled run does not pass CheckAbort; the expiry of the     *)
(* parent reaches the context of the run only eventually.                  *)
Provide(r) ==
    /\ Free
    /\ Id(r) \notin cancelled
    /\ \E e \in Emits : e[1] = r.work /\ GotCompletion(r.work, e[2], e[3])
    /\ UNCHANGED driverVars

(* Mutant: the entry of doneChans stays.                                   *)
FinishKeepsChan(r, st) ==
    /\ Free
    /\ WorkEnds(r.work, st)
    /\ running' = running \ {r}
    /\ cancelled' = cancelled \ {Id(r)}
    /\ UNCHANGED <<doneChans, pause, root, starts, updating, req, expired, rescheduled,
                   reset, resetOn>>

(* Mutant: the deferred function is skipped for a cancelled run.           *)
FinishUnlessCancelled(r, st) ==
    /\ Free
    /\ WorkEnds(r.work, st)
    /\ doneChans' = [doneChans EXCEPT ![r.work] = 0]
    /\ running' = IF Id(r) \in cancelled THEN running ELSE running \ {r}
    /\ UNCHANGED <<cancelled, pause, root, starts, updating, req, expired, rescheduled,
                   reset, resetOn>>

(* The deferred function: the status is set, the channel is closed and the *)
(* entry of doneChans deleted, whichever run made it.                      *)
Finish(r, st) ==
    /\ Free
    /\ WorkEnds(r.work, st)
    /\ doneChans' = [doneChans EXCEPT ![r.work] = 0]
    /\ running' = running \ {r}
    /\ cancelled' = cancelled \ {Id(r)}
    /\ UNCHANGED <<pause, root, starts, updating, req, expired, rescheduled,
                   reset, resetOn>>

(* The asynchronous worker goes on with its loop.                          *)
Resume(r) == worker' = IF r.ctx = Background THEN "awake" ELSE worker

(* A panic that nobody recovers ends the goroutine of the worker; the      *)
(* handler of kitectx.Go swallows it.                                      *)
Unwind(r) == worker' = IF r.ctx = Background THEN "exited" ELSE worker

(* Provide returns nil or an error of its own.                             *)
Complete(r) ==
    /\ Finish(r, "complete")
    /\ Resume(r)
    /\ truncated' = truncated \ {r.work}
    /\ UNCHANGED interrupted

(* Provide returns ProviderNotApplicableError.                             *)
NotApplicable(r) ==
    /\ "notApplicable" \in Events
    /\ Finish(r, "notApplicable")
    /\ Resume(r)
    /\ truncated' = truncated \ {r.work}
    /\ UNCHANGED interrupted

(* Provide panics with anything but an abort: err is still nil in the      *)
(* deferred function.                                                      *)
Panic(r) ==
    /\ "panic" \in Events
    /\ Finish(r, "complete")
    /\ Unwind(r)
    /\ truncated' = truncated \ {r.work}
    /\ UNCHANGED interrupted

(* CheckAbort aborts and recoverAbort sets a ContextExpiredError, because  *)
(* the parent is not expired or not yet seen to be.                        *)
Abort(r) ==
    /\ Id(r) \in cancelled \/ ParentExpired(r)
    /\ ~ParentSeenExpired(r)
    /\ Finish(r, "pending")
    /\ Resume(r)
    /\ interrupted' = interrupted \cup {r.work}
    /\ UNCHANGED truncated

(* CheckAbort aborts and recoverAbort goes on unwinding, because the       *)
(* parent is expired too: err is still nil in the deferred function.       *)
AbortParent(r) ==
    /\ ParentExpired(r)
    /\ Finish(r, "complete")
    /\ Unwind(r)
    /\ truncated' = truncated \cup {r.work}
    /\ UNCHANGED interrupted

Ends(r) == Complete(r) \/ NotApplicable(r) \/ Panic(r) \/ Abort(r) \/ AbortParent(r)

-----------------------------------------------------------------------------
(* workLoop.                                                               *)

CanWork == pause = "future" /\ HasWork

(* GetWork and prepareWorkLocked.                                          *)
WorkerStarts ==
    /\ Free
    /\ worker = "awake"
    /\ CanWork
    /\ \E w \in queue :
         /\ IsNext(w)
         /\ status[w] = "pending"
         /\ prepareWorkLocked({w}, Background)
    /\ worker' = "busy"
    /\ UNCHANGED <<depth, score, aged, completions, calls, pause, root, cancelled, updating,
                   req, expired, rescheduled, reset, resetOn, truncated>>

(* GetWork panics when the item is not pending.                            *)
WorkerPanics ==
    /\ Free
    /\ worker = "awake"
    /\ CanWork
    /\ \E w \in queue : IsNext(w) /\ status[w] # "pending"
    /\ worker' = "exited"
    /\ UNCHANGED <<schedVars, pause, root, doneChans, starts, running, cancelled,
                   updating, req, expired, rescheduled, reset, resetOn, interrupted, truncated>>

(* d.cond.Wait().                                                          *)
WorkerSleeps ==
    /\ Free
    /\ worker = "awake"
    /\ pause # "zero"
    /\ ~CanWork
    /\ worker' = "asleep"
    /\ UNCHANGED <<schedVars, pause, root, doneChans, starts, running, cancelled,
                   updating, req, expired, rescheduled, reset, resetOn, interrupted, truncated>>

(* CheckAbort, after Cleanup.                                              *)
WorkerExits ==
    /\ worker = "awake"
    /\ pause = "zero"
    /\ worker' = "exited"
    /\ UNCHANGED <<schedVars, pause, root, doneChans, starts, running, cancelled,
                   updating, req, expired, rescheduled, reset, resetOn, interrupted, truncated>>

(* speculationTimeLimit passes after the last Update.                      *)
TimeLimit ==
    /\ "timeLimit" \in Events
    /\ pause = "future"
    /\ pause' = "past"
    /\ UNCHANGED <<schedVars, root, doneChans, starts, running, cancelled, worker,
                   updating, req, expired, rescheduled, reset, resetOn, interrupted, truncated>>

(* garbageCollector, until Cleanup.                                        *)
GarbageCollect ==
    /\ "gc" \in Events
    /\ Free
    /\ pause # "zero"
    /\ Prune
    /\ cancelled' = cancelled \cup (CancelOf(Orphaned \cap aged) \cap RunningIds)
    /\ interrupted' = {w \in interrupted : w[1] \notin Orphaned \cap aged}
    /\ UNCHANGED <<pause, root, doneChans, starts, running, worker, updating, req,
                   expired, rescheduled, reset, resetOn, truncated>>

(* Reset: Cleanup ...                                                      *)
ResetCall ==
    /\ "reset" \in Events
    /\ Free
    /\ reset = "idle"
    /\ reset' = "waiting"
    /\ pause' = "zero"
    /\ Broadcast
    /\ UNCHANGED <<schedVars, root, doneChans, starts, running, cancelled, updating, req,
                   expired, rescheduled, resetOn, interrupted, truncated>>

(* Mutant: only the run of the asynchronous worker is waited for.          *)
ResetLooksForWorker ==
    /\ Free
    /\ reset = "waiting"
    /\ resetOn \cap RunningIds = {}
    /\ resetOn' = {Id(r) : r \in {s \in running : s.ctx = Background}}
    /\ reset' = IF resetOn' = {} THEN "returned" ELSE "waiting"
    /\ UNCHANGED <<schedVars, pause, root, doneChans, starts, running, cancelled, worker,
                   updating, req, expired, rescheduled, interrupted, truncated>>

(* ... and waitUntilPaused, one turn of its loop: the channels of the last *)
(* turn are closed.                                                        *)
ResetLooks ==
    /\ Free
    /\ reset = "waiting"
    /\ resetOn \cap RunningIds = {}
    /\ resetOn' = {<<w, doneChans[w]>> : w \in {v \in Work : doneChans[v] # 0}}
    /\ reset' = IF resetOn' = {} THEN "returned" ELSE "waiting"
    /\ UNCHANGED <<schedVars, pause, root, doneChans, starts, running, cancelled, worker,
                   updating, req, expired, rescheduled, interrupted, truncated>>

-----------------------------------------------------------------------------
Next ==
    \/ \E q \in Request, b \in Buf, blocking \in BOOLEAN :
         UpdateUnchanged(q, b, blocking) \/ UpdateBegins(q, b, blocking)
    \/ \E q \in Request : UpdateFails(q) \/ UpdateEnds(q) \/ UpdateReturns(q) \/ UpdateAborts(q) \/ Expire(q)
    \/ Reschedule
    \/ \E r \in running : Provide(r) \/ Ends(r)
    \/ WorkerStarts \/ WorkerPanics \/ WorkerSleeps \/ WorkerExits
    \/ TimeLimit \/ GarbageCollect \/ ResetCall \/ ResetLooks

Spec == Init /\ [][Next]_vars

(* The holder of the lock goes on.                                         *)
HolderFairness ==
    /\ WF_vars(Reschedule)
    /\ \A q \in Request : WF_vars(UpdateEnds(q))

LockSpec == Spec /\ HolderFairness

(* d.cond.L, a sync.Mutex, is handed over in turn, so that whoever waits   *)
(* for it gets it; a provider returns.                                     *)
Fairness ==
    /\ HolderFairness
    /\ \A q \in Request : SF_vars(UpdateReturns(q))
    /\ \A w \in Work : SF_vars(\E r \in running : r.work = w /\ Ends(r))
    /\ SF_vars(ResetLooks)

FairSpec == Spec /\ Fairness

-----------------------------------------------------------------------------
(* The panic "no done channel for in-progress work" of updateBlocking      *)
(* cannot happen: work in progress has a channel ...                       *)
InProgressHasDoneChan ==
    \A w \in Work : status[w] = "inProgress" => doneChans[w] # 0

(* ... and a channel that is handed out will be closed: it belongs to a    *)
(* run of that work that has not returned.                                 *)
DoneChanIsOpen ==
    \A w \in Work : doneChans[w] # 0 => <<w, doneChans[w]>> \in RunningIds

(* Only work on states reachable from the root is queued, so that Prune    *)
(* never deletes a state whose work is still in the heap.                  *)
QueuedIsReachable == \A w \in queue : depth[w[1]] >= 0

(* Once an Update is over, the last run of each provision of an orphaned   *)
(* state is cancelled, or has returned.                                    *)
OrphansCancelled ==
    Free => CancelOf(Orphaned) \cap RunningIds \subseteq cancelled

(* The worker does not sleep through a signal: when it waits on d.cond     *)
(* there is nothing it may do.                                             *)
NoLostWakeup == worker = "asleep" => ~CanWork

(* Pending work that the depth of its state calls for is in the heap,      *)
(* unless an abort took it out of the hands of the scheduler.              *)
PendingIsQueued ==
    Free => \A b \in Buf : \A p \in Scheduled(depth[b]) :
              status[<<b, p>>] = "pending" => <<b, p>> \in queue \cup interrupted

(* The labels <<b, d, s>> within the limit, and those that states have.    *)
Label == Buf \X (0..depthLimit) \X Score
Marks == {<<b, depth[b], score[b]>> : b \in {x \in Buf : depth[x] >= 0}}

(* The labels that one cached completion leads to from those of S.         *)
Onward(S) ==
    {l \in UNION {rescheduleCompletion(x[2], x[3], x[1][2], x[1][3]) :
                     x \in {y \in S \X allProviders \X Completion :
                              y[3] \in completions[<<y[1][1], y[2]>>]}} :
        l[2] <= depthLimit}

(* The labels of the paths of completions from r: with each of the n steps *)
(* there are more of them, or there are no more.                           *)
Labels(r) ==
    LET L[n \in 0..Cardinality(Label)] ==
          IF n = 0 THEN {<<r, 0, One>>}
          ELSE LET before == L[n - 1] IN before \cup Onward(before)
    IN  L[Cardinality(Label)]

(* scheduling.go:92 "we base the score solely on the shortest path to the  *)
(* given buffer": however the maps are iterated and whatever was labelled  *)
(* before, the depth of a state is that of the shortest path of cached     *)
(* completions from the buffer of the last Update that rescheduled, and    *)
(* its score that of one of these paths; without a path it has neither.    *)
(* d.root is that buffer or one that leads from it at depth zero.          *)
DepthIsShortest ==
    Free /\ Marks # {} =>
      LET All == Labels(rescheduled)
      IN  /\ Marks \subseteq All
          /\ \A l \in All : depth[l[1]] \in 0..l[2]
          /\ depth[root] = 0

(* scheduling.go:96 "if there are multiple shortest paths, the greatest    *)
(* score is chosen", up to the tolerance, and the choice is followed: of   *)
(* the labels that the cached completions lead to from the present labels, *)
(* none as short as the one its state has exceeds its score by more.       *)
GreatestScoreIsChosen ==
    Free => \A l \in Onward(Marks) :
              depth[l[1]] = l[2] => l[3] <= score[l[1]] + tolerance

(* Runs: what is left of a Driver without lock, heap and labels.  A call   *)
(* counts as made when it blocks or returns.                               *)
Known(st) == CASE st = "pending"    -> "pending"
               [] st = "inProgress" -> "inProgress"
               [] OTHER             -> "settled"

Runs == INSTANCE ProviderRuns WITH
    Provider <- allProviders,
    Blocking <- blockingProviders,
    Lexical  <- lexicalProviders,
    stopped  <- pause = "zero",
    live     <- RunningIds,
    status   <- [w \in Work |-> Known(status[w])],
    phase    <- [q \in Request |-> IF req[q].phase = "updating" THEN "idle" ELSE req[q].phase],
    owed     <- [q \in Request |-> IF req[q].phase = "waiting" THEN req[q].waits ELSE {}]

(* driver.go:233 updateBlocking: whoever starts, joins, cancels or prunes  *)
(* the work of a buffer, its callers see each provider run and waited for. *)
DriverIsProviderRuns == Runs!Spec

(* driver.go:476 "It blocks until all ongoing background work has been     *)
(* finished", of the work the scheduler knows to be in progress: none is   *)
(* when Reset has returned, and none comes back.                           *)
ResetIsQuiet ==
    reset = "returned" => \A w \in Work : doneChans[w] = 0 /\ status[w] # "inProgress"

(* reschedule terminates, whatever cycles the completions form: whoever    *)
(* holds the lock releases it.                                             *)
LockIsReleased == ~Free ~> Free

(* A blocking Update returns or is aborted.                                *)
UpdateIsAnswered ==
    \A q \in Request : req[q].phase = "waiting" ~> req[q].phase \in {"returned", "aborted"}

(* Reset returns.                                                          *)
ResetEnds == reset = "waiting" ~> reset = "returned"

(* scheduler.go:412 "if hIndex >= 0, then status == statusPending".        *)
QueuedIsPending == \A w \in queue : status[w] = "pending"

(* driver.go:476 "It blocks until all ongoing background work has been     *)
(* finished."                                                              *)
ResetWaitsForWork == reset = "returned" => running = {}

(* scheduler.go:121 "WorkIncomplete should be called when a workItem is no *)
(* longer in progress, but it is also not complete.  This is typically due *)
(* to a context expiry."                                                   *)
AbortedIsIncomplete == \A w \in truncated : status[w] # "complete"
=============================================================================
