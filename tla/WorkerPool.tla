----------------------------- MODULE WorkerPool -----------------------------
(***************************************************************************)
(* kite-golib/workerpool/pool.go: a fixed collection of worker goroutines  *)
(* that take Jobs from an unbuffered channel, a context that stops them,   *)
(* and a sync.WaitGroup that Wait blocks on.                               *)
(*                                                                         *)
(* A batch is the set of jobs of one call of Add or AddBlocking; the two   *)
(* differ only in the goroutine that runs addBlocking.  A send on the      *)
(* unbuffered channel is a rendezvous of the adder and an idle worker.     *)
(***************************************************************************)
EXTENDS Integers, FiniteSets

CONSTANTS Workers,  \* the n goroutines started by NewWithCtx
          Job,      \* every job that is ever added
          Batches,  \* the argument of each Add/AddBlocking call, a set of jobs
          Idle,     \* a worker blocked in its select
          Exited    \* a worker that returned

ASSUME PoolAssumption ==
    /\ IsFiniteSet(Job)
    /\ \A b \in Batches : b \subseteq Job
    /\ \A b, c \in Batches : b # c => b \cap c = {}
    /\ Idle \notin Job /\ Exited \notin Job /\ Idle # Exited

VARIABLES stopped,   \* l.ctx is done
          wg,        \* the WaitGroup's counter
          adding,    \* batches whose addBlocking is in progress
          state,     \* progress of each job
          worker,    \* the job each worker executes, or Idle or Exited
          errs,      \* l.errsGuarded, as the set of jobs whose error it holds
          wait,      \* the caller of Wait: idle, blocked, woken or returned
          result,    \* what Wait returned
          erred,     \* history: the jobs that returned an error
          before     \* history: the jobs added before Wait was called

vars == <<stopped, wg, adding, state, worker, errs, wait, result, erred, before>>

JobState == {"new", "offered", "dropped", "running", "failed", "returned", "finished"}

(* The counter of a sync.WaitGroup panics when it becomes negative.        *)
TypeOK ==
    /\ stopped \in BOOLEAN
    /\ wg \in Nat
    /\ adding \subseteq Batches
    /\ state \in [Job -> JobState]
    /\ worker \in [Workers -> Job \cup {Idle, Exited}]
    /\ errs \subseteq Job
    /\ wait \in {"idle", "blocked", "woken", "returned"}
    /\ result \subseteq Job
    /\ erred \subseteq Job
    /\ before \subseteq Job

Init ==
    /\ stopped = FALSE
    /\ wg = 0
    /\ adding = {}
    /\ state = [j \in Job |-> "new"]
    /\ worker = [w \in Workers |-> Idle]
    /\ errs = {}
    /\ wait = "idle"
    /\ result = {}
    /\ erred = {}
    /\ before = {}

-----------------------------------------------------------------------------
(* Mutant: Add leaves l.wg.Add to the goroutine that hands the jobs out.   *)
AddUncounted(b) ==
    /\ \A j \in b : state[j] = "new"
    /\ b \notin adding
    /\ adding' = adding \cup {b}
    /\ state' = [j \in Job |-> IF j \in b THEN "offered" ELSE state[j]]
    /\ UNCHANGED <<stopped, wg, worker, errs, wait, result, erred, before>>

(* Add and AddBlocking: the wait group counts the jobs before the first    *)
(* one is offered to a worker.                                             *)
Add(b) ==
    /\ \A j \in b : state[j] = "new"
    /\ b \notin adding
    /\ wg' = wg + Cardinality(b)
    /\ adding' = adding \cup {b}
    /\ state' = [j \in Job |-> IF j \in b THEN "offered" ELSE state[j]]
    /\ UNCHANGED <<stopped, worker, errs, wait, result, erred, before>>

(* addBlocking, case l.queue <- j, with a worker's case j := <-l.queue.    *)
(* A select with both cases ready picks either, so neither side checks     *)
(* that the context is still alive.                                        *)
Handoff(b, j, w) ==
    /\ b \in adding
    /\ state[j] = "offered"
    /\ worker[w] = Idle
    /\ state' = [state EXCEPT ![j] = "running"]
    /\ worker' = [worker EXCEPT ![w] = j]
    /\ UNCHANGED <<stopped, wg, adding, errs, wait, result, erred, before>>

(* addBlocking, case <-l.ctx.Done(): the break leaves the select and the   *)
(* loop goes on to offer the next job.                                     *)
Drop(b, j) ==
    /\ b \in adding
    /\ state[j] = "offered"
    /\ stopped
    /\ state' = [state EXCEPT ![j] = "dropped"]
    /\ UNCHANGED <<stopped, wg, adding, worker, errs, wait, result, erred, before>>

(* addBlocking's local counter when its loop has ended.                    *)
Processed(b) == Cardinality({j \in b : state[j] # "dropped"})

(* Mutant: the jobs that were dropped stay in the wait group.              *)
AddReturnsUnsettled(b) ==
    /\ b \in adding
    /\ \A j \in b : state[j] # "offered"
    /\ adding' = adding \ {b}
    /\ UNCHANGED <<stopped, wg, state, worker, errs, wait, result, erred, before>>

(* The end of addBlocking takes the jobs that no worker received out of    *)
(* the wait group.                                                         *)
AddReturns(b) ==
    /\ b \in adding
    /\ \A j \in b : state[j] # "offered"
    /\ wg' = wg + (Processed(b) - Cardinality(b))
    /\ adding' = adding \ {b}
    /\ UNCHANGED <<stopped, state, worker, errs, wait, result, erred, before>>

-----------------------------------------------------------------------------
(* worker: the job returns an error or nil.                                *)
JobReturns(w) ==
    /\ worker[w] \in Job
    /\ state[worker[w]] = "running"
    /\ \/ /\ state' = [state EXCEPT ![worker[w]] = "failed"]
          /\ erred' = erred \cup {worker[w]}
       \/ /\ state' = [state EXCEPT ![worker[w]] = "returned"]
          /\ UNCHANGED erred
    /\ UNCHANGED <<stopped, wg, adding, worker, errs, wait, result, before>>

(* worker: the error is appended under l.m.                                *)
RecordErr(w) ==
    /\ worker[w] \in Job
    /\ state[worker[w]] = "failed"
    /\ errs' = errs \cup {worker[w]}
    /\ state' = [state EXCEPT ![worker[w]] = "returned"]
    /\ UNCHANGED <<stopped, wg, adding, worker, wait, result, erred, before>>

(* Mutant: l.wg.Done() runs before the error is appended.                  *)
DoneBeforeErr(w) ==
    /\ worker[w] \in Job
    /\ state[worker[w]] \in {"failed", "returned"}
    /\ wg' = wg - 1
    /\ state' = [state EXCEPT ![worker[w]] = "finished"]
    /\ worker' = [worker EXCEPT ![w] = Idle]
    /\ UNCHANGED <<stopped, adding, errs, wait, result, erred, before>>

(* worker: l.wg.Done(), after which the loop selects again.                *)
Done(w) ==
    /\ worker[w] \in Job
    /\ state[worker[w]] = "returned"
    /\ wg' = wg - 1
    /\ state' = [state EXCEPT ![worker[w]] = "finished"]
    /\ worker' = [worker EXCEPT ![w] = Idle]
    /\ UNCHANGED <<stopped, adding, errs, wait, result, erred, before>>

(* worker: case <-l.ctx.Done().                                            *)
Exit(w) ==
    /\ worker[w] = Idle
    /\ stopped
    /\ worker' = [worker EXCEPT ![w] = Exited]
    /\ UNCHANGED <<stopped, wg, adding, state, errs, wait, result, erred, before>>

-----------------------------------------------------------------------------
Stop ==
    /\ ~stopped
    /\ stopped' = TRUE
    /\ UNCHANGED <<wg, adding, state, worker, errs, wait, result, erred, before>>

(* Wait is called ...                                                      *)
WaitCall ==
    /\ wait = "idle"
    /\ wait' = "blocked"
    /\ before' = {j \in Job : state[j] # "new"}
    /\ UNCHANGED <<stopped, wg, adding, state, worker, errs, result, erred>>

(* ... l.wg.Wait() lets the caller pass when the counter is zero ...       *)
WaitWakes ==
    /\ wait = "blocked"
    /\ wg = 0
    /\ wait' = "woken"
    /\ UNCHANGED <<stopped, wg, adding, state, worker, errs, result, erred, before>>

(* ... and l.Err() reads the errors under l.m.                             *)
WaitReturns ==
    /\ wait = "woken"
    /\ wait' = "returned"
    /\ result' = errs
    /\ UNCHANGED <<stopped, wg, adding, state, worker, errs, erred, before>>

Adder(b) ==
    \/ \E j \in b, w \in Workers : Handoff(b, j, w)
    \/ \E j \in b : Drop(b, j)
    \/ AddReturns(b)

Worker(w) == JobReturns(w) \/ RecordErr(w) \/ Done(w) \/ Exit(w)

Next ==
    \/ \E b \in Batches : Add(b) \/ Adder(b)
    \/ \E w \in Workers : Worker(w)
    \/ Stop \/ WaitCall \/ WaitWakes \/ WaitReturns

Spec == Init /\ [][Next]_vars

(* The goroutines of the pool are scheduled by the Go runtime and a job    *)
(* returns; nothing forces a caller to Add, to Stop or to Wait.            *)
Fairness ==
    /\ \A b \in Batches : WF_vars(Adder(b))
    /\ \A w \in Workers : WF_vars(Worker(w))
    /\ WF_vars(WaitWakes) /\ WF_vars(WaitReturns)

FairSpec == Spec /\ Fairness

-----------------------------------------------------------------------------
(* The jobs the wait group must be counting: those an active addBlocking   *)
(* still has to settle, and those a worker has not called Done for.        *)
Outstanding ==
    {j \in Job : \/ state[j] \in {"running", "failed", "returned", "offered"}
                 \/ state[j] = "dropped" /\ \E b \in adding : j \in b}

(* The counter is exactly the number of outstanding jobs, so that neither  *)
(* Done nor the correction at the end of addBlocking makes it negative     *)
(* (which panics) and no job is counted twice or forgotten.                *)
WaitGroupExact == wg = Cardinality(Outstanding)

(* When Wait returns, every job added before the call has been settled:    *)
(* it ran to its end or was discarded by Stop.                             *)
WaitIsBarrier ==
    wait \in {"woken", "returned"} =>
        \A j \in before : state[j] \in {"finished", "dropped"}

(* The errors Wait returns include that of every job added before the call *)
(* that returned one.                                                      *)
WaitReturnsErrors == wait = "returned" => erred \cap before \subseteq result

(* A caller blocked in Wait gets out after Stop, whatever was queued.      *)
StopReleasesWait == stopped /\ wait = "blocked" ~> wait = "returned"

(* The jobs in a state of their way through the pool.                      *)
In(states) == {j \in Job : state[j] \in states}

Barrier == INSTANCE JobBarrier WITH
    added     <- In(JobState \ {"new"}),
    settled   <- In({"finished"}),
    discarded <- In({"dropped"}),
    failed    <- erred,
    wait      <- IF wait \in {"blocked", "woken"} THEN "waiting" ELSE wait

(* To its callers the pool is a barrier that loses and invents no error:   *)
(* handing out, counting and recording are not seen, a job is discarded    *)
(* only after Stop, and none comes back once it is over.                   *)
PoolIsBarrier == Barrier!Spec
=============================================================================
