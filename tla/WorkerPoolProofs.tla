-------------------------- MODULE WorkerPoolProofs --------------------------
(***************************************************************************)
(* For every finite set of jobs, every family of disjoint batches and any  *)
(* number of workers: the wait group of WorkerPool counts exactly the      *)
(* outstanding jobs, and Wait is a barrier that loses no error.            *)
(***************************************************************************)
EXTENDS WorkerPool, TLAPS, FiniteSetTheorems

(* TypeOK without the claim that the counter is not negative, which only   *)
(* follows from WaitGroupExact.                                            *)
Types ==
    /\ stopped \in BOOLEAN
    /\ wg \in Int
    /\ adding \subseteq Batches
    /\ state \in [Job -> JobState]
    /\ worker \in [Workers -> Job \cup {Idle, Exited}]
    /\ errs \subseteq Job
    /\ wait \in {"idle", "blocked", "woken", "returned"}
    /\ result \subseteq Job
    /\ erred \subseteq Job
    /\ before \subseteq Job

(* A busy worker holds a job that has not been settled, and no two workers *)
(* hold the same one.                                                      *)
WorkerHoldsJob ==
    /\ \A w \in Workers : worker[w] \in Job =>
            state[worker[w]] \in {"running", "failed", "returned"}
    /\ \A v, w \in Workers : worker[v] = worker[w] /\ worker[v] \in Job => v = w

(* The jobs counted in before are no longer new.                           *)
BeforeIsAdded == \A j \in before : state[j] # "new"

(* An error is either recorded or held by the worker about to record it.   *)
ErrorsKept == \A j \in erred : j \in errs \/ state[j] = "failed"

IInv ==
    /\ Types
    /\ WaitGroupExact
    /\ WorkerHoldsJob
    /\ BeforeIsAdded
    /\ ErrorsKept
    /\ WaitIsBarrier
    /\ WaitReturnsErrors

(* The outstanding jobs can be counted.                                    *)
LEMMA OutstandingFinite ==
    /\ IsFiniteSet(Outstanding)
    /\ Cardinality(Outstanding) \in Nat
<1>1. Outstanding \in SUBSET Job
  BY DEF Outstanding
<1>2. IsFiniteSet(Outstanding)
  BY <1>1, PoolAssumption, FS_Subset
<1> QED
  BY <1>2, FS_CardinalityType

(* A new pool satisfies the invariant.                                     *)
LEMMA InitIInv == Init => IInv
<1> SUFFICES ASSUME Init PROVE IInv
  OBVIOUS
<1>1. Outstanding = {}
  BY DEF Init, Outstanding
<1>2. WaitGroupExact
  BY <1>1, FS_EmptySet DEF Init, WaitGroupExact
<1>3. Types
  <2>1. state \in [Job -> JobState] /\ worker \in [Workers -> Job \cup {Idle, Exited}]
    BY DEF Init, JobState
  <2>2. stopped \in BOOLEAN
    BY DEF Init
  <2>3. wg \in Int /\ wait \in {"idle", "blocked", "woken", "returned"}
    BY DEF Init
  <2>4. /\ adding \subseteq Batches /\ errs \subseteq Job /\ result \subseteq Job
        /\ erred \subseteq Job /\ before \subseteq Job
    BY DEF Init
  <2> QED
    BY <2>1, <2>2, <2>3, <2>4 DEF Types
<1>4. WorkerHoldsJob
  BY PoolAssumption DEF Init, WorkerHoldsJob
<1> QED
  BY <1>2, <1>3, <1>4 DEF Init, IInv, BeforeIsAdded, ErrorsKept, WaitIsBarrier,
     WaitReturnsErrors

(* A step that changes neither the counter nor the set of outstanding jobs *)
(* keeps the count exact.                                                  *)
LEMMA CountKept ==
    ASSUME WaitGroupExact, wg' = wg, Outstanding' = Outstanding
    PROVE  WaitGroupExact'
  BY DEF WaitGroupExact

(* Add counts its jobs as they become outstanding.                         *)
LEMMA AddIInv ==
    ASSUME IInv, NEW b \in Batches, Add(b)
    PROVE  IInv'
<1>1. IsFiniteSet(b) /\ Cardinality(b) \in Nat
  BY PoolAssumption, FS_Subset, FS_CardinalityType
<1>2. Outstanding' = Outstanding \cup b
  BY PoolAssumption DEF Add, Outstanding, IInv, Types
<1>3. Outstanding \cap b = {}
  BY DEF Add, Outstanding, IInv, Types
<1>4. WaitGroupExact'
  <2>1. Cardinality(Outstanding \cup b) = Cardinality(Outstanding) + Cardinality(b)
    BY <1>1, <1>3, OutstandingFinite, FS_Union, FS_EmptySet
  <2> QED
    BY <2>1, <1>2 DEF Add, WaitGroupExact, IInv
<1>5. Types'
  BY <1>1, PoolAssumption DEF Add, IInv, Types, JobState
<1>6. WorkerHoldsJob'
  BY PoolAssumption DEF Add, IInv, Types, WorkerHoldsJob
<1>7. BeforeIsAdded' /\ ErrorsKept' /\ WaitIsBarrier' /\ WaitReturnsErrors'
  BY PoolAssumption DEF Add, IInv, Types, BeforeIsAdded, ErrorsKept, WaitIsBarrier,
     WaitReturnsErrors
<1> QED
  BY <1>4, <1>5, <1>6, <1>7 DEF IInv

(* A job that is handed to a worker stays outstanding.                     *)
LEMMA HandoffIInv ==
    ASSUME IInv, NEW b \in Batches, NEW j \in b, NEW w \in Workers, Handoff(b, j, w)
    PROVE  IInv'
<1>1. j \in Job
  BY PoolAssumption
<1>2. Outstanding' = Outstanding
  BY <1>1 DEF Handoff, Outstanding, IInv, Types
<1>3. WaitGroupExact'
  BY <1>2, CountKept DEF Handoff, IInv
<1>4. Types'
  BY <1>1 DEF Handoff, IInv, Types, JobState
<1>5. WorkerHoldsJob'
  BY <1>1, PoolAssumption DEF Handoff, IInv, Types, WorkerHoldsJob
<1>6. BeforeIsAdded' /\ ErrorsKept' /\ WaitIsBarrier' /\ WaitReturnsErrors'
  BY <1>1 DEF Handoff, IInv, Types, BeforeIsAdded, ErrorsKept, WaitIsBarrier,
     WaitReturnsErrors
<1> QED
  BY <1>3, <1>4, <1>5, <1>6 DEF IInv

(* A job that is dropped stays outstanding while its addBlocking is        *)
(* active.                                                                 *)
LEMMA DropIInv ==
    ASSUME IInv, NEW b \in Batches, NEW j \in b, Drop(b, j)
    PROVE  IInv'
<1>1. j \in Job
  BY PoolAssumption
<1>2. Outstanding' = Outstanding
  BY <1>1 DEF Drop, Outstanding, IInv, Types
<1>3. WaitGroupExact'
  BY <1>2, CountKept DEF Drop, IInv
<1>4. Types' /\ WorkerHoldsJob'
  BY <1>1 DEF Drop, IInv, Types, JobState, WorkerHoldsJob
<1>5. BeforeIsAdded' /\ ErrorsKept' /\ WaitIsBarrier' /\ WaitReturnsErrors'
  BY <1>1 DEF Drop, IInv, Types, BeforeIsAdded, ErrorsKept, WaitIsBarrier,
     WaitReturnsErrors
<1> QED
  BY <1>3, <1>4, <1>5 DEF IInv

(* addBlocking's correction removes the dropped jobs of its own batch, and *)
(* the batches being disjoint, of no other.                                *)
LEMMA AddReturnsIInv ==
    ASSUME IInv, NEW b \in Batches, AddReturns(b)
    PROVE  IInv'
<1> DEFINE Dropped == {j \in b : state[j] = "dropped"}
           Kept    == {j \in b : state[j] # "dropped"}
<1>1. /\ IsFiniteSet(b) /\ IsFiniteSet(Dropped) /\ IsFiniteSet(Kept)
      /\ Cardinality(Dropped) \in Nat /\ Cardinality(Kept) \in Nat
  <2>1. IsFiniteSet(b)
    BY PoolAssumption, FS_Subset
  <2>2. IsFiniteSet(Dropped) /\ IsFiniteSet(Kept)
    BY <2>1, FS_Subset
  <2> QED
    BY <2>1, <2>2, FS_CardinalityType
<1>2. Cardinality(b) = Cardinality(Dropped) + Cardinality(Kept)
  <2>1. b = Dropped \cup Kept /\ Dropped \cap Kept = {}
    OBVIOUS
  <2> HIDE DEF Dropped, Kept
  <2>2. Cardinality(Dropped \cup Kept)
          = Cardinality(Dropped) + Cardinality(Kept) - Cardinality(Dropped \cap Kept)
    BY <1>1, FS_Union
  <2>3. Cardinality(Dropped \cap Kept) = 0
    BY <2>1, FS_EmptySet
  <2> QED
    BY <2>1, <2>2, <2>3, <1>1
<1>3. Dropped \cap Outstanding' = {} /\ Outstanding = Outstanding' \cup Dropped
  BY PoolAssumption DEF AddReturns, Outstanding, IInv, Types
<1>4. IsFiniteSet(Outstanding') /\ Cardinality(Outstanding') \in Nat
  <2>1. Outstanding' \in SUBSET Outstanding
    BY <1>3
  <2> QED
    BY <2>1, OutstandingFinite, FS_Subset, FS_CardinalityType
<1>5. Cardinality(Outstanding) = Cardinality(Outstanding') + Cardinality(Dropped)
  BY <1>1, <1>3, <1>4, FS_Union, FS_EmptySet
<1>6. wg' = wg + (Cardinality(Kept) - Cardinality(b))
  BY DEF AddReturns, Processed
<1>7. WaitGroupExact'
  BY <1>1, <1>2, <1>4, <1>5, <1>6 DEF IInv, WaitGroupExact
<1>8. Types' /\ WorkerHoldsJob'
  BY <1>1, <1>2, <1>6 DEF AddReturns, IInv, Types, WorkerHoldsJob
<1>9. BeforeIsAdded' /\ ErrorsKept' /\ WaitIsBarrier' /\ WaitReturnsErrors'
  BY DEF AddReturns, IInv, BeforeIsAdded, ErrorsKept, WaitIsBarrier, WaitReturnsErrors
<1> QED
  BY <1>7, <1>8, <1>9 DEF IInv

(* A job that returns stays outstanding, and its error is held by the      *)
(* worker.                                                                 *)
LEMMA JobReturnsIInv ==
    ASSUME IInv, NEW w \in Workers, JobReturns(w)
    PROVE  IInv'
<1>1. worker[w] \in Job /\ state[worker[w]] = "running"
  BY DEF JobReturns
<1>2. Outstanding' = Outstanding
  BY <1>1 DEF JobReturns, Outstanding, IInv, Types
<1>3. WaitGroupExact'
  BY <1>2, CountKept DEF JobReturns, IInv
<1>4. Types' /\ WorkerHoldsJob'
  BY <1>1 DEF JobReturns, IInv, Types, JobState, WorkerHoldsJob
<1>5. BeforeIsAdded' /\ ErrorsKept'
  BY <1>1 DEF JobReturns, IInv, Types, BeforeIsAdded, ErrorsKept
<1>6. WaitIsBarrier' /\ WaitReturnsErrors'
  BY <1>1 DEF JobReturns, IInv, Types, WaitIsBarrier, WaitReturnsErrors
<1> QED
  BY <1>3, <1>4, <1>5, <1>6 DEF IInv

(* The worker's error is recorded before the job is settled.               *)
LEMMA RecordErrIInv ==
    ASSUME IInv, NEW w \in Workers, RecordErr(w)
    PROVE  IInv'
<1>1. worker[w] \in Job /\ state[worker[w]] = "failed"
  BY DEF RecordErr
<1>2. Outstanding' = Outstanding
  BY <1>1 DEF RecordErr, Outstanding, IInv, Types
<1>3. WaitGroupExact'
  BY <1>2, CountKept DEF RecordErr, IInv
<1>4. Types' /\ WorkerHoldsJob'
  BY <1>1 DEF RecordErr, IInv, Types, JobState, WorkerHoldsJob
<1>5. BeforeIsAdded' /\ ErrorsKept' /\ WaitIsBarrier' /\ WaitReturnsErrors'
  BY <1>1 DEF RecordErr, IInv, Types, BeforeIsAdded, ErrorsKept, WaitIsBarrier,
     WaitReturnsErrors
<1> QED
  BY <1>3, <1>4, <1>5 DEF IInv

(* Done takes one outstanding job out of the count.                        *)
LEMMA DoneIInv ==
    ASSUME IInv, NEW w \in Workers, Done(w)
    PROVE  IInv'
<1>1. worker[w] \in Job /\ state[worker[w]] = "returned"
  BY DEF Done
<1>2. Outstanding' = Outstanding \ {worker[w]} /\ worker[w] \in Outstanding
  BY <1>1 DEF Done, Outstanding, IInv, Types
<1>3. WaitGroupExact'
  BY <1>2, OutstandingFinite, FS_RemoveElement DEF Done, IInv, WaitGroupExact
<1>4. Types'
  BY <1>1 DEF Done, IInv, Types, JobState
<1>5. WorkerHoldsJob'
  BY <1>1, PoolAssumption DEF Done, IInv, Types, WorkerHoldsJob
<1>6. BeforeIsAdded' /\ ErrorsKept' /\ WaitIsBarrier' /\ WaitReturnsErrors'
  BY <1>1 DEF Done, IInv, Types, BeforeIsAdded, ErrorsKept, WaitIsBarrier,
     WaitReturnsErrors
<1> QED
  BY <1>3, <1>4, <1>5, <1>6 DEF IInv

(* When the count is zero no job is outstanding, so those added before are *)
(* settled and their errors recorded.                                      *)
LEMMA WaitWakesIInv ==
    ASSUME IInv, WaitWakes
    PROVE  IInv'
<1>1. Outstanding = {}
  BY OutstandingFinite, FS_EmptySet DEF WaitWakes, IInv, WaitGroupExact
<1>2. \A j \in before : state[j] \in {"finished", "dropped"}
  BY <1>1 DEF IInv, Types, JobState, BeforeIsAdded, Outstanding
<1>3. Outstanding' = Outstanding
  BY DEF WaitWakes, Outstanding
<1>4. WaitGroupExact'
  BY <1>3, CountKept DEF WaitWakes, IInv
<1> QED
  BY <1>2, <1>4 DEF WaitWakes, IInv, Types, WorkerHoldsJob, BeforeIsAdded,
     ErrorsKept, WaitIsBarrier, WaitReturnsErrors

(* The steps that touch neither a job nor the counter.                     *)
LEMMA QuietIInv ==
    ASSUME IInv,
           \/ \E w \in Workers : Exit(w)
           \/ Stop
           \/ WaitCall
           \/ WaitReturns
           \/ UNCHANGED vars
    PROVE  IInv'
<1>1. wg' = wg /\ state' = state /\ adding' = adding
  BY DEF Exit, Stop, WaitCall, WaitReturns, vars
<1>2. Outstanding' = Outstanding
  BY <1>1 DEF Outstanding
<1>3. WaitGroupExact'
  BY <1>1, <1>2, CountKept DEF IInv
<1>4. CASE \E w \in Workers : Exit(w)
  <2>1. Types' /\ WorkerHoldsJob'
    BY <1>4, PoolAssumption DEF Exit, IInv, Types, WorkerHoldsJob
  <2> QED
    BY <1>3, <1>4, <2>1 DEF Exit, IInv, BeforeIsAdded, ErrorsKept, WaitIsBarrier,
       WaitReturnsErrors
<1>5. CASE Stop
  BY <1>3, <1>5 DEF Stop, IInv, Types, WorkerHoldsJob, BeforeIsAdded, ErrorsKept,
     WaitIsBarrier, WaitReturnsErrors
<1>6. CASE WaitCall
  BY <1>3, <1>6 DEF WaitCall, IInv, Types, WorkerHoldsJob, BeforeIsAdded, ErrorsKept,
     WaitIsBarrier, WaitReturnsErrors
<1>7. CASE WaitReturns
  BY <1>3, <1>7 DEF WaitReturns, IInv, Types, WorkerHoldsJob, BeforeIsAdded, ErrorsKept,
     WaitIsBarrier, WaitReturnsErrors
<1>8. CASE UNCHANGED vars
  BY <1>3, <1>8 DEF vars, IInv, Types, WorkerHoldsJob, BeforeIsAdded, ErrorsKept,
     WaitIsBarrier, WaitReturnsErrors
<1> QED
  BY <1>4, <1>5, <1>6, <1>7, <1>8

(* Every step preserves the invariant.                                     *)
LEMMA StepIInv == IInv /\ [Next]_vars => IInv'
<1> SUFFICES ASSUME IInv, [Next]_vars PROVE IInv'
  OBVIOUS
<1>1. ASSUME NEW b \in Batches, Add(b) \/ Adder(b) PROVE IInv'
  BY <1>1, AddIInv, HandoffIInv, DropIInv, AddReturnsIInv DEF Adder
<1>2. ASSUME NEW w \in Workers, Worker(w) PROVE IInv'
  BY <1>2, JobReturnsIInv, RecordErrIInv, DoneIInv, QuietIInv DEF Worker
<1> QED
  BY <1>1, <1>2, WaitWakesIInv, QuietIInv DEF Next

(* The inductive invariant holds in every reachable state.                 *)
THEOREM Invariance == Spec => []IInv
  BY InitIInv, StepIInv, PTL DEF Spec

(* pool.go: the counter of l.wg is never negative, so no call of Done or   *)
(* Add panics.                                                             *)
THEOREM TypeCorrect == Spec => []TypeOK
<1>1. IInv => TypeOK
  BY OutstandingFinite DEF IInv, Types, WaitGroupExact, TypeOK
<1> QED
  BY <1>1, Invariance, PTL

(* pool.go: l.wg counts exactly the jobs that are neither executed to the  *)
(* end nor discarded.                                                      *)
THEOREM CountIsExact == Spec => []WaitGroupExact
<1>1. IInv => WaitGroupExact
  BY DEF IInv
<1> QED
  BY <1>1, Invariance, PTL

(* Pool.Wait returns only when every job added before the call is settled. *)
THEOREM WaitCorrect == Spec => []WaitIsBarrier
<1>1. IInv => WaitIsBarrier
  BY DEF IInv
<1> QED
  BY <1>1, Invariance, PTL

(* Pool.Wait returns the error of each of those jobs that failed.          *)
THEOREM WaitHasErrors == Spec => []WaitReturnsErrors
<1>1. IInv => WaitReturnsErrors
  BY DEF IInv
<1> QED
  BY <1>1, Invariance, PTL

-----------------------------------------------------------------------------
(* The refinement of JobBarrier.                                           *)

(* No error is recorded, or about to be, that no job returned.             *)
ErrorsReal == errs \subseteq erred /\ \A j \in Job : state[j] = "failed" => j \in erred

(* ErrorsReal is inductive.                                                *)
LEMMA StepErrorsReal == IInv /\ ErrorsReal /\ [Next]_vars => ErrorsReal'
<1> SUFFICES ASSUME Types, ErrorsReal, [Next]_vars PROVE ErrorsReal'
  BY DEF IInv
<1> USE DEF ErrorsReal, Types
<1>1. ASSUME NEW b \in Batches, Add(b) \/ Adder(b) PROVE ErrorsReal'
  <2>1. b \subseteq Job
    BY PoolAssumption
  <2> QED
    BY <1>1, <2>1 DEF Add, Adder, Handoff, Drop, AddReturns
<1>2. ASSUME NEW w \in Workers, Worker(w) PROVE ErrorsReal'
  BY <1>2 DEF Worker, JobReturns, RecordErr, Done, Exit
<1>3. CASE Stop \/ WaitCall \/ WaitWakes \/ WaitReturns \/ UNCHANGED vars
  BY <1>3 DEF Stop, WaitCall, WaitWakes, WaitReturns, vars
<1> QED
  BY <1>1, <1>2, <1>3 DEF Next

(* A new pool is a new barrier.                                            *)
LEMMA InitBarrier == Init => Barrier!Init /\ ErrorsReal
  BY DEF Init, Barrier!Init, In, JobState, ErrorsReal

(* What adding, handing out and dropping jobs is to a caller.              *)
LEMMA AdderBarrier ==
    ASSUME IInv, NEW b \in Batches, Add(b) \/ Adder(b)
    PROVE  [Barrier!Next]_Barrier!vars
<1> USE DEF IInv, Types, In, JobState, Barrier!Next, Barrier!vars
<1>0. b \subseteq Job
  BY PoolAssumption
<1>1. CASE Add(b)
  <2>1. Barrier!Add
    BY <1>0, <1>1 DEF Add, Barrier!Add
  <2> QED
    BY <2>1
<1>2. ASSUME NEW j \in b, NEW w \in Workers, Handoff(b, j, w) PROVE UNCHANGED Barrier!vars
  BY <1>0, <1>2 DEF Handoff
<1>3. ASSUME NEW j \in b, Drop(b, j) PROVE Barrier!Discard(j) /\ j \in Job
  BY <1>0, <1>3 DEF Drop, Barrier!Discard, Barrier!Over
<1>4. CASE AddReturns(b)
  BY <1>4 DEF AddReturns
<1> QED
  BY <1>1, <1>2, <1>3, <1>4 DEF Adder

(* What the step of a worker is to a caller: Done settles the job, and an  *)
(* error counts from the moment the job returns it.                        *)
LEMMA WorkerBarrier ==
    ASSUME IInv, NEW w \in Workers, Worker(w)
    PROVE  [Barrier!Next]_Barrier!vars
<1> USE DEF IInv, Types, In, JobState, Barrier!Next, Barrier!vars
<1>1. CASE JobReturns(w)
  <2>1. CASE erred' = erred
    BY <1>1, <2>1 DEF JobReturns
  <2>2. CASE erred' = erred \cup {worker[w]}
    <3>1. worker[w] \in Job /\ Barrier!Fail(worker[w])
      BY <1>1, <2>2 DEF JobReturns, Barrier!Fail, Barrier!Over
    <3> QED
      BY <3>1
  <2> QED
    BY <1>1, <2>1, <2>2 DEF JobReturns
<1>2. CASE RecordErr(w)
  BY <1>2 DEF RecordErr
<1>3. CASE Done(w)
  <2>1. PICK j \in Job : worker[w] = j
    BY <1>3 DEF Done
  <2>2. Barrier!Settle(j)
    BY <1>3, <2>1 DEF Done, Barrier!Settle, Barrier!Over
  <2> QED
    BY <2>2
<1>4. CASE Exit(w)
  BY <1>4 DEF Exit
<1> QED
  BY <1>1, <1>2, <1>3, <1>4 DEF Worker

(* Wait returns when WaitIsBarrier holds, with the errors of ErrorsKept.   *)
LEMMA CallerBarrier ==
    ASSUME IInv, ErrorsReal, Stop \/ WaitCall \/ WaitWakes \/ WaitReturns \/ UNCHANGED vars
    PROVE  [Barrier!Next]_Barrier!vars
<1> USE DEF IInv, Types, In, Barrier!Next, Barrier!vars
<1>1. CASE Stop
  <2>1. Barrier!Stop
    BY <1>1 DEF Stop, Barrier!Stop
  <2> QED
    BY <2>1
<1>2. CASE WaitCall
  <2>1. Barrier!WaitCall
    BY <1>2 DEF WaitCall, Barrier!WaitCall, JobState
  <2> QED
    BY <2>1
<1>3. CASE WaitWakes
  BY <1>3 DEF WaitWakes
<1>4. CASE WaitReturns
  <2>1. \A j \in before : j \in Job /\ state[j] \in {"finished", "dropped"}
    BY <1>4 DEF WaitReturns, WaitIsBarrier
  <2>2. erred \cap before \subseteq errs /\ errs \subseteq erred
    BY <2>1 DEF ErrorsKept, ErrorsReal
  <2>3. Barrier!WaitReturns
    BY <1>4, <2>1, <2>2 DEF WaitReturns, Barrier!WaitReturns, Barrier!Over
  <2> QED
    BY <2>3
<1>5. CASE UNCHANGED vars
  BY <1>5 DEF vars
<1> QED
  BY <1>1, <1>2, <1>3, <1>4, <1>5

(* workerpool.Pool implements JobBarrier: whatever the workers, the queue  *)
(* and the counter do, a caller of Add, Stop and Wait sees a barrier.      *)
THEOREM PoolRefinesBarrier == Spec => PoolIsBarrier
<1>1. IInv /\ ErrorsReal /\ [Next]_vars => [Barrier!Next]_Barrier!vars
  BY AdderBarrier, WorkerBarrier, CallerBarrier DEF Next
<1>2. Spec => []ErrorsReal
  BY InitBarrier, StepErrorsReal, Invariance, PTL DEF Spec
<1> QED
  BY <1>1, <1>2, InitBarrier, Invariance, PTL DEF Spec, Barrier!Spec, PoolIsBarrier
=============================================================================
