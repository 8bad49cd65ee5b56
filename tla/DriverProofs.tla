---------------------------- MODULE DriverProofs ----------------------------
(***************************************************************************)
(* For every set of buffers, providers, requests and completions: type     *)
(* correctness of Driver, the consistency of the status of a work item     *)
(* with its done channel, and the facts that keep the heap, the garbage    *)
(* collector, the cancellation of orphans and the sleeping worker sound;   *)
(* then that no pending work is forgotten, and that incremental            *)
(* rescheduling arrives at the depths of shortest paths, those that a      *)
(* search over the paths of completions finds, and at scores that no other *)
(* step exceeds by more than the tolerance.                                *)
(***************************************************************************)
EXTENDS Driver, DataFacts

(* The id of a run is its own, and no greater than the number of starts.   *)
RunsAreDistinct ==
    /\ \A r \in running : r.id <= starts[r.work]
    /\ \A r1, r2 \in running : Id(r1) = Id(r2) => r1 = r2

(* OrphansCancelled without Free: it is only in the middle of Update that  *)
(* states are orphaned and their work is not yet cancelled.                *)
OrphansCancelledOutsideUpdate ==
    updating = NoRequest =>
        \A w \in Work : depth[w[1]] < 0 /\ cancel[w] # 0 /\ <<w, cancel[w]>> \in RunningIds
                          => <<w, cancel[w]>> \in cancelled

(* The buffer of the Update in progress is scheduled or about to be.       *)
NewRootIsScheduled ==
    updating # NoRequest =>
        /\ req[updating].phase = "updating"
        /\ \/ <<req[updating].buf, 0, One>> \in calls
           \/ depth[req[updating].buf] >= 0

IInv ==
    /\ TypeOK
    /\ InProgressHasDoneChan
    /\ DoneChanIsOpen
    /\ QueuedIsReachable
    /\ RunsAreDistinct
    /\ OrphansCancelledOutsideUpdate
    /\ NewRootIsScheduled
    /\ NoLostWakeup

-----------------------------------------------------------------------------
LEMMA WorkPair == ASSUME NEW w \in Work PROVE w[1] \in Buf /\ w[2] \in allProviders
  BY DEF Work

(* A buffer and a provider are a work item.                                *)
LEMMA PairWork == ASSUME NEW b \in Buf, NEW p \in allProviders PROVE <<b, p>> \in Work
  BY DEF Work

(* The calls made for a completion of a state within the limit are typed.  *)
LEMMA CallsTyped ==
    ASSUME NEW p \in allProviders, NEW c \in Completion, NEW d \in 0..depthLimit, NEW s \in Score
    PROVE  rescheduleCompletion(p, c, d, s) \subseteq Buf \X (0..depthLimit + 1) \X Score
<1>1. c \in [specs : SUBSET Buf, score : Score]
  BY SchedulerAssumption
<1>2. c.specs \subseteq Buf /\ c.score \in Score
  BY <1>1
<1>3. product[<<s, c.score>>] \in Score
  BY <1>2, SchedulerAssumption
<1>4. d \in 0..depthLimit + 1 /\ d + 1 \in 0..depthLimit + 1
  BY SchedulerAssumption
<1> QED
  BY <1>2, <1>3, <1>4 DEF rescheduleCompletion

(* A new Driver satisfies the invariant.                                   *)
LEMMA InitIInv == Init => IInv
<1> SUFFICES ASSUME Init PROVE IInv
  OBVIOUS
<1>1. SchedTypeOK
  <2>1. depth \in [Buf -> -1..depthLimit] /\ score \in [Buf -> Score]
    BY SchedulerAssumption DEF Init, newScheduler
  <2>2. status \in [Work -> Status]
    BY DEF Init, newScheduler, Status
  <2>3. priority \in [Work -> {-1, similarPriority} \cup Score]
    BY DEF Init, newScheduler
  <2>4. completions \in [Work -> SUBSET Completion] /\ cancel \in [Work -> Nat]
    BY DEF Init, newScheduler
  <2>5. aged \subseteq Buf /\ queue \subseteq Work
        /\ calls \subseteq Buf \X (0..depthLimit + 1) \X Score
    BY DEF Init, newScheduler
  <2> QED
    BY <2>1, <2>2, <2>3, <2>4, <2>5 DEF SchedTypeOK
<1>2. TypeOK
  <2>1. req \in [Request -> ReqState]
    BY DriverAssumption DEF Init, Over, ReqState
  <2>2. doneChans \in [Work -> Nat] /\ starts \in [Work -> Nat]
    BY DEF Init
  <2> QED
    BY <1>1, <2>1, <2>2, DriverAssumption DEF Init, TypeOK
<1>3. InProgressHasDoneChan /\ DoneChanIsOpen
  BY DEF Init, newScheduler, InProgressHasDoneChan, DoneChanIsOpen
<1>4. RunningIds = {}
  BY DEF Init, RunningIds
<1> QED
  BY <1>2, <1>3, <1>4 DEF Init, newScheduler, IInv, QueuedIsReachable, RunsAreDistinct,
     OrphansCancelledOutsideUpdate, NewRootIsScheduled, NoLostWakeup

-----------------------------------------------------------------------------
(* prepareWorkLocked on reachable states, whose status is the scheduler's. *)
LEMMA PrepareEffect ==
    ASSUME IInv, NEW W \in SUBSET Work, NEW ctx \in Request \cup {Background},
           prepareWorkLocked(W, ctx)
    PROVE  /\ status' \in [Work -> Status]
           /\ priority' \in [Work -> {-1, similarPriority} \cup Score]
           /\ queue' \subseteq queue
           /\ cancel' \in [Work -> Nat]
           /\ starts' \in [Work -> Nat]
           /\ doneChans' \in [Work -> Nat]
           /\ running' \subseteq Run
           /\ interrupted' \subseteq Work
           /\ InProgressHasDoneChan'
           /\ DoneChanIsOpen'
           /\ RunsAreDistinct'
           /\ \A w \in Work \ W : /\ cancel'[w] = cancel[w]
                                  /\ \A k : <<w, k>> \in RunningIds' <=> <<w, k>> \in RunningIds
<1> DEFINE new(w) == [work |-> w, id |-> starts[w] + 1, ctx |-> ctx]
<1>1. /\ starts \in [Work -> Nat] /\ running \subseteq Run /\ doneChans \in [Work -> Nat]
      /\ status \in [Work -> Status] /\ cancel \in [Work -> Nat]
      /\ priority \in [Work -> {-1, similarPriority} \cup Score]
      /\ interrupted \subseteq Work /\ queue \subseteq Work
  BY DEF IInv, TypeOK, SchedTypeOK
<1>2. /\ starts' = [w \in Work |-> IF w \in W THEN starts[w] + 1 ELSE starts[w]]
      /\ doneChans' = [w \in Work |-> IF w \in W THEN starts[w] + 1 ELSE doneChans[w]]
      /\ cancel' = [w \in Work |-> IF w \in W THEN starts[w] + 1 ELSE cancel[w]]
      /\ running' = running \cup {new(w) : w \in W}
      /\ status' = [w \in Work |-> IF w \in W THEN "inProgress" ELSE status[w]]
      /\ queue' \subseteq queue \ W
      /\ interrupted' = interrupted \ W
  BY DEF prepareWorkLocked, WorkStarting
<1>3. status' \in [Work -> Status]
  BY <1>1, <1>2 DEF Status
<1>4. priority' \in [Work -> {-1, similarPriority} \cup Score]
  BY <1>1 DEF prepareWorkLocked, WorkStarting
<1>5. cancel' \in [Work -> Nat] /\ starts' \in [Work -> Nat] /\ doneChans' \in [Work -> Nat]
  BY <1>1, <1>2
<1>6. running' \subseteq Run
  BY <1>1, <1>2 DEF Run
<1>7. InProgressHasDoneChan'
  BY <1>1, <1>2 DEF IInv, InProgressHasDoneChan
<1>8. RunsAreDistinct'
  <2>1. \A r \in running : r.id <= starts[r.work] /\ r.work \in Work /\ r.id \in Nat
    BY <1>1 DEF IInv, RunsAreDistinct, Run
  <2>2. \A r \in running' : r.id <= starts'[r.work]
    BY <2>1, <1>1, <1>2
  <2>3. ASSUME NEW r1 \in running', NEW r2 \in running', Id(r1) = Id(r2)
        PROVE  r1 = r2
    <3>1. r1.work = r2.work /\ r1.id = r2.id
      BY <2>3 DEF Id
    <3>2. CASE r1 \in running /\ r2 \in running
      BY <2>3, <3>2 DEF IInv, RunsAreDistinct
    <3>3. CASE r1 \notin running \/ r2 \notin running
      BY <3>1, <3>3, <2>1, <1>1, <1>2
    <3> QED
      BY <3>2, <3>3
  <2> QED
    BY <2>2, <2>3 DEF RunsAreDistinct
<1>9. ASSUME NEW w \in Work \ W, NEW k
      PROVE  <<w, k>> \in RunningIds' <=> <<w, k>> \in RunningIds
  <2>1. \A v \in W : Id(new(v))[1] # w
    BY DEF Id
  <2> QED
    BY <2>1, <1>2 DEF RunningIds, Id
<1>10. DoneChanIsOpen'
  <2> SUFFICES ASSUME NEW w \in Work, doneChans'[w] # 0
               PROVE  <<w, doneChans'[w]>> \in RunningIds'
    BY DEF DoneChanIsOpen
  <2>1. CASE w \in W
    <3>1. new(w) \in running' /\ Id(new(w)) = <<w, doneChans'[w]>>
      BY <2>1, <1>2 DEF Id
    <3> QED
      BY <3>1 DEF RunningIds
  <2>2. CASE w \notin W
    BY <2>2, <1>2, <1>9 DEF IInv, DoneChanIsOpen
  <2> QED
    BY <2>1, <2>2
<1> QED
  BY <1>1, <1>2, <1>3, <1>4, <1>5, <1>6, <1>7, <1>8, <1>9, <1>10

(* BlockOn and ReturnAtOnce: what the end of Update does for request q.    *)
LEMMA AnswerEffect ==
    ASSUME IInv, NEW q \in Request, NEW b \in Buf, NEW blocking \in BOOLEAN,
           depth[b] >= 0,
           IF blocking THEN BlockOn(q, b) ELSE ReturnAtOnce(q)
    PROVE  /\ status' \in [Work -> Status]
           /\ priority' \in [Work -> {-1, similarPriority} \cup Score]
           /\ queue' \subseteq queue
           /\ cancel' \in [Work -> Nat]
           /\ starts' \in [Work -> Nat]
           /\ doneChans' \in [Work -> Nat]
           /\ running' \subseteq Run
           /\ interrupted' \subseteq Work
           /\ req' \in [Request -> ReqState]
           /\ InProgressHasDoneChan'
           /\ DoneChanIsOpen'
           /\ RunsAreDistinct'
           /\ \A w \in Work : depth[w[1]] < 0 =>
                /\ cancel'[w] = cancel[w]
                /\ \A k : <<w, k>> \in RunningIds' <=> <<w, k>> \in RunningIds
<1>1. CASE blocking
  <2> DEFINE Mine(st) == {w \in {b} \X blockingProviders : status[w] = st}
             Own      == Mine("pending")
             Joined   == Mine("inProgress")
  <2>1. {b} \X blockingProviders \subseteq Work
    BY DriverAssumption DEF Work
  <2>2. Own \in SUBSET Work /\ Joined \subseteq Work
    BY <2>1
  <2>3. /\ prepareWorkLocked(Own, q)
        /\ req' = [req EXCEPT ![q] =
                     [phase |-> "waiting", blocking |-> TRUE, buf |-> b,
                      waits |-> {<<w, doneChans'[w]>> : w \in Own \cup Joined}]]
    BY <1>1 DEF BlockOn
  <2> HIDE DEF Own, Joined
  <2>4. /\ status' \in [Work -> Status]
        /\ priority' \in [Work -> {-1, similarPriority} \cup Score]
        /\ queue' \subseteq queue
        /\ cancel' \in [Work -> Nat]
        /\ starts' \in [Work -> Nat]
        /\ doneChans' \in [Work -> Nat]
        /\ running' \subseteq Run
        /\ interrupted' \subseteq Work
        /\ InProgressHasDoneChan' /\ DoneChanIsOpen' /\ RunsAreDistinct'
        /\ \A w \in Work \ Own : /\ cancel'[w] = cancel[w]
                                 /\ \A k : <<w, k>> \in RunningIds' <=> <<w, k>> \in RunningIds
    BY <2>2, <2>3, PrepareEffect
  <2>5. \A w \in Own \cup Joined : status'[w] = "inProgress"
    BY <2>2, <2>3 DEF prepareWorkLocked, WorkStarting, IInv, TypeOK, SchedTypeOK, Joined
  <2>6. {<<w, doneChans'[w]>> : w \in Own \cup Joined} \subseteq StartId
    BY <2>2, <2>4, <2>5 DEF StartId, InProgressHasDoneChan
  <2>7. req' \in [Request -> ReqState]
    BY <2>3, <2>6 DEF IInv, TypeOK, ReqState
  <2>9. \A w \in Own : depth[w[1]] >= 0
    BY DEF Own
  <2>10. \A w \in Work : depth[w[1]] < 0 => w \in Work \ Own
    BY <2>9, WorkPair DEF IInv, TypeOK, SchedTypeOK
  <2> QED
    BY <2>4, <2>7, <2>10
<1>2. CASE ~blocking
  <2>1. /\ req' = [req EXCEPT ![q] = Over("returned")]
        /\ UNCHANGED <<status, priority, queue, cancel, starts, doneChans, running, interrupted>>
    BY <1>2 DEF ReturnAtOnce
  <2>2. req' \in [Request -> ReqState]
    BY <2>1, DriverAssumption DEF IInv, TypeOK, Over, ReqState
  <2> QED
    BY <2>1, <2>2 DEF IInv, TypeOK, SchedTypeOK, InProgressHasDoneChan, DoneChanIsOpen,
       RunsAreDistinct, RunningIds
<1> QED
  BY <1>1, <1>2

(* An Update that finds the buffer at depth 0 starts work only on a        *)
(* reachable state.                                                        *)
LEMMA UpdateUnchangedIInv ==
    ASSUME IInv, NEW q \in Request, NEW b \in Buf, NEW blocking \in BOOLEAN,
           UpdateUnchanged(q, b, blocking)
    PROVE  IInv'
<1>1. depth[b] >= 0 /\ (IF blocking THEN BlockOn(q, b) ELSE ReturnAtOnce(q))
  BY DEF UpdateUnchanged
<1>2. TypeOK'
  BY <1>1, AnswerEffect DEF UpdateUnchanged, Broadcast, IInv, TypeOK, SchedTypeOK
<1>3. InProgressHasDoneChan' /\ DoneChanIsOpen' /\ RunsAreDistinct'
  BY <1>1, AnswerEffect
<1>4. QueuedIsReachable'
  BY <1>1, AnswerEffect DEF UpdateUnchanged, IInv, QueuedIsReachable
<1>5. OrphansCancelledOutsideUpdate' /\ NewRootIsScheduled'
  BY <1>1, AnswerEffect DEF UpdateUnchanged, Free, IInv, OrphansCancelledOutsideUpdate,
     NewRootIsScheduled
<1>6. NoLostWakeup'
  BY DEF UpdateUnchanged, Broadcast, NoLostWakeup
<1> QED
  BY <1>2, <1>3, <1>4, <1>5, <1>6 DEF IInv

(* The end of Update cancels what was orphaned, and starts work on the new *)
(* root, which is no orphan.                                               *)
LEMMA UpdateEndsIInv ==
    ASSUME IInv, NEW q \in Request, UpdateEnds(q)
    PROVE  IInv'
<1> DEFINE b == req[q].buf
<1>1. b \in Buf /\ req[q].blocking \in BOOLEAN
  BY DEF IInv, TypeOK, ReqState
<1>2. depth[b] >= 0
  BY DriverAssumption DEF UpdateEnds, IInv, NewRootIsScheduled
<1>3. IF req[q].blocking THEN BlockOn(q, b) ELSE ReturnAtOnce(q)
  BY DEF UpdateEnds
<1> HIDE DEF b
<1>4. CancelOf(Orphaned) \subseteq StartId
  BY DEF CancelOf, StartId, IInv, TypeOK, SchedTypeOK
<1>5. TypeOK'
  BY <1>1, <1>2, <1>3, <1>4, AnswerEffect DEF UpdateEnds, IInv, TypeOK, SchedTypeOK, b
<1>6. InProgressHasDoneChan' /\ DoneChanIsOpen' /\ RunsAreDistinct'
  BY <1>1, <1>2, <1>3, AnswerEffect
<1>7. QueuedIsReachable'
  BY <1>1, <1>2, <1>3, AnswerEffect DEF UpdateEnds, IInv, QueuedIsReachable
<1>8. OrphansCancelledOutsideUpdate'
  <2> SUFFICES ASSUME NEW w \in Work, depth[w[1]] < 0, cancel'[w] # 0,
                      <<w, cancel'[w]>> \in RunningIds'
               PROVE  <<w, cancel'[w]>> \in cancelled'
    BY DEF OrphansCancelledOutsideUpdate, UpdateEnds
  <2>1. cancel'[w] = cancel[w] /\ <<w, cancel[w]>> \in RunningIds
    BY <1>1, <1>2, <1>3, AnswerEffect
  <2>2. w[1] \in Orphaned
    BY WorkPair DEF Orphaned
  <2>3. <<w, cancel[w]>> \in CancelOf(Orphaned)
    BY <2>1, <2>2 DEF CancelOf
  <2> QED
    BY <2>1, <2>3 DEF UpdateEnds
<1>9. NewRootIsScheduled'
  BY DEF UpdateEnds, NewRootIsScheduled
<1>10. NoLostWakeup'
  BY <1>1, <1>2, <1>3, AnswerEffect DEF UpdateEnds, IInv, NoLostWakeup, CanWork, HasWork
<1> QED
  BY <1>5, <1>6, <1>7, <1>8, <1>9, <1>10 DEF IInv

(* The beginning of Update empties the heap before it orphans all states,  *)
(* and calls reschedule for the new root.                                  *)
LEMMA UpdateBeginsIInv ==
    ASSUME IInv, NEW q \in Request, NEW b \in Buf, NEW blocking \in BOOLEAN,
           UpdateBegins(q, b, blocking)
    PROVE  IInv'
<1>1. SchedTypeOK'
  <2>1. priority' \in [Work -> {-1, similarPriority} \cup Score]
    BY DEF UpdateBegins, UpdateSchedule, IInv, TypeOK, SchedTypeOK
  <2>2. completions' \in [Work -> SUBSET Completion]
    <3>1. \A w \in Work : <<root, w[2]>> \in Work
      BY WorkPair, PairWork DEF IInv, TypeOK
    <3> QED
      BY <3>1 DEF UpdateBegins, UpdateSchedule, copyCompletions, IInv, TypeOK, SchedTypeOK
  <2>3. depth' \in [Buf -> -1..depthLimit]
    BY SchedulerAssumption DEF UpdateBegins, UpdateSchedule
  <2>4. calls' \subseteq Buf \X (0..depthLimit + 1) \X Score
    BY SchedulerAssumption DEF UpdateBegins, UpdateSchedule
  <2>5. queue' \subseteq Work /\ aged' \subseteq Buf
    BY DEF UpdateBegins, UpdateSchedule, IInv, TypeOK, SchedTypeOK
  <2> QED
    BY <2>1, <2>2, <2>3, <2>4, <2>5 DEF UpdateBegins, UpdateSchedule, IInv, TypeOK, SchedTypeOK
<1>2. TypeOK'
  <2>1. req' \in [Request -> ReqState]
    BY DEF UpdateBegins, IInv, TypeOK, ReqState
  <2> QED
    BY <1>1, <2>1 DEF UpdateBegins, Broadcast, IInv, TypeOK
<1>3. InProgressHasDoneChan' /\ DoneChanIsOpen' /\ RunsAreDistinct'
  BY DEF UpdateBegins, UpdateSchedule, IInv, InProgressHasDoneChan, DoneChanIsOpen,
     RunsAreDistinct, RunningIds
<1>4. QueuedIsReachable'
  BY DEF UpdateBegins, UpdateSchedule, QueuedIsReachable
<1>5. OrphansCancelledOutsideUpdate'
  BY DriverAssumption DEF UpdateBegins, OrphansCancelledOutsideUpdate
<1>6. NewRootIsScheduled'
  BY DEF UpdateBegins, UpdateSchedule, NewRootIsScheduled, IInv, TypeOK
<1>7. NoLostWakeup'
  BY DEF UpdateBegins, Broadcast, NoLostWakeup
<1> QED
  BY <1>2, <1>3, <1>4, <1>5, <1>6, <1>7 DEF IInv

(* reschedule lowers depths, from -1 to a depth within the limit, and      *)
(* queues only work on the state it visits.                                *)
LEMMA RescheduleIInv ==
    ASSUME IInv, Reschedule
    PROVE  IInv'
<1>1. PICK call \in calls : \/ rescheduleReturns(call[1], call[2], call[3])
                            \/ rescheduleVisits(call[1], call[2], call[3])
  BY DEF Reschedule
<1> DEFINE b == call[1]
           d == call[2]
           s == call[3]
<1>2. b \in Buf /\ d \in 0..depthLimit + 1 /\ s \in Score /\ call = <<b, d, s>>
  BY <1>1 DEF IInv, TypeOK, SchedTypeOK
<1> HIDE DEF b, d, s
<1>3. CASE rescheduleReturns(b, d, s)
  <2>1. TypeOK'
    BY <1>3 DEF Reschedule, rescheduleReturns, IInv, TypeOK, SchedTypeOK
  <2>2. InProgressHasDoneChan' /\ DoneChanIsOpen' /\ RunsAreDistinct' /\ QueuedIsReachable'
        /\ OrphansCancelledOutsideUpdate' /\ NoLostWakeup'
    BY <1>3 DEF Reschedule, rescheduleReturns, IInv, InProgressHasDoneChan, DoneChanIsOpen,
       RunsAreDistinct, QueuedIsReachable, OrphansCancelledOutsideUpdate, NoLostWakeup,
       CanWork, HasWork, RunningIds
  <2>3. NewRootIsScheduled'
    <3>1. d = 0 => depth[b] >= 0
      BY <1>2, <1>3, SchedulerAssumption
         DEF rescheduleReturns, Superseded, IInv, TypeOK, SchedTypeOK
    <3> QED
      BY <3>1, <1>3 DEF Reschedule, rescheduleReturns, IInv, NewRootIsScheduled
  <2> QED
    BY <2>1, <2>2, <2>3 DEF IInv
<1>4. CASE rescheduleVisits(b, d, s)
  <2>1. d \in 0..depthLimit
    BY <1>2, <1>4, SchedulerAssumption DEF rescheduleVisits, Superseded
  <2>2. depth' \in [Buf -> -1..depthLimit] /\ score' \in [Buf -> Score]
    BY <2>1, <1>2, <1>4, SchedulerAssumption DEF rescheduleVisits, IInv, TypeOK, SchedTypeOK
  <2>3. {b} \X Scheduled(d) \subseteq Work
    BY <1>2, SchedulerAssumption DEF Scheduled, Work
  <2>4. priority' \in [Work -> {-1, similarPriority} \cup Score]
    BY <1>2, <1>4 DEF rescheduleVisits, increasePriority, IInv, TypeOK, SchedTypeOK
  <2>5. queue' \subseteq Work /\ \A w \in queue' : w \in queue \/ w[1] = b
    BY <2>3, <1>4 DEF rescheduleVisits, increasePriority, IInv, TypeOK, SchedTypeOK
  <2>6. calls' \subseteq Buf \X (0..depthLimit + 1) \X Score
    <3> DEFINE Cached == {x \in allProviders \X Completion : x[2] \in completions[<<b, x[1]>>]}
    <3>1. \A x \in Cached : rescheduleCompletion(x[1], x[2], d, s)
                              \subseteq Buf \X (0..depthLimit + 1) \X Score
      BY <2>1, <1>2, CallsTyped
    <3> QED
      BY <3>1, <1>4, ZenonT(40) DEF rescheduleVisits, IInv, TypeOK, SchedTypeOK
  <2>7. TypeOK'
    BY <2>2, <2>4, <2>5, <2>6, <1>4 DEF Reschedule, rescheduleVisits, IInv, TypeOK, SchedTypeOK
  <2>8. InProgressHasDoneChan' /\ DoneChanIsOpen' /\ RunsAreDistinct'
    BY <1>4 DEF Reschedule, rescheduleVisits, IInv, InProgressHasDoneChan, DoneChanIsOpen,
       RunsAreDistinct, RunningIds
  <2>9. \A x \in Buf : depth[x] >= 0 => depth'[x] >= 0
    BY <2>1, <1>2, <1>4 DEF rescheduleVisits, IInv, TypeOK, SchedTypeOK
  <2>10. depth'[b] >= 0
    BY <2>1, <1>2, <1>4 DEF rescheduleVisits, IInv, TypeOK, SchedTypeOK
  <2>11. QueuedIsReachable'
    BY <2>5, <2>9, <2>10, WorkPair DEF IInv, QueuedIsReachable, TypeOK, SchedTypeOK
  <2>12. OrphansCancelledOutsideUpdate'
    <3>1. \A w \in Work : depth'[w[1]] < 0 => depth[w[1]] < 0
      BY <2>9, <2>2, WorkPair DEF IInv, TypeOK, SchedTypeOK
    <3> QED
      BY <3>1, <1>4 DEF Reschedule, rescheduleVisits, IInv, OrphansCancelledOutsideUpdate,
         RunningIds
  <2>13. NewRootIsScheduled'
    BY <2>9, <2>10, <1>4 DEF Reschedule, rescheduleVisits, IInv, NewRootIsScheduled, TypeOK,
       ReqState
  <2>14. NoLostWakeup'
    BY DEF Reschedule, IInv, NoLostWakeup, CanWork, HasWork
  <2> QED
    BY <2>7, <2>8, <2>11, <2>12, <2>13, <2>14 DEF IInv
<1> QED
  BY <1>1, <1>3, <1>4 DEF b, d, s

(* A provider's callback adds a completion and calls of reschedule, no     *)
(* work.                                                                   *)
LEMMA ProvideIInv ==
    ASSUME IInv, NEW r \in running, Provide(r)
    PROVE  IInv'
<1>1. PICK e \in Emits : e[1] = r.work /\ GotCompletion(r.work, e[2], e[3])
  BY DEF Provide
<1>2. e[2] \in Buf /\ e[3] \in Completion /\ r.work \in Work
  BY <1>1, DriverAssumption DEF IInv, TypeOK, Run
<1>3. r.work[2] \in allProviders /\ <<e[2], r.work[2]>> \in Work
  BY <1>2, WorkPair, PairWork
<1>4. completions' \in [Work -> SUBSET Completion]
  BY <1>1, <1>2, <1>3 DEF GotCompletion, IInv, TypeOK, SchedTypeOK
<1>5. calls' \subseteq Buf \X (0..depthLimit + 1) \X Score
  <2>1. CASE depth[e[2]] < 0
    BY <2>1, <1>1 DEF GotCompletion
  <2>2. CASE ~(depth[e[2]] < 0)
    <3>1. depth[e[2]] \in 0..depthLimit /\ score[e[2]] \in Score
      BY <2>2, <1>2, SchedulerAssumption DEF IInv, TypeOK, SchedTypeOK
    <3> QED
      BY <3>1, <2>2, <1>1, <1>2, <1>3, CallsTyped DEF GotCompletion
  <2> QED
    BY <2>1, <2>2
<1>6. TypeOK'
  BY <1>1, <1>4, <1>5 DEF Provide, GotCompletion, driverVars, IInv, TypeOK, SchedTypeOK
<1>7. NewRootIsScheduled'
  BY DEF Provide, Free, driverVars, NewRootIsScheduled
<1> QED
  BY <1>1, <1>6, <1>7 DEF Provide, GotCompletion, driverVars, IInv, InProgressHasDoneChan,
     DoneChanIsOpen, RunsAreDistinct, RunningIds, QueuedIsReachable,
     OrphansCancelledOutsideUpdate, NoLostWakeup, CanWork, HasWork

(* However a run ends, its work is no longer in progress, no channel is    *)
(* kept for it, and the ids of the other runs are untouched.               *)
LEMMA FinishIInv ==
    ASSUME IInv, NEW r \in running, NEW st \in Status \ {"inProgress"}, Finish(r, st),
           worker' \in {worker, "awake", "exited"},
           interrupted' \subseteq Work, truncated' \subseteq Work
    PROVE  IInv'
<1>1. r.work \in Work /\ r.id \in Nat \ {0}
  BY DEF IInv, TypeOK, Run
<1>2. status' \in [Work -> Status] /\ doneChans' \in [Work -> Nat]
  BY <1>1 DEF Finish, WorkEnds, IInv, TypeOK, SchedTypeOK
<1>3. TypeOK'
  BY <1>2 DEF Finish, WorkEnds, IInv, TypeOK, SchedTypeOK
<1>4. InProgressHasDoneChan'
  BY <1>1 DEF Finish, WorkEnds, IInv, TypeOK, SchedTypeOK, InProgressHasDoneChan
<1>5. \A w \in Work : \A k :
          w # r.work /\ <<w, k>> \in RunningIds => <<w, k>> \in RunningIds'
  BY DEF Finish, RunningIds, Id
<1>6. DoneChanIsOpen'
  BY <1>1, <1>5 DEF Finish, IInv, TypeOK, DoneChanIsOpen
<1>7. RunsAreDistinct'
  BY DEF Finish, IInv, RunsAreDistinct
<1>8. QueuedIsReachable' /\ NewRootIsScheduled'
  BY DEF Finish, WorkEnds, IInv, QueuedIsReachable, NewRootIsScheduled
<1>9. OrphansCancelledOutsideUpdate'
  <2>1. Id(r) \notin RunningIds'
    BY DEF Finish, IInv, RunsAreDistinct, RunningIds
  <2>2. RunningIds' \subseteq RunningIds
    BY DEF Finish, RunningIds
  <2> QED
    BY <2>1, <2>2 DEF Finish, WorkEnds, IInv, OrphansCancelledOutsideUpdate
<1>10. NoLostWakeup'
  BY DEF Finish, WorkEnds, IInv, NoLostWakeup, CanWork, HasWork
<1> QED
  BY <1>3, <1>4, <1>6, <1>7, <1>8, <1>9, <1>10 DEF IInv

(* Every way a run can end is an instance of FinishIInv.                   *)
LEMMA EndsIInv ==
    ASSUME IInv, NEW r \in running, Ends(r)
    PROVE  IInv'
<1>1. r.work \in Work /\ r.ctx \in Request \cup {Background} /\ r.work[2] \in allProviders
  BY WorkPair DEF IInv, TypeOK, Run
<1>2. interrupted \subseteq Work /\ truncated \subseteq Work
  BY DEF IInv, TypeOK
<1>3. CASE Complete(r) \/ Panic(r) \/ AbortParent(r)
  BY <1>1, <1>2, <1>3, FinishIInv DEF Complete, Panic, AbortParent, Resume, Unwind, Status
<1>4. CASE NotApplicable(r)
  BY <1>1, <1>2, <1>4, FinishIInv DEF NotApplicable, Resume, Status
<1>5. CASE Abort(r)
  BY <1>1, <1>2, <1>5, FinishIInv DEF Abort, Resume, Status
<1> QED
  BY <1>3, <1>4, <1>5 DEF Ends

(* The worker starts an item of the heap, which is on a reachable state.   *)
LEMMA WorkerStartsIInv ==
    ASSUME IInv, WorkerStarts
    PROVE  IInv'
<1>1. PICK w \in queue : prepareWorkLocked({w}, Background)
  BY DEF WorkerStarts
<1>2. w \in Work /\ depth[w[1]] >= 0 /\ {w} \in SUBSET Work
  BY DEF IInv, TypeOK, SchedTypeOK, QueuedIsReachable
<1>3. TypeOK'
  BY <1>1, <1>2, PrepareEffect DEF WorkerStarts, IInv, TypeOK, SchedTypeOK
<1>4. InProgressHasDoneChan' /\ DoneChanIsOpen' /\ RunsAreDistinct'
  BY <1>1, <1>2, PrepareEffect
<1>5. QueuedIsReachable'
  BY <1>1, <1>2, PrepareEffect DEF WorkerStarts, IInv, QueuedIsReachable
<1>6. OrphansCancelledOutsideUpdate'
  <2>1. \A v \in Work : depth[v[1]] < 0 => v \in Work \ {w}
    BY <1>2, WorkPair DEF IInv, TypeOK, SchedTypeOK
  <2> QED
    BY <1>1, <1>2, <2>1, PrepareEffect DEF WorkerStarts, IInv, OrphansCancelledOutsideUpdate
<1>7. NewRootIsScheduled' /\ NoLostWakeup'
  BY DEF WorkerStarts, Free, NewRootIsScheduled, NoLostWakeup
<1> QED
  BY <1>3, <1>4, <1>5, <1>6, <1>7 DEF IInv

(* Prune drops only orphans, of which none is queued; a run that is        *)
(* dropped is cancelled.                                                   *)
LEMMA GarbageCollectIInv ==
    ASSUME IInv, GarbageCollect
    PROVE  IInv'
<1>1. CancelOf(Orphaned \cap aged) \subseteq StartId
  BY DEF CancelOf, StartId, IInv, TypeOK, SchedTypeOK
<1>2. SchedTypeOK'
  <2>1. score' \in [Buf -> Score] /\ aged' \subseteq Buf
    BY SchedulerAssumption DEF GarbageCollect, Prune, Orphaned, IInv, TypeOK, SchedTypeOK
  <2>2. status' \in [Work -> Status]
    BY DEF GarbageCollect, Prune, Status, IInv, TypeOK, SchedTypeOK
  <2>3. priority' \in [Work -> {-1, similarPriority} \cup Score]
    BY DEF GarbageCollect, Prune, IInv, TypeOK, SchedTypeOK
  <2>4. completions' \in [Work -> SUBSET Completion] /\ cancel' \in [Work -> Nat]
    BY DEF GarbageCollect, Prune, IInv, TypeOK, SchedTypeOK
  <2> QED
    BY <2>1, <2>2, <2>3, <2>4 DEF GarbageCollect, Prune, IInv, TypeOK, SchedTypeOK
<1>3. TypeOK'
  BY <1>1, <1>2 DEF GarbageCollect, IInv, TypeOK
<1>4. InProgressHasDoneChan'
  BY DEF GarbageCollect, Prune, IInv, TypeOK, SchedTypeOK, InProgressHasDoneChan
<1>5. DoneChanIsOpen' /\ RunsAreDistinct'
  BY DEF GarbageCollect, IInv, DoneChanIsOpen, RunsAreDistinct, RunningIds
<1>6. QueuedIsReachable' /\ NewRootIsScheduled' /\ NoLostWakeup'
  BY DEF GarbageCollect, Prune, IInv, QueuedIsReachable, NewRootIsScheduled, NoLostWakeup,
     CanWork, HasWork
<1>7. OrphansCancelledOutsideUpdate'
  <2>1. \A w \in Work : cancel'[w] # 0 => cancel'[w] = cancel[w]
    BY DEF GarbageCollect, Prune, IInv, TypeOK, SchedTypeOK
  <2>2. RunningIds' = RunningIds
    BY DEF GarbageCollect, RunningIds
  <2> QED
    BY <2>1, <2>2 DEF GarbageCollect, Prune, IInv, OrphansCancelledOutsideUpdate
<1> QED
  BY <1>3, <1>4, <1>5, <1>6, <1>7 DEF IInv

(* The steps that leave the scheduler, the runs and the channels alone.    *)
LEMMA QuietIInv ==
    ASSUME IInv,
           UNCHANGED <<schedVars, root, doneChans, starts, running, cancelled, updating,
                       interrupted, truncated>>,
           TypeOK',
           updating # NoRequest => req'[updating] = req[updating],
           NoLostWakeup'
    PROVE  IInv'
  BY DEF IInv, schedVars, InProgressHasDoneChan, DoneChanIsOpen, QueuedIsReachable,
     RunsAreDistinct, RunningIds, OrphansCancelledOutsideUpdate, NewRootIsScheduled

(* The steps of a request that change no more than its own progress.       *)
LEMMA RequestIInv ==
    ASSUME IInv, NEW q \in Request,
           UpdateFails(q) \/ UpdateReturns(q) \/ UpdateAborts(q) \/ Expire(q)
    PROVE  IInv'
<1>1. UNCHANGED <<schedVars, root, doneChans, starts, running, cancelled, updating,
                  interrupted, truncated, rescheduled, pause, worker, reset, resetOn>>
  BY DEF UpdateFails, UpdateReturns, UpdateAborts, Expire
<1>2. req' \in [Request -> ReqState] /\ expired' \subseteq Request
  <2>1. \A phase \in {"returned", "aborted", "error"} : Over(phase) \in ReqState
    BY DriverAssumption DEF Over, ReqState
  <2>2. /\ expired' \subseteq Request
        /\ req' = req \/ \E phase \in {"returned", "aborted", "error"} :
                           req' = [req EXCEPT ![q] = Over(phase)]
    BY DEF UpdateFails, UpdateReturns, UpdateAborts, Expire, IInv, TypeOK
  <2> QED
    BY <2>1, <2>2 DEF IInv, TypeOK
<1>4. TypeOK'
  BY <1>1, <1>2 DEF schedVars, IInv, TypeOK, SchedTypeOK
<1>5. updating # NoRequest => req'[updating] = req[updating]
  BY DEF UpdateFails, UpdateReturns, UpdateAborts, Expire, Free, IInv, TypeOK,
     NewRootIsScheduled
<1>6. NoLostWakeup'
  BY <1>1 DEF schedVars, IInv, NoLostWakeup, CanWork, HasWork
<1> QED
  BY <1>1, <1>4, <1>5, <1>6, QuietIInv

(* The worker's other steps, the time limit and Reset; the worker sleeps   *)
(* only when it may not work.                                              *)
LEMMA ControlIInv ==
    ASSUME IInv,
           \/ WorkerPanics \/ WorkerSleeps \/ WorkerExits
           \/ TimeLimit \/ ResetCall \/ ResetLooks \/ UNCHANGED vars
    PROVE  IInv'
<1>1. UNCHANGED <<schedVars, root, doneChans, starts, running, cancelled, updating,
                  interrupted, truncated, rescheduled, req, expired>>
  BY DEF WorkerPanics, WorkerSleeps, WorkerExits, TimeLimit, ResetCall, ResetLooks, vars,
     driverVars
<1>2. resetOn' \subseteq StartId
  BY DEF WorkerPanics, WorkerSleeps, WorkerExits, TimeLimit, ResetCall, ResetLooks, vars,
     driverVars, StartId, IInv, TypeOK
<1>3. /\ pause' \in {"future", "past", "zero"}
      /\ worker' \in {"awake", "asleep", "busy", "exited"}
      /\ reset' \in {"idle", "waiting", "returned"}
  BY DEF WorkerPanics, WorkerSleeps, WorkerExits, TimeLimit, ResetCall, ResetLooks, vars,
     driverVars, Broadcast, IInv, TypeOK
<1>4. TypeOK'
  BY <1>1, <1>2, <1>3 DEF schedVars, IInv, TypeOK, SchedTypeOK
<1>5. NoLostWakeup'
  BY DEF WorkerPanics, WorkerSleeps, WorkerExits, TimeLimit, ResetCall, ResetLooks, vars,
     driverVars, schedVars, Broadcast, IInv, NoLostWakeup, CanWork, HasWork
<1> QED
  BY <1>1, <1>4, <1>5, QuietIInv

(* Every step preserves the invariant.                                     *)
LEMMA StepIInv == IInv /\ [Next]_vars => IInv'
<1> SUFFICES ASSUME IInv, [Next]_vars PROVE IInv'
  OBVIOUS
<1>1. ASSUME NEW q \in Request, NEW b \in Buf, NEW blocking \in BOOLEAN,
             UpdateUnchanged(q, b, blocking) \/ UpdateBegins(q, b, blocking)
      PROVE  IInv'
  BY <1>1, UpdateUnchangedIInv, UpdateBeginsIInv
<1>2. ASSUME NEW q \in Request,
             \/ UpdateFails(q) \/ UpdateEnds(q) \/ UpdateReturns(q) \/ UpdateAborts(q)
             \/ Expire(q)
      PROVE  IInv'
  BY <1>2, RequestIInv, UpdateEndsIInv
<1>3. ASSUME NEW r \in running, Provide(r) \/ Ends(r) PROVE IInv'
  BY <1>3, ProvideIInv, EndsIInv
<1> QED
  BY <1>1, <1>2, <1>3, RescheduleIInv, WorkerStartsIInv, GarbageCollectIInv, ControlIInv
     DEF Next

(* The inductive invariant holds in every reachable state.                 *)
THEOREM Invariance == Spec => []IInv
  BY InitIInv, StepIInv, PTL DEF Spec

(* scheduler.go, driver.go: every field keeps its range; in particular     *)
(* depths stay within the limit.                                           *)
THEOREM TypeCorrect == Spec => []TypeOK
<1>1. IInv => TypeOK
  BY DEF IInv
<1> QED
  BY <1>1, Invariance, PTL

(* updateBlocking never panics for want of a done channel ...              *)
THEOREM DoneChannels == Spec => []InProgressHasDoneChan
<1>1. IInv => InProgressHasDoneChan
  BY DEF IInv
<1> QED
  BY <1>1, Invariance, PTL

(* ... and the channel it waits on belongs to a run that will close it.    *)
THEOREM DoneChannelsAreOpen == Spec => []DoneChanIsOpen
<1>1. IInv => DoneChanIsOpen
  BY DEF IInv
<1> QED
  BY <1>1, Invariance, PTL

(* Prune never deletes a state whose work is in the heap.                  *)
THEOREM QueueIsReachable == Spec => []QueuedIsReachable
<1>1. IInv => QueuedIsReachable
  BY DEF IInv
<1> QED
  BY <1>1, Invariance, PTL

(* Whenever the lock is free, the last run of every provision of an        *)
(* orphaned state is cancelled or over.                                    *)
THEOREM OrphansAreCancelled == Spec => []OrphansCancelled
<1>1. IInv => OrphansCancelled
  <2> SUFFICES ASSUME IInv, Free, NEW i \in CancelOf(Orphaned), i \in RunningIds
               PROVE  i \in cancelled
    BY DEF OrphansCancelled
  <2>1. PICK w \in Work : w[1] \in Orphaned /\ cancel[w] # 0 /\ i = <<w, cancel[w]>>
    BY DEF CancelOf
  <2> QED
    BY <2>1 DEF IInv, OrphansCancelledOutsideUpdate, Free, Orphaned
<1> QED
  BY <1>1, Invariance, PTL

(* workLoop never sleeps while there is work that it may do.               *)
THEOREM WorkerIsWoken == Spec => []NoLostWakeup
<1>1. IInv => NoLostWakeup
  BY DEF IInv
<1> QED
  BY <1>1, Invariance, PTL

-----------------------------------------------------------------------------
(* Pending work is queued                                                  *)

(* Pending work that neither waits in the heap nor was interrupted has     *)
(* priority -1, so that any score pushes it, and no depth calls for it.    *)
RestingIsUnscheduled ==
    \A w \in Work : status[w] = "pending" /\ w \notin queue \cup interrupted =>
        priority[w] = -1 /\ w[2] \notin Scheduled(depth[w[1]])

(* Starting work leaves all other work at rest or queued as it was.        *)
LEMMA PrepareResting ==
    ASSUME IInv, RestingIsUnscheduled, NEW W \in SUBSET Work, NEW ctx,
           prepareWorkLocked(W, ctx), UNCHANGED depth
    PROVE  RestingIsUnscheduled'
<1>1. /\ status' = [w \in Work |-> IF w \in W THEN "inProgress" ELSE status[w]]
      /\ \A w \in queue \ W : status[w] = "pending" => w \in queue'
      /\ interrupted' = interrupted \ W
      /\ \A w \in Work \ W : w \notin queue => priority'[w] = priority[w]
  BY DEF prepareWorkLocked, WorkStarting
<1>2. \A w \in Work : status'[w] = "pending" => w \notin W /\ status[w] = "pending"
  BY <1>1
<1> QED
  BY <1>1, <1>2 DEF RestingIsUnscheduled

LEMMA AnswerResting ==
    ASSUME IInv, RestingIsUnscheduled, NEW q \in Request, NEW b \in Buf, NEW blocking \in BOOLEAN,
           IF blocking THEN BlockOn(q, b) ELSE ReturnAtOnce(q), UNCHANGED depth
    PROVE  RestingIsUnscheduled'
<1>1. CASE blocking
  <2> DEFINE Own == {w \in {b} \X blockingProviders : status[w] = "pending"}
  <2>1. Own \in SUBSET Work
    BY DriverAssumption DEF Work
  <2>2. prepareWorkLocked(Own, q)
    BY <1>1 DEF BlockOn
  <2> HIDE DEF Own
  <2> QED BY <2>1, <2>2, PrepareResting
<1>2. CASE ~blocking
  BY <1>2 DEF ReturnAtOnce, RestingIsUnscheduled
<1> QED BY <1>1, <1>2

(* reschedule visits a state and queues what its depth calls for.          *)
LEMMA RescheduleResting ==
    ASSUME IInv, RestingIsUnscheduled, Reschedule
    PROVE  RestingIsUnscheduled'
<1>1. PICK call \in calls : \/ rescheduleReturns(call[1], call[2], call[3])
                            \/ rescheduleVisits(call[1], call[2], call[3])
  BY DEF Reschedule
<1> DEFINE b == call[1]
           d == call[2]
           s == call[3]
<1>2. b \in Buf /\ d \in 0..depthLimit + 1 /\ s \in Score /\ interrupted' = interrupted
  BY <1>1 DEF IInv, TypeOK, SchedTypeOK, Reschedule
<1> HIDE DEF b, d, s
<1>3. CASE rescheduleReturns(b, d, s)
  BY <1>2, <1>3 DEF rescheduleReturns, RestingIsUnscheduled
<1>4. CASE rescheduleVisits(b, d, s)
  <2> DEFINE Raised == {w \in {b} \X Scheduled(d) : s > priority[w]}
  <2>1. /\ status' = status
        /\ depth'[b] = d /\ \A x \in Buf : x # b => depth'[x] = depth[x]
        /\ priority' = [w \in Work |-> IF w \in Raised THEN s ELSE priority[w]]
        /\ queue' = (queue \ Raised) \cup {w \in Raised : status[w] = "pending"}
    BY <1>2, <1>4 DEF rescheduleVisits, increasePriority, IInv, TypeOK, SchedTypeOK
  <2>2. ASSUME NEW w \in Work, status'[w] = "pending", w \notin queue' \cup interrupted'
        PROVE  priority'[w] = -1 /\ w[2] \notin Scheduled(depth'[w[1]])
    <3>1. w \notin Raised /\ w \notin queue /\ w \notin interrupted /\ priority'[w] = priority[w]
      BY <1>2, <2>1, <2>2
    <3>2. priority[w] = -1 /\ w[2] \notin Scheduled(depth[w[1]])
      BY <2>1, <2>2, <3>1 DEF RestingIsUnscheduled
    <3>3. CASE w[1] # b
      BY <2>1, <3>1, <3>2, <3>3, WorkPair
    <3>4. CASE w[1] = b
      <4>1. s > priority[w]
        BY <1>2, <3>2, SchedulerAssumption
      <4>2. w[2] \in Scheduled(d) => w \in {b} \X Scheduled(d)
        BY <3>4 DEF Work
      <4> QED BY <2>1, <3>1, <3>2, <3>4, <4>1, <4>2
    <3> QED BY <3>3, <3>4
  <2> QED BY <2>2 DEF RestingIsUnscheduled
<1> QED BY <1>1, <1>3, <1>4 DEF b, d, s

(* A run that is over leaves its work pending only when it is interrupted. *)
LEMMA EndsResting ==
    ASSUME IInv, RestingIsUnscheduled, NEW r \in running, Ends(r)
    PROVE  RestingIsUnscheduled'
<1>1. r.work \in Work
  BY DEF IInv, TypeOK, Run
<1>2. \E st \in Status : /\ Finish(r, st)
                         /\ interrupted' = IF st = "pending" THEN interrupted \cup {r.work}
                                           ELSE interrupted
  BY DEF Ends, Complete, NotApplicable, Panic, Abort, AbortParent, Status
<1>3. \E st \in Status : /\ status' = [status EXCEPT ![r.work] = st]
                         /\ interrupted' = IF st = "pending" THEN interrupted \cup {r.work}
                                           ELSE interrupted
                         /\ UNCHANGED <<depth, priority, queue>>
  BY <1>2 DEF Finish, WorkEnds
<1>4. status \in [Work -> Status]
  BY DEF IInv, TypeOK, SchedTypeOK
<1> QED BY <1>1, <1>3, <1>4 DEF RestingIsUnscheduled

(* Prune puts the work of a state it deletes back to where it began.       *)
LEMMA GarbageCollectResting ==
    ASSUME IInv, RestingIsUnscheduled, GarbageCollect
    PROVE  RestingIsUnscheduled'
<1>1. /\ UNCHANGED <<depth, queue>>
      /\ interrupted' = {w \in interrupted : w[1] \notin Orphaned \cap aged}
      /\ status' = [w \in Work |-> IF w[1] \in Orphaned \cap aged THEN "pending" ELSE status[w]]
      /\ priority' = [w \in Work |-> IF w[1] \in Orphaned \cap aged THEN -1 ELSE priority[w]]
  BY DEF GarbageCollect, Prune
<1>2. \A w \in Work : w[1] \in Orphaned => w[2] \notin Scheduled(depth[w[1]])
  BY WorkPair, SchedulerAssumption DEF Orphaned, Scheduled, IInv, TypeOK, SchedTypeOK
<1> QED BY <1>1, <1>2 DEF RestingIsUnscheduled

(* A new root unschedules everything, and what it takes out of the heap    *)
(* gets priority -1.                                                       *)
LEMMA UpdateBeginsResting ==
    ASSUME IInv, RestingIsUnscheduled, NEW q \in Request, NEW b \in Buf, NEW blocking \in BOOLEAN,
           UpdateBegins(q, b, blocking)
    PROVE  RestingIsUnscheduled'
<1>1. /\ UNCHANGED <<status, interrupted>>
      /\ depth' = [x \in Buf |-> -1]
      /\ priority' = [w \in Work |-> IF w \in queue THEN -1 ELSE priority[w]]
      /\ queue' = {}
  BY DEF UpdateBegins, UpdateSchedule
<1>2. \A w \in Work : w[2] \notin Scheduled(depth'[w[1]])
  BY <1>1, WorkPair, SchedulerAssumption DEF Scheduled
<1> QED BY <1>1, <1>2 DEF RestingIsUnscheduled

LEMMA StepResting == IInv /\ RestingIsUnscheduled /\ [Next]_vars => RestingIsUnscheduled'
<1> SUFFICES ASSUME IInv, RestingIsUnscheduled, [Next]_vars PROVE RestingIsUnscheduled'
  OBVIOUS
<1>1. CASE UNCHANGED <<depth, status, priority, queue, interrupted>>
  BY <1>1 DEF RestingIsUnscheduled
<1>2. ASSUME NEW q \in Request, NEW b \in Buf, NEW blocking \in BOOLEAN,
             UpdateUnchanged(q, b, blocking)
      PROVE  RestingIsUnscheduled'
  BY <1>2, AnswerResting DEF UpdateUnchanged
<1>3. ASSUME NEW q \in Request, UpdateEnds(q) PROVE RestingIsUnscheduled'
  <2>1. req[q].buf \in Buf /\ req[q].blocking \in BOOLEAN
    BY DEF IInv, TypeOK, ReqState
  <2> QED BY <1>3, <2>1, AnswerResting DEF UpdateEnds
<1>4. ASSUME NEW q \in Request,
             UpdateFails(q) \/ UpdateReturns(q) \/ UpdateAborts(q) \/ Expire(q)
      PROVE  RestingIsUnscheduled'
  BY <1>1, <1>4 DEF UpdateFails, UpdateReturns, UpdateAborts, Expire, schedVars
<1>5. ASSUME NEW r \in running, Provide(r) PROVE RestingIsUnscheduled'
  BY <1>1, <1>5 DEF Provide, GotCompletion, driverVars
<1>6. CASE WorkerStarts
  <2>1. PICK w \in queue : prepareWorkLocked({w}, Background)
    BY <1>6 DEF WorkerStarts
  <2>2. {w} \in SUBSET Work /\ UNCHANGED depth
    BY <1>6 DEF WorkerStarts, IInv, TypeOK, SchedTypeOK
  <2> QED BY <2>1, <2>2, PrepareResting
<1>7. CASE \/ WorkerPanics \/ WorkerSleeps \/ WorkerExits
          \/ TimeLimit \/ ResetCall \/ ResetLooks \/ UNCHANGED vars
  BY <1>1, <1>7 DEF WorkerPanics, WorkerSleeps, WorkerExits, TimeLimit, ResetCall, ResetLooks,
     vars, schedVars, driverVars
<1> QED
  BY <1>2, <1>3, <1>4, <1>5, <1>6, <1>7, UpdateBeginsResting, RescheduleResting, EndsResting,
     GarbageCollectResting DEF Next

(* No pending work that the depth of its state calls for is forgotten: it  *)
(* is in the heap, whatever sequence of updates, runs, prunings and        *)
(* completions led there, unless an abort put it back.                     *)
THEOREM PendingWorkIsQueued == Spec => []PendingIsQueued
<1>1. Init => RestingIsUnscheduled
  BY WorkPair, SchedulerAssumption DEF Init, newScheduler, RestingIsUnscheduled, Scheduled
<1>2. IInv /\ RestingIsUnscheduled => PendingIsQueued
  <2> SUFFICES ASSUME RestingIsUnscheduled, NEW b \in Buf, NEW p \in Scheduled(depth[b]),
                      status[<<b, p>>] = "pending"
               PROVE  <<b, p>> \in queue \cup interrupted
    BY DEF PendingIsQueued
  <2>1. p \in allProviders
    BY SchedulerAssumption DEF Scheduled
  <2>2. <<b, p>> \in Work
    BY <2>1, PairWork
  <2> QED BY <2>2 DEF RestingIsUnscheduled
<1> QED BY <1>1, <1>2, StepResting, Invariance, PTL DEF Spec

-----------------------------------------------------------------------------
(* Incremental rescheduling finds the shortest paths                       *)

(* What a search over the paths finds, as far as states were reached.      *)
ClosedSoFar(P) ==
    /\ <<rescheduled, 0, One>> \in P
    /\ \A x \in P, p \in allProviders : depth[x[1]] >= 0 =>
          \A c \in completions[<<x[1], p>>] :
            \A l \in rescheduleCompletion(p, c, x[2], x[3]) : l[2] <= depthLimit => l \in P

Reached == \E b \in Buf : depth[b] >= 0

(* In the middle of a search: what is not yet followed is among the calls  *)
(* to be executed, and every label and call is that of a path.             *)
Searched ==
    Reached \/ calls # {} =>
      /\ <<rescheduled, 0, One>> \in calls \/ Superseded(rescheduled, 0, One)
      /\ \A w \in Work : depth[w[1]] >= 0 => \A c \in completions[w] :
            \A l \in rescheduleCompletion(w[2], c, depth[w[1]], score[w[1]]) :
              l \in calls \/ Superseded(l[1], l[2], l[3])
      /\ \A P \in SUBSET Label : ClosedSoFar(P) =>
            /\ \A b \in Buf : depth[b] >= 0 => <<b, depth[b], score[b]>> \in P
            /\ \A l \in calls : l[2] <= depthLimit => l \in P

(* The buffer of the Update in progress is the one to search from; outside *)
(* Update, d.root is at depth zero.                                        *)
RootIsReached ==
    /\ updating # NoRequest => req[updating].buf = rescheduled
    /\ updating = NoRequest /\ (Reached \/ calls # {}) => depth[root] = 0

(* Calls are executed one at a time: one that is superseded is dropped,    *)
(* and another makes the label of its state better.                        *)
LEMMA RescheduleSearched ==
    ASSUME IInv, Searched, Reschedule
    PROVE  Searched'
<1>1. PICK call \in calls : \/ rescheduleReturns(call[1], call[2], call[3])
                            \/ rescheduleVisits(call[1], call[2], call[3])
  BY DEF Reschedule
<1> DEFINE b == call[1]
           d == call[2]
           s == call[3]
<1>2. b \in Buf /\ d \in 0..depthLimit + 1 /\ s \in Score /\ call = <<b, d, s>>
  BY <1>1 DEF IInv, TypeOK, SchedTypeOK
<1>3. /\ <<rescheduled, 0, One>> \in calls \/ Superseded(rescheduled, 0, One)
      /\ \A w \in Work : depth[w[1]] >= 0 => \A c \in completions[w] :
            \A l \in rescheduleCompletion(w[2], c, depth[w[1]], score[w[1]]) :
              l \in calls \/ Superseded(l[1], l[2], l[3])
      /\ \A P \in SUBSET Label : ClosedSoFar(P) =>
            /\ \A x \in Buf : depth[x] >= 0 => <<x, depth[x], score[x]>> \in P
            /\ \A l \in calls : l[2] <= depthLimit => l \in P
  BY <1>1 DEF Searched
<1>4. rescheduled' = rescheduled /\ rescheduled \in Buf
  BY DEF Reschedule, IInv, TypeOK
<1> HIDE DEF b, d, s
<1>5. CASE rescheduleReturns(b, d, s)
  <2>1. /\ calls' = calls \ {<<b, d, s>>} /\ Superseded(b, d, s)
        /\ UNCHANGED <<depth, score, completions>>
    BY <1>5 DEF rescheduleReturns
  <2>2. \A x, n, z : Superseded(x, n, z)' <=> Superseded(x, n, z)
    BY <2>1 DEF Superseded
  <2>3. \A P : ClosedSoFar(P)' <=> ClosedSoFar(P)
    BY <1>4, <2>1 DEF ClosedSoFar
  <2> QED BY <1>3, <1>4, <2>1, <2>2, <2>3 DEF Searched
<1>6. CASE rescheduleVisits(b, d, s)
  <2> DEFINE Cached == {x \in allProviders \X Completion : x[2] \in completions[<<b, x[1]>>]}
             More == UNION {rescheduleCompletion(x[1], x[2], d, s) : x \in Cached}
  <2>1. /\ ~Superseded(b, d, s) /\ completions' = completions /\ <<b, d, s>> \in calls
        /\ depth' = [depth EXCEPT ![b] = d] /\ score' = [score EXCEPT ![b] = s]
        /\ calls' = (calls \ {<<b, d, s>>}) \cup More
    BY <1>6 DEF rescheduleVisits
  <2>2. /\ depth \in [Buf -> -1..depthLimit] /\ score \in [Buf -> Score]
        /\ completions \in [Work -> SUBSET Completion]
    BY DEF IInv, TypeOK, SchedTypeOK
  <2>3. /\ depth'[b] = d /\ score'[b] = s /\ d \in 0..depthLimit
        /\ \A x \in Buf : x # b => depth'[x] = depth[x] /\ score'[x] = score[x]
    BY <1>2, <2>1, <2>2, SchedulerAssumption DEF Superseded
  <2>4. ASSUME NEW x \in Buf, NEW n \in 0..depthLimit + 1, NEW z \in Score,
               Superseded(x, n, z)
        PROVE  Superseded(x, n, z)'
    <3>1. CASE x # b
      BY <2>3, <2>4, <3>1 DEF Superseded
    <3>2. CASE x = b
      <4>1. depth[b] \in -1..depthLimit /\ score[b] \in Score
        BY <1>2, <2>2
      <4>2. d \in Int /\ n \in Int /\ depthLimit \in Int /\ depth[b] \in Int /\ tolerance \in Nat
            /\ s \in Int /\ z \in Int /\ score[b] \in Int /\ 0 <= d /\ d <= depthLimit
        BY <1>2, <2>3, <4>1, SchedulerAssumption
      <4>3. /\ ~(0 <= depth[b] /\ depth[b] < d)
            /\ ~(depth[b] = d /\ s <= score[b] + tolerance)
        BY <2>1 DEF Superseded
      <4>4. \/ n > depthLimit
            \/ 0 <= depth[b] /\ depth[b] < n
            \/ depth[b] = n /\ z <= score[b] + tolerance
        BY <2>4, <3>2 DEF Superseded
      <4>5. n > depthLimit \/ d < n \/ (d = n /\ z <= s + tolerance)
        BY <2>4, <4>2, <4>3, <4>4
      <4> QED BY <2>3, <3>2, <4>2, <4>5 DEF Superseded
    <3> QED BY <3>1, <3>2
  <2>5. Superseded(b, d, s)'
    <3>1. s \in Nat /\ tolerance \in Nat
      BY <1>2, SchedulerAssumption
    <3>2. s <= s + tolerance
      BY <3>1
    <3> QED BY <2>3, <3>2 DEF Superseded
  <2>6. <<rescheduled, 0, One>> \in calls' \/ Superseded(rescheduled, 0, One)'
    <3>1. 0 \in 0..depthLimit + 1 /\ One \in Score
      BY SchedulerAssumption
    <3>2. CASE <<rescheduled, 0, One>> = <<b, d, s>>
      BY <1>4, <2>5, <3>2 DEF Superseded
    <3>3. CASE <<rescheduled, 0, One>> # <<b, d, s>>
      BY <1>3, <1>4, <2>1, <2>4, <3>1, <3>3
    <3> QED BY <3>2, <3>3
  <2>7. ASSUME NEW w \in Work, NEW c \in completions[w], depth'[w[1]] >= 0,
               NEW l \in rescheduleCompletion(w[2], c, depth'[w[1]], score'[w[1]])
        PROVE  l \in calls' \/ Superseded(l[1], l[2], l[3])'
    <3>1. w[1] \in Buf /\ w[2] \in allProviders /\ w = <<w[1], w[2]>> /\ c \in Completion
      BY <2>2 DEF Work
    <3>2. CASE w[1] = b
      <4>1. <<w[2], c>> \in Cached
        BY <3>1, <3>2
      <4>2. l \in rescheduleCompletion(w[2], c, d, s)
        BY <2>3, <2>7, <3>2
      <4>3. l \in More
        BY <4>1, <4>2
      <4> HIDE DEF More
      <4> QED BY <2>1, <4>3
    <3>3. CASE w[1] # b
      <4>1. depth'[w[1]] = depth[w[1]] /\ score'[w[1]] = score[w[1]]
        BY <2>3, <3>1, <3>3
      <4>2. l \in calls \/ Superseded(l[1], l[2], l[3])
        BY <1>3, <2>7, <4>1
      <4>3. depth[w[1]] \in 0..depthLimit /\ score[w[1]] \in Score
        BY <2>2, <2>7, <3>1, <4>1, SchedulerAssumption
      <4>4. l \in Buf \X (0..depthLimit + 1) \X Score
        BY <2>7, <3>1, <4>1, <4>3, CallsTyped
      <4>5. PICK x \in Buf, n \in 0..depthLimit + 1, z \in Score : l = <<x, n, z>>
        BY <4>4
      <4>6. l[1] = x /\ l[2] = n /\ l[3] = z
        BY <4>5
      <4>7. CASE l = <<b, d, s>>
        BY <2>5, <4>7
      <4>8. CASE l # <<b, d, s>> /\ l \in calls
        <5> HIDE DEF More
        <5> QED BY <2>1, <4>8
      <4>9. CASE Superseded(l[1], l[2], l[3])
        <5>1. Superseded(x, n, z)'
          BY <2>4, <4>6, <4>9
        <5> QED BY <4>6, <5>1
      <4> QED BY <4>2, <4>7, <4>8, <4>9
    <3> QED BY <3>2, <3>3
  <2>8. ASSUME NEW P \in SUBSET Label, ClosedSoFar(P)'
        PROVE  /\ \A x \in Buf : depth'[x] >= 0 => <<x, depth'[x], score'[x]>> \in P
               /\ \A l \in calls' : l[2] <= depthLimit => l \in P
    <3>1. /\ <<rescheduled, 0, One>> \in P
          /\ \A x \in P, p \in allProviders : depth'[x[1]] >= 0 =>
                \A c \in completions[<<x[1], p>>] :
                  \A l \in rescheduleCompletion(p, c, x[2], x[3]) : l[2] <= depthLimit => l \in P
      BY <1>4, <2>1, <2>8 DEF ClosedSoFar
    <3>2. \A x \in Buf : depth[x] >= 0 => depth'[x] >= 0
      BY <2>2, <2>3, SchedulerAssumption
    <3>3. \A x \in P : x[1] \in Buf
      BY DEF Label
    <3>4. ClosedSoFar(P)
      BY <3>1, <3>2, <3>3 DEF ClosedSoFar
    <3>5. /\ \A x \in Buf : depth[x] >= 0 => <<x, depth[x], score[x]>> \in P
          /\ \A l \in calls : l[2] <= depthLimit => l \in P
      BY <1>3, <3>4
    <3>6. <<b, d, s>> \in P
      <4>1. <<b, d, s>>[2] <= depthLimit
        BY <2>3, SchedulerAssumption
      <4> QED BY <2>1, <3>5, <4>1
    <3>7. \A x \in Buf : depth'[x] >= 0 => <<x, depth'[x], score'[x]>> \in P
      BY <2>3, <3>5, <3>6
    <3>8. ASSUME NEW x \in Cached, NEW l \in rescheduleCompletion(x[1], x[2], d, s),
                 l[2] <= depthLimit
          PROVE  l \in P
      <4>1. x[1] \in allProviders /\ x[2] \in completions[<<b, x[1]>>]
        OBVIOUS
      <4> DEFINE y == <<b, d, s>>
      <4>2. y \in P /\ y[1] = b /\ y[2] = d /\ y[3] = s
        BY <3>6
      <4> HIDE DEF y
      <4>3. depth'[y[1]] >= 0
        BY <2>3, <4>2, SchedulerAssumption
      <4> QED BY <3>1, <3>8, <4>1, <4>2, <4>3
    <3>9. \A l \in More : l[2] <= depthLimit => l \in P
      BY <3>8
    <3> HIDE DEF More
    <3> QED BY <2>1, <3>5, <3>7, <3>9
  <2> HIDE DEF More
  <2> QED BY <1>4, <2>1, <2>6, <2>7, <2>8 DEF Searched
<1> QED BY <1>1, <1>5, <1>6 DEF b, d, s

(* A completion of a reached state is followed, one of another state waits *)
(* until that is reached.                                                  *)
LEMMA ProvideSearched ==
    ASSUME IInv, Searched, NEW run \in running, Provide(run)
    PROVE  Searched'
<1>1. PICK e \in Emits : e[1] = run.work /\ GotCompletion(run.work, e[2], e[3])
  BY DEF Provide
<1> DEFINE b == e[2]
           c == e[3]
           p == run.work[2]
<1>2. b \in Buf /\ c \in Completion /\ p \in allProviders /\ <<b, p>> \in Work
  <2>1. b \in Buf /\ c \in Completion /\ run.work \in Work
    BY <1>1, DriverAssumption DEF IInv, TypeOK, Run
  <2> QED BY <2>1, WorkPair, PairWork
<1>3. /\ calls = {} /\ UNCHANGED <<depth, score, rescheduled>>
      /\ completions' = [completions EXCEPT ![<<b, p>>] = @ \cup {c}]
      /\ calls' = IF depth[b] < 0 THEN {} ELSE rescheduleCompletion(p, c, depth[b], score[b])
  BY <1>1 DEF Provide, Free, GotCompletion, driverVars
<1> HIDE DEF b, c, p
<1>4. /\ depth \in [Buf -> -1..depthLimit] /\ score \in [Buf -> Score]
      /\ completions \in [Work -> SUBSET Completion]
  BY DEF IInv, TypeOK, SchedTypeOK
<1>5. /\ \A w \in Work : completions[w] \subseteq completions'[w]
      /\ \A w \in Work : \A x \in completions'[w] :
            x \in completions[w] \/ (x = c /\ w[1] = b /\ w[2] = p)
      /\ c \in completions'[<<b, p>>]
  BY <1>2, <1>3, <1>4
<1> SUFFICES ASSUME Reached \/ calls' # {} PROVE Searched'
  BY <1>3 DEF Searched, Reached
<1>6. Reached
  BY <1>2, <1>3, <1>4, SchedulerAssumption DEF Reached
<1>7. /\ Superseded(rescheduled, 0, One)
      /\ \A w \in Work : depth[w[1]] >= 0 => \A x \in completions[w] :
            \A l \in rescheduleCompletion(w[2], x, depth[w[1]], score[w[1]]) :
              Superseded(l[1], l[2], l[3])
      /\ \A P \in SUBSET Label : ClosedSoFar(P) =>
            \A x \in Buf : depth[x] >= 0 => <<x, depth[x], score[x]>> \in P
  BY <1>3, <1>6 DEF Searched
<1>8. \A x, n, z : Superseded(x, n, z)' <=> Superseded(x, n, z)
  BY <1>3 DEF Superseded
<1>9. ASSUME NEW w \in Work, NEW x \in completions'[w], depth[w[1]] >= 0,
             NEW l \in rescheduleCompletion(w[2], x, depth[w[1]], score[w[1]])
      PROVE  l \in calls' \/ Superseded(l[1], l[2], l[3])
  <2>1. CASE x \in completions[w]
    BY <1>7, <1>9, <2>1
  <2>2. CASE x = c /\ w[1] = b /\ w[2] = p
    <3>1. depth[b] \in -1..depthLimit
      BY <1>2, <1>4
    <3>2. ~(depth[b] < 0)
      BY <1>9, <2>2, <3>1, SchedulerAssumption
    <3> QED BY <1>3, <1>9, <2>2, <3>2
  <2> QED BY <1>5, <2>1, <2>2
<1>10. ASSUME NEW P \in SUBSET Label, ClosedSoFar(P)'
       PROVE  /\ \A x \in Buf : depth[x] >= 0 => <<x, depth[x], score[x]>> \in P
              /\ \A l \in calls' : l[2] <= depthLimit => l \in P
  <2>1. /\ <<rescheduled, 0, One>> \in P
        /\ \A x \in P, q \in allProviders : depth[x[1]] >= 0 =>
              \A y \in completions'[<<x[1], q>>] :
                \A l \in rescheduleCompletion(q, y, x[2], x[3]) : l[2] <= depthLimit => l \in P
    BY <1>3, <1>10 DEF ClosedSoFar
  <2>2. \A x \in P, q \in allProviders : <<x[1], q>> \in Work
    BY PairWork DEF Label
  <2>3. ClosedSoFar(P)
    BY <1>5, <2>1, <2>2 DEF ClosedSoFar
  <2>4. \A x \in Buf : depth[x] >= 0 => <<x, depth[x], score[x]>> \in P
    BY <1>7, <2>3
  <2>5. CASE depth[b] < 0
    BY <1>3, <2>4, <2>5
  <2>6. CASE ~(depth[b] < 0)
    <3>1. depth[b] >= 0
      BY <1>2, <1>4, <2>6, SchedulerAssumption
    <3> DEFINE y == <<b, depth[b], score[b]>>
    <3>2. y \in P /\ y[1] = b /\ y[2] = depth[b] /\ y[3] = score[b]
      BY <1>2, <2>4, <3>1
    <3> HIDE DEF y
    <3>3. \A l \in rescheduleCompletion(p, c, depth[b], score[b]) : l[2] <= depthLimit => l \in P
      BY <1>2, <1>5, <2>1, <3>1, <3>2
    <3> QED BY <1>3, <2>4, <2>6, <3>3
  <2> QED BY <2>5, <2>6
<1> QED BY <1>3, <1>7, <1>8, <1>9, <1>10 DEF Searched

(* Prune takes completions only from states that were not reached.         *)
LEMMA GarbageCollectSearched ==
    ASSUME IInv, Searched, GarbageCollect
    PROVE  Searched'
<1>1. /\ UNCHANGED <<depth, calls, rescheduled>> /\ calls = {}
      /\ score' = [b \in Buf |-> IF b \in Orphaned \cap aged THEN 0 ELSE score[b]]
      /\ completions' = [w \in Work |-> IF w[1] \in Orphaned \cap aged THEN {} ELSE completions[w]]
  BY DEF GarbageCollect, Prune, Free
<1>2. depth \in [Buf -> -1..depthLimit]
  BY DEF IInv, TypeOK, SchedTypeOK
<1>3. \A b \in Buf : depth[b] >= 0 => score'[b] = score[b]
  BY <1>1, <1>2, SchedulerAssumption DEF Orphaned
<1>4. \A w \in Work : depth[w[1]] >= 0 => completions'[w] = completions[w]
  BY <1>1, <1>2, WorkPair, SchedulerAssumption DEF Orphaned
<1> SUFFICES ASSUME Reached PROVE Searched'
  BY <1>1 DEF Searched, Reached
<1>5. /\ Superseded(rescheduled, 0, One)
      /\ \A w \in Work : depth[w[1]] >= 0 => \A x \in completions[w] :
            \A l \in rescheduleCompletion(w[2], x, depth[w[1]], score[w[1]]) :
              Superseded(l[1], l[2], l[3])
      /\ \A P \in SUBSET Label : ClosedSoFar(P) =>
            \A x \in Buf : depth[x] >= 0 => <<x, depth[x], score[x]>> \in P
  BY <1>1 DEF Searched
<1>6. ASSUME NEW x \in Buf, NEW n \in 0..depthLimit + 1, NEW z, Superseded(x, n, z)
      PROVE  Superseded(x, n, z)'
  BY <1>1, <1>2, <1>3, <1>6, SchedulerAssumption DEF Superseded
<1>7. Superseded(rescheduled, 0, One)'
  <2>1. 0 \in 0..depthLimit + 1 /\ rescheduled \in Buf
    BY SchedulerAssumption DEF IInv, TypeOK
  <2> QED BY <1>1, <1>5, <1>6, <2>1 DEF Superseded
<1>8. ASSUME NEW w \in Work, NEW c \in completions'[w], depth[w[1]] >= 0,
             NEW l \in rescheduleCompletion(w[2], c, depth[w[1]], score'[w[1]])
      PROVE  Superseded(l[1], l[2], l[3])'
  <2>1. w[1] \in Buf /\ w[2] \in allProviders
    BY WorkPair
  <2>2. c \in completions[w] /\ score'[w[1]] = score[w[1]]
    BY <1>3, <1>4, <1>8, <2>1
  <2>3. Superseded(l[1], l[2], l[3])
    BY <1>5, <1>8, <2>2
  <2>4. depth[w[1]] \in 0..depthLimit /\ score[w[1]] \in Score /\ c \in Completion
    BY <1>2, <1>8, <2>1, <2>2, SchedulerAssumption DEF IInv, TypeOK, SchedTypeOK
  <2>5. l \in Buf \X (0..depthLimit + 1) \X Score
    BY <1>8, <2>1, <2>2, <2>4, CallsTyped
  <2>6. l[1] \in Buf /\ l[2] \in 0..depthLimit + 1
    BY <2>5
  <2> QED BY <1>6, <2>3, <2>6
<1>9. ASSUME NEW P \in SUBSET Label, ClosedSoFar(P)'
      PROVE  \A x \in Buf : depth[x] >= 0 => <<x, depth[x], score'[x]>> \in P
  <2>1. \A x \in P, q \in allProviders : <<x[1], q>> \in Work /\ <<x[1], q>>[1] = x[1]
    BY PairWork DEF Label
  <2>2. ClosedSoFar(P)
    BY <1>1, <1>4, <1>9, <2>1 DEF ClosedSoFar
  <2> QED BY <1>3, <1>5, <2>2
<1> QED BY <1>1, <1>7, <1>8, <1>9 DEF Searched

(* A new root starts a new search.                                         *)
LEMMA UpdateBeginsSearched ==
    ASSUME IInv, NEW q \in Request, NEW b \in Buf, NEW blocking \in BOOLEAN,
           UpdateBegins(q, b, blocking)
    PROVE  Searched'
<1>1. depth' = [x \in Buf |-> -1] /\ calls' = {<<b, 0, One>>} /\ rescheduled' = b
  BY DEF UpdateBegins, UpdateSchedule
<1>2. \A x \in Buf : ~(depth'[x] >= 0)
  BY <1>1
<1>3. \A P \in SUBSET Label : ClosedSoFar(P)' => <<b, 0, One>> \in P
  BY <1>1 DEF ClosedSoFar
<1> QED BY <1>1, <1>2, <1>3, WorkPair DEF Searched

LEMMA StepSearched == IInv /\ Searched /\ [Next]_vars => Searched'
<1> SUFFICES ASSUME IInv, Searched, [Next]_vars PROVE Searched'
  OBVIOUS
<1>1. ASSUME UNCHANGED <<depth, score, completions, calls, rescheduled>> PROVE Searched'
  BY <1>1 DEF Searched, Reached, ClosedSoFar, Superseded
<1>2. ASSUME NEW q \in Request, NEW b \in Buf, NEW blocking \in BOOLEAN,
             UpdateUnchanged(q, b, blocking)
      PROVE  Searched'
  BY <1>1, <1>2 DEF UpdateUnchanged
<1>3. ASSUME NEW q \in Request,
             \/ UpdateFails(q) \/ UpdateEnds(q) \/ UpdateReturns(q) \/ UpdateAborts(q)
             \/ Expire(q)
      PROVE  Searched'
  BY <1>1, <1>3 DEF UpdateFails, UpdateEnds, UpdateReturns, UpdateAborts, Expire, schedVars
<1>4. ASSUME NEW r \in running, Ends(r) PROVE Searched'
  BY <1>1, <1>4 DEF Ends, Complete, NotApplicable, Panic, Abort, AbortParent, Finish, WorkEnds
<1>5. CASE \/ WorkerStarts \/ WorkerPanics \/ WorkerSleeps \/ WorkerExits
          \/ TimeLimit \/ ResetCall \/ ResetLooks \/ UNCHANGED vars
  BY <1>1, <1>5 DEF WorkerStarts, WorkerPanics, WorkerSleeps, WorkerExits, TimeLimit, ResetCall,
     ResetLooks, vars, schedVars, driverVars
<1> QED
  BY <1>2, <1>3, <1>4, <1>5, UpdateBeginsSearched, RescheduleSearched, ProvideSearched,
     GarbageCollectSearched DEF Next

(* d.root changes to a buffer at depth zero, and no shorter path is there. *)
LEMMA StepRootIsReached ==
    IInv /\ Searched /\ RootIsReached /\ [Next]_vars => RootIsReached'
<1> SUFFICES ASSUME IInv, Searched, RootIsReached, [Next]_vars PROVE RootIsReached'
  OBVIOUS
<1>1. ASSUME UNCHANGED <<depth, calls, updating, root, rescheduled>>,
             \A q \in Request : req[q].phase = "updating" => req'[q].buf = req[q].buf
      PROVE  RootIsReached'
  <2>1. updating # NoRequest => updating \in Request /\ req[updating].phase = "updating"
    BY DEF IInv, TypeOK, NewRootIsScheduled
  <2> QED BY <1>1, <2>1 DEF RootIsReached, Reached
<1>2. ASSUME NEW q \in Request, NEW b \in Buf, NEW blocking \in BOOLEAN,
             UpdateUnchanged(q, b, blocking)
      PROVE  RootIsReached'
  BY <1>2 DEF UpdateUnchanged, RootIsReached, Free
<1>3. ASSUME NEW q \in Request, NEW b \in Buf, NEW blocking \in BOOLEAN,
             UpdateBegins(q, b, blocking)
      PROVE  RootIsReached'
  <2>1. /\ updating' = q /\ rescheduled' = b
        /\ req' = [req EXCEPT ![q] = [phase |-> "updating", blocking |-> blocking,
                                      buf |-> b, waits |-> {}]]
    BY <1>3 DEF UpdateBegins
  <2>2. req'[q].buf = b
    BY <2>1 DEF IInv, TypeOK
  <2> QED BY <2>1, <2>2, DriverAssumption DEF RootIsReached
<1>4. ASSUME NEW q \in Request, UpdateEnds(q) PROVE RootIsReached'
  <2>1. /\ updating = q /\ calls = {} /\ root' = req[q].buf /\ updating' = NoRequest
        /\ UNCHANGED <<depth, calls>>
    BY <1>4 DEF UpdateEnds
  <2>2. req[q].buf = rescheduled
    BY <2>1, DriverAssumption DEF RootIsReached
  <2>3. Reached' => Superseded(rescheduled, 0, One)
    BY <2>1 DEF Searched, Reached
  <2>4. Reached' => depth[rescheduled] = 0
    <3>1. rescheduled \in Buf /\ depth[rescheduled] \in -1..depthLimit
      BY DEF IInv, TypeOK, SchedTypeOK
    <3> QED BY <2>3, <3>1, SchedulerAssumption DEF Superseded
  <2> QED BY <2>1, <2>2, <2>4 DEF RootIsReached
<1>5. CASE Reschedule
  <2>1. /\ UNCHANGED <<updating, req, root, rescheduled>>
        /\ \E call \in calls : \/ rescheduleReturns(call[1], call[2], call[3])
                               \/ rescheduleVisits(call[1], call[2], call[3])
    BY <1>5 DEF Reschedule
  <2> SUFFICES ASSUME updating = NoRequest PROVE depth'[root] = 0
    BY <2>1 DEF RootIsReached
  <2>2. depth[root] = 0 /\ root \in Buf
    BY <2>1 DEF RootIsReached, IInv, TypeOK
  <2>3. PICK call \in calls : \/ rescheduleReturns(call[1], call[2], call[3])
                              \/ rescheduleVisits(call[1], call[2], call[3])
    BY <2>1
  <2>4. call[1] \in Buf /\ call[2] \in 0..depthLimit + 1 /\ depth \in [Buf -> -1..depthLimit]
    BY DEF IInv, TypeOK, SchedTypeOK
  <2>5. CASE rescheduleReturns(call[1], call[2], call[3])
    BY <2>2, <2>5 DEF rescheduleReturns
  <2>6. CASE rescheduleVisits(call[1], call[2], call[3])
    <3>1. /\ ~Superseded(call[1], call[2], call[3])
          /\ depth' = [depth EXCEPT ![call[1]] = call[2]]
      BY <2>6 DEF rescheduleVisits
    <3>2. call[1] = root => call[2] = 0
      BY <2>2, <2>4, <3>1, SchedulerAssumption DEF Superseded
    <3> QED BY <2>2, <2>4, <3>1, <3>2
  <2> QED BY <2>3, <2>5, <2>6
<1>6. ASSUME NEW r \in running, Provide(r) PROVE RootIsReached'
  <2>1. PICK e \in Emits : GotCompletion(r.work, e[2], e[3])
    BY <1>6 DEF Provide
  <2>2. e[2] \in Buf
    BY DriverAssumption
  <2>3. /\ UNCHANGED <<depth, updating, req, root, rescheduled>> /\ updating = NoRequest
        /\ calls' # {} => ~(depth[e[2]] < 0)
    BY <1>6, <2>1 DEF Provide, GotCompletion, driverVars, Free
  <2>4. Reached' \/ calls' # {} => Reached
    <3>1. depth[e[2]] \in -1..depthLimit
      BY <2>2 DEF IInv, TypeOK, SchedTypeOK
    <3> QED BY <2>2, <2>3, <3>1, SchedulerAssumption DEF Reached
  <2> QED BY <2>3, <2>4 DEF RootIsReached
<1>7. ASSUME NEW q \in Request,
             UpdateFails(q) \/ UpdateReturns(q) \/ UpdateAborts(q) \/ Expire(q)
      PROVE  RootIsReached'
  <2>1. /\ UNCHANGED <<depth, calls, updating, root, rescheduled>>
        /\ \A k \in Request : req[k].phase = "updating" => req'[k].buf = req[k].buf
    BY <1>7 DEF UpdateFails, UpdateReturns, UpdateAborts, Expire, schedVars, IInv, TypeOK
  <2> QED BY <1>1, <2>1
<1>8. ASSUME NEW r \in running, Ends(r) PROVE RootIsReached'
  <2>1. UNCHANGED <<depth, calls, updating, root, rescheduled, req>>
    BY <1>8 DEF Ends, Complete, NotApplicable, Panic, Abort, AbortParent, Finish, WorkEnds
  <2> QED BY <1>1, <2>1
<1>9. CASE \/ WorkerStarts \/ WorkerPanics \/ WorkerSleeps \/ WorkerExits \/ TimeLimit
          \/ GarbageCollect \/ ResetCall \/ ResetLooks \/ UNCHANGED vars
  <2>1. UNCHANGED <<depth, calls, updating, root, rescheduled, req>>
    BY <1>9 DEF WorkerStarts, WorkerPanics, WorkerSleeps, WorkerExits, TimeLimit, GarbageCollect,
       Prune, ResetCall, ResetLooks, vars, schedVars, driverVars
  <2> QED BY <1>1, <2>1
<1> QED BY <1>2, <1>3, <1>4, <1>5, <1>6, <1>7, <1>8, <1>9 DEF Next

-----------------------------------------------------------------------------
(* The labels of paths                                                     *)

LabelBound == Cardinality(Label)

(* The first n rounds of the search from r.                                *)
Rounds(r, n, f) ==
    f = [k \in 0..n |-> IF k = 0 THEN {<<r, 0, One>>} ELSE f[k - 1] \cup Onward(f[k - 1])]

(* The recursion is well founded: by the least n for which it would fail.  *)
LEMMA RoundsExist ==
    ASSUME NEW r, NEW n \in Nat
    PROVE  \E f : Rounds(r, n, f)
<1> DEFINE T == {m \in Nat : ~\E f : Rounds(r, m, f)}
<1> SUFFICES ASSUME T # {} PROVE FALSE
  OBVIOUS
<1>1. PICK m \in T : \A k \in T : m <= k
  <2>1. T \subseteq Nat
    OBVIOUS
  <2> HIDE DEF T
  <2> QED BY <2>1, LeastNat
<1>2. m \in Nat /\ ~\E f : Rounds(r, m, f)
  OBVIOUS
<1>3. CASE m = 0
  <2> DEFINE f == [k \in 0..0 |-> {<<r, 0, One>>}]
  <2>1. f = [k \in 0..0 |-> IF k = 0 THEN {<<r, 0, One>>} ELSE f[k - 1] \cup Onward(f[k - 1])]
    OBVIOUS
  <2> HIDE DEF f
  <2> QED BY <1>2, <1>3, <2>1 DEF Rounds
<1>4. CASE m # 0
  <2>1. m - 1 \in Nat /\ m - 1 \notin T
    BY <1>1, <1>2, <1>4
  <2>2. PICK f : Rounds(r, m - 1, f)
    BY <2>1
  <2> DEFINE g == [k \in 0..m |-> IF k = m THEN f[m - 1] \cup Onward(f[m - 1]) ELSE f[k]]
             body(k) == IF k = 0 THEN {<<r, 0, One>>} ELSE g[k - 1] \cup Onward(g[k - 1])
  <2>3. ASSUME NEW k \in 0..m PROVE g[k] = body(k)
    <3>1. CASE k = m
      <4>1. g[m - 1] = f[m - 1] /\ g[m] = f[m - 1] \cup Onward(f[m - 1])
        BY <1>2, <2>1
      <4> QED BY <1>4, <3>1, <4>1
    <3>2. CASE k # m
      <4>1. k \in 0..(m - 1) /\ g[k] = f[k]
        BY <1>2, <3>2
      <4>2. f[k] = IF k = 0 THEN {<<r, 0, One>>} ELSE f[k - 1] \cup Onward(f[k - 1])
        BY <2>2, <4>1 DEF Rounds
      <4>3. k # 0 => g[k - 1] = f[k - 1]
        BY <1>2, <4>1
      <4> QED BY <4>1, <4>2, <4>3
    <3> QED BY <3>1, <3>2
  <2>4. g = [k \in 0..m |-> g[k]]
    OBVIOUS
  <2> HIDE DEF g
  <2>5. g = [k \in 0..m |-> body(k)]
    BY <2>3, <2>4
  <2>6. Rounds(r, m, g)
    BY <2>5 DEF Rounds
  <2> QED BY <1>2, <2>6
<1> QED BY <1>3, <1>4

(* Labels is the last of the rounds.                                       *)
LEMMA LabelsRounds ==
    ASSUME NEW r, LabelBound \in Nat
    PROVE  \E f : Rounds(r, LabelBound, f) /\ Labels(r) = f[LabelBound]
<1> DEFINE N == LabelBound
           L == CHOOSE f : f = [k \in 0..N |->
                  IF k = 0 THEN {<<r, 0, One>>}
                  ELSE LET before == f[k - 1] IN before \cup Onward(before)]
<1>1. PICK f : Rounds(r, N, f)
  BY RoundsExist
<1>2. f = [k \in 0..N |-> IF k = 0 THEN {<<r, 0, One>>} ELSE f[k - 1] \cup Onward(f[k - 1])]
  BY <1>1 DEF Rounds
<1>3. L = [k \in 0..N |-> IF k = 0 THEN {<<r, 0, One>>} ELSE L[k - 1] \cup Onward(L[k - 1])]
  BY <1>2
<1>4. Labels(r) = L[N]
  BY DEF Labels, LabelBound
<1> HIDE DEF L
<1> QED BY <1>3, <1>4 DEF Rounds

(* Onward is what reschedule calls for the cached completions, in the limit. *)
LEMMA OnwardMember ==
    ASSUME NEW S, S \subseteq Label, NEW l,
           completions \in [Work -> SUBSET Completion]
    PROVE  l \in Onward(S) <=>
             /\ l[2] <= depthLimit
             /\ \E x \in S, p \in allProviders : \E c \in completions[<<x[1], p>>] :
                   l \in rescheduleCompletion(p, c, x[2], x[3])
<1> DEFINE Y == {y \in S \X allProviders \X Completion : y[3] \in completions[<<y[1][1], y[2]>>]}
<1>1. ASSUME l \in Onward(S)
      PROVE  \E x \in S, p \in allProviders : \E c \in completions[<<x[1], p>>] :
                   l \in rescheduleCompletion(p, c, x[2], x[3])
  <2>1. PICK y \in Y : l \in rescheduleCompletion(y[2], y[3], y[1][2], y[1][3])
    BY <1>1 DEF Onward
  <2> QED BY <2>1
<1>2. ASSUME NEW x \in S, NEW p \in allProviders, NEW c \in completions[<<x[1], p>>],
             l \in rescheduleCompletion(p, c, x[2], x[3]), l[2] <= depthLimit
      PROVE  l \in Onward(S)
  <2>1. x[1] \in Buf
    BY DEF Label
  <2>2. c \in Completion
    BY <2>1, PairWork
  <2>3. <<x, p, c>> \in Y
    BY <2>2
  <2> DEFINE y == <<x, p, c>>
  <2>4. y \in Y /\ y[1] = x /\ y[2] = p /\ y[3] = c
    BY <2>3
  <2> HIDE DEF y, Y
  <2>5. l \in rescheduleCompletion(y[2], y[3], y[1][2], y[1][3])
    BY <1>2, <2>4
  <2>6. l \in UNION {rescheduleCompletion(z[2], z[3], z[1][2], z[1][3]) : z \in Y}
    BY <2>4, <2>5
  <2> QED BY <1>2, <2>6 DEF Onward, Y
<1>3. l \in Onward(S) => l[2] <= depthLimit
  BY DEF Onward
<1> QED BY <1>1, <1>2, <1>3

(* What a completion leads to is a buffer, a depth and a score.            *)
LEMMA OnwardLabels ==
    ASSUME NEW S, S \subseteq Label, completions \in [Work -> SUBSET Completion]
    PROVE  Onward(S) \subseteq Label
<1> SUFFICES ASSUME NEW l \in Onward(S) PROVE l \in Label
  OBVIOUS
<1>1. /\ l[2] <= depthLimit
      /\ \E x \in S, p \in allProviders : \E c \in completions[<<x[1], p>>] :
            l \in rescheduleCompletion(p, c, x[2], x[3])
  BY OnwardMember
<1>2. PICK x \in S, p \in allProviders : \E c \in completions[<<x[1], p>>] :
            l \in rescheduleCompletion(p, c, x[2], x[3])
  BY <1>1
<1>3. x[1] \in Buf /\ x[2] \in 0..depthLimit /\ x[3] \in Score
  BY DEF Label
<1>4. PICK c \in Completion : l \in rescheduleCompletion(p, c, x[2], x[3])
  BY <1>2, <1>3, PairWork
<1>5. l \in Buf \X (0..depthLimit + 1) \X Score
  BY <1>3, <1>4, CallsTyped
<1>6. PICK b \in Buf, d \in 0..depthLimit + 1, s \in Score : l = <<b, d, s>>
  BY <1>5
<1> QED BY <1>1, <1>6, SchedulerAssumption DEF Label

(* What holds of the root's label and goes on holding holds of all rounds. *)
LEMMA RoundsWithin ==
    ASSUME NEW r, NEW n \in Nat, NEW f, Rounds(r, n, f), NEW P, <<r, 0, One>> \in P,
           \A S \in SUBSET P : Onward(S) \subseteq P
    PROVE  \A k \in 0..n : f[k] \subseteq P
<1> DEFINE T == {k \in 0..n : ~(f[k] \subseteq P)}
<1> SUFFICES ASSUME T # {} PROVE FALSE
  OBVIOUS
<1>1. PICK m \in T : \A k \in T : m <= k
  <2>1. T \subseteq Nat
    OBVIOUS
  <2> HIDE DEF T
  <2> QED BY <2>1, LeastNat
<1>2. m \in 0..n /\ f[m] = IF m = 0 THEN {<<r, 0, One>>} ELSE f[m - 1] \cup Onward(f[m - 1])
  BY DEF Rounds
<1>3. m # 0
  BY <1>2
<1>4. m - 1 \in 0..n /\ m - 1 \notin T
  BY <1>1, <1>2, <1>3
<1>5. f[m - 1] \subseteq P
  BY <1>4
<1>6. f[m] \subseteq P
  BY <1>2, <1>3, <1>5
<1> QED BY <1>6

(* Once a round adds nothing, none of the later ones does.                 *)
LEMMA RoundsStop ==
    ASSUME NEW r, NEW n \in Nat, NEW f, Rounds(r, n, f),
           NEW k \in 0..n, Onward(f[k]) \subseteq f[k]
    PROVE  f[n] = f[k]
<1> DEFINE T == {j \in k..n : f[j] # f[k]}
<1>1. ASSUME T # {} PROVE FALSE
  <2>1. PICK m \in T : \A j \in T : m <= j
    <3>1. T \subseteq Nat
      OBVIOUS
    <3> HIDE DEF T
    <3> QED BY <1>1, <3>1, LeastNat
  <2>2. m \in k..n /\ f[m] # f[k] /\ m # k
    OBVIOUS
  <2>3. m - 1 \in k..n /\ m - 1 \notin T
    BY <2>1, <2>2
  <2>4. f[m - 1] = f[k]
    BY <2>3
  <2>5. m \in 0..n /\ m # 0
    BY <2>2
  <2>6. f[m] = f[m - 1] \cup Onward(f[m - 1])
    BY <2>5 DEF Rounds
  <2> QED BY <2>2, <2>4, <2>6
<1> QED BY <1>1

(* A round that adds something adds one of finitely many labels.           *)
LEMMA LabelFinite == IsFiniteSet(Label) /\ LabelBound \in Nat
<1> DEFINE D == 0..depthLimit
           T == Buf \X D \X Score
           f == [x \in (Buf \X D) \X Score |-> <<x[1][1], x[1][2], x[2]>>]
<1> HIDE DEF T, f
<1>1. IsFiniteSet(D)
  <2>1. 0 \in Int /\ depthLimit \in Int
    BY SchedulerAssumption
  <2> QED BY <2>1, FS_Interval
<1>2. IsFiniteSet(Score)
  BY SchedulerAssumption
<1> HIDE DEF D
<1> USE DEF T, f
<1>3. IsFiniteSet((Buf \X D) \X Score)
  BY <1>1, <1>2, BufAssumption, FS_Product
<1>4. f \in Surjection((Buf \X D) \X Score, T)
  <2>1. \A b \in Buf, d \in D, s \in Score :
           \E x \in (Buf \X D) \X Score : f[x] = <<b, d, s>>
    <3> TAKE b \in Buf, d \in D, s \in Score
    <3> DEFINE x == << <<b, d>>, s>>
    <3>1. x \in (Buf \X D) \X Score /\ x[1] = <<b, d>> /\ x[2] = s
      OBVIOUS
    <3>2. x[1][1] = b /\ x[1][2] = d
      BY <3>1
    <3> HIDE DEF x
    <3>3. f[x] = <<x[1][1], x[1][2], x[2]>>
      BY <3>1
    <3> HIDE DEF f
    <3> QED BY <3>1, <3>2, <3>3
  <2>2. f \in [(Buf \X D) \X Score -> T]
    <3>1. ASSUME NEW x \in (Buf \X D) \X Score PROVE <<x[1][1], x[1][2], x[2]>> \in T
      <4>1. x[1] \in Buf \X D /\ x[2] \in Score
        OBVIOUS
      <4>2. x[1][1] \in Buf /\ x[1][2] \in D
        BY <4>1
      <4> QED BY <4>1, <4>2
    <3> HIDE DEF T
    <3> QED BY <3>1
  <2>3. \A t \in T : \E x \in (Buf \X D) \X Score : f[x] = t
    <3> TAKE t \in T
    <3>1. PICK b \in Buf, d \in D, s \in Score : t = <<b, d, s>>
      OBVIOUS
    <3> HIDE DEF f, T
    <3>2. \E x \in (Buf \X D) \X Score : f[x] = <<b, d, s>>
      BY <2>1, Zenon
    <3> QED BY <3>1, <3>2, Zenon
  <2> HIDE DEF f
  <2> QED BY <2>2, <2>3 DEF Surjection
<1>5. IsFiniteSet(Label)
  <2>1. IsFiniteSet(T)
    <3> HIDE DEF f, T
    <3> QED BY <1>3, <1>4, FS_Surjection
  <2> QED BY <2>1 DEF Label, D
<1> QED BY <1>5, FS_CardinalityType DEF LabelBound

(* The search has ended after as many rounds as there are labels.          *)
LEMMA LabelsClosed ==
    ASSUME NEW r \in Buf, completions \in [Work -> SUBSET Completion]
    PROVE  /\ Labels(r) \subseteq Label
           /\ <<r, 0, One>> \in Labels(r)
           /\ Onward(Labels(r)) \subseteq Labels(r)
<1> DEFINE N == LabelBound
<1>1. IsFiniteSet(Label) /\ N \in Nat
  BY LabelFinite
<1>2. PICK f : Rounds(r, N, f) /\ Labels(r) = f[N]
  BY <1>1, LabelsRounds
<1> HIDE DEF N
<1>3. <<r, 0, One>> \in Label
  BY SchedulerAssumption DEF Label
<1>4. \A k \in 0..N : f[k] \subseteq Label
  <2>1. \A S \in SUBSET Label : Onward(S) \subseteq Label
    BY OnwardLabels
  <2> QED BY <1>1, <1>2, <1>3, <2>1, RoundsWithin
<1>5. \A k \in 0..N : f[k] = IF k = 0 THEN {<<r, 0, One>>} ELSE f[k - 1] \cup Onward(f[k - 1])
  BY <1>2 DEF Rounds
<1>6. <<r, 0, One>> \in f[N]
  <2> DEFINE T == {k \in 0..N : <<r, 0, One>> \notin f[k]}
  <2>1. ASSUME T # {} PROVE FALSE
    <3>1. PICK m \in T : \A j \in T : m <= j
      <4>1. T \subseteq Nat
        OBVIOUS
      <4> HIDE DEF T
      <4> QED BY <2>1, <4>1, LeastNat
    <3>2. m \in 0..N /\ m # 0
      BY <1>1, <1>5
    <3>3. m - 1 \in 0..N /\ m - 1 \notin T
      BY <1>1, <3>1, <3>2
    <3> QED BY <1>5, <3>1, <3>2, <3>3
  <2> QED BY <1>1, <2>1
<1>7. Onward(f[N]) \subseteq f[N]
  <2> SUFFICES ASSUME ~(Onward(f[N]) \subseteq f[N]) PROVE FALSE
    OBVIOUS
  <2>1. \A k \in 0..N : ~(Onward(f[k]) \subseteq f[k])
    BY <1>1, <1>2, RoundsStop
  <2> DEFINE T == {k \in 0..N : ~(Cardinality(f[k]) > k)}
  <2>2. ASSUME T # {} PROVE FALSE
    <3>1. PICK m \in T : \A j \in T : m <= j
      <4>1. T \subseteq Nat
        OBVIOUS
      <4> HIDE DEF T
      <4> QED BY <2>2, <4>1, LeastNat
    <3>2. m # 0
      <4> SUFFICES ASSUME m = 0 PROVE FALSE
        OBVIOUS
      <4>1. ~(Cardinality(f[0]) > 0)
        BY <3>1
      <4>2. f[0] = {<<r, 0, One>>}
        BY <1>1, <1>5
      <4>3. Cardinality({<<r, 0, One>>}) = 1
        BY FS_Singleton
      <4> QED BY <4>1, <4>2, <4>3
    <3>3. m \in 0..N /\ m - 1 \in 0..N /\ m - 1 \notin T
      BY <1>1, <3>1, <3>2
    <3>4. Cardinality(f[m - 1]) > m - 1
      BY <3>3
    <3>5. f[m] = f[m - 1] \cup Onward(f[m - 1])
      BY <1>5, <3>2, <3>3
    <3>6. f[m - 1] \subseteq f[m] /\ f[m - 1] # f[m]
      BY <2>1, <3>3, <3>5
    <3>7. IsFiniteSet(f[m]) /\ IsFiniteSet(f[m - 1])
      BY <1>1, <1>4, <3>3, FS_Subset
    <3>8. /\ Cardinality(f[m - 1]) <= Cardinality(f[m])
          /\ Cardinality(f[m - 1]) # Cardinality(f[m])
      BY <3>6, <3>7, FS_Subset
    <3>9. Cardinality(f[m]) \in Nat /\ Cardinality(f[m - 1]) \in Nat
      BY <3>7, FS_CardinalityType
    <3>10. Cardinality(f[m]) > m
      BY <3>3, <3>4, <3>8, <3>9
    <3> QED BY <3>1, <3>10
  <2>3. Cardinality(f[N]) > N
    BY <1>1, <2>2
  <2>4. Cardinality(f[N]) <= Cardinality(Label)
    BY <1>1, <1>4, FS_Subset
  <2> QED BY <1>1, <1>4, <2>3, <2>4, FS_Subset, FS_CardinalityType DEF N, LabelBound
<1> QED BY <1>1, <1>2, <1>4, <1>6, <1>7

(* scheduling.go "we base the score solely on the shortest path to the     *)
(* given buffer": whatever the completions, with whatever cycles, and in   *)
(* whatever order they arrive, are copied and followed, the depths that    *)
(* incremental rescheduling leaves are those of the shortest of all paths  *)
(* from the buffer of the last Update that rescheduled, the scores those   *)
(* of one of them, and a state that no path within the limit leads to has  *)
(* neither.                                                                *)
THEOREM RescheduledDepthIsShortest == Spec => []DepthIsShortest
<1>1. Init => Searched /\ RootIsReached
  BY DEF Init, newScheduler, Searched, RootIsReached, Reached
<1>2. IInv /\ Searched /\ RootIsReached => DepthIsShortest
  <2> SUFFICES ASSUME IInv, Searched, RootIsReached, Free, Reached
               PROVE  /\ Marks \subseteq Labels(rescheduled)
                      /\ \A l \in Labels(rescheduled) : depth[l[1]] \in 0..l[2]
                      /\ depth[root] = 0
    BY DEF DepthIsShortest, Marks, Reached
  <2> DEFINE A == Labels(rescheduled)
  <2>1. /\ depth \in [Buf -> -1..depthLimit] /\ completions \in [Work -> SUBSET Completion]
        /\ rescheduled \in Buf
    BY DEF IInv, TypeOK, SchedTypeOK
  <2>2. A \subseteq Label /\ <<rescheduled, 0, One>> \in A /\ Onward(A) \subseteq A
    BY <2>1, LabelsClosed
  <2>3. PICK f : Rounds(rescheduled, LabelBound, f) /\ A = f[LabelBound]
    BY LabelFinite, LabelsRounds
  <2> HIDE DEF A
  <2>4. ClosedSoFar(A)
    <3> SUFFICES ASSUME NEW x \in A, NEW p \in allProviders, NEW c \in completions[<<x[1], p>>],
                        NEW l \in rescheduleCompletion(p, c, x[2], x[3]), l[2] <= depthLimit
                 PROVE  l \in A
      BY <2>2 DEF ClosedSoFar
    <3>1. l \in Onward(A)
      BY <2>1, <2>2, OnwardMember
    <3> QED BY <2>2, <3>1
  <2>5. Marks \subseteq A
    <3>1. \A b \in Buf : depth[b] >= 0 => <<b, depth[b], score[b]>> \in A
      BY <2>2, <2>4 DEF Searched
    <3> QED BY <3>1 DEF Marks
  <2> DEFINE P == {l \in Label : depth[l[1]] \in 0..l[2]}
  <2>6. <<rescheduled, 0, One>> \in P
    <3>1. Superseded(rescheduled, 0, One)
      BY DEF Searched, Free
    <3>2. depth[rescheduled] = 0
      BY <2>1, <3>1, SchedulerAssumption DEF Superseded
    <3> QED BY <2>2, <3>2
  <2>7. ASSUME NEW S \in SUBSET P PROVE Onward(S) \subseteq P
    <3> SUFFICES ASSUME NEW l \in Onward(S) PROVE depth[l[1]] \in 0..l[2]
      BY <2>1, OnwardLabels
    <3>1. /\ l[2] <= depthLimit
          /\ \E x \in S, p \in allProviders : \E c \in completions[<<x[1], p>>] :
                l \in rescheduleCompletion(p, c, x[2], x[3])
      BY <2>1, OnwardMember
    <3>2. PICK x \in S, p \in allProviders : \E c \in completions[<<x[1], p>>] :
                l \in rescheduleCompletion(p, c, x[2], x[3])
      BY <3>1
    <3>3. PICK b \in Buf, d \in 0..depthLimit, s \in Score : x = <<b, d, s>>
      BY DEF Label
    <3>4. PICK c \in completions[<<b, p>>] : l \in rescheduleCompletion(p, c, d, s)
      BY <3>2, <3>3
    <3>5. depth[b] \in 0..d
      BY <3>3
    <3> HIDE DEF P
    <3> DEFINE k == IF p \in zeroDepthProviders THEN 0 ELSE 1
    <3>6. PICK t \in c.specs : l = <<t, d + k, product[<<s, c.score>>]>> /\ p \in chainedProviders
      BY <3>4 DEF rescheduleCompletion
    <3> DEFINE m == <<t, depth[b] + k, product[<<score[b], c.score>>]>>
    <3>7. m \in rescheduleCompletion(p, c, depth[b], score[b])
      BY <3>5, <3>6 DEF rescheduleCompletion
    <3>8. <<b, p>> \in Work /\ <<b, p>>[1] = b /\ <<b, p>>[2] = p /\ depth[b] >= 0
      BY <3>3, <3>5, PairWork
    <3>9. Superseded(m[1], m[2], m[3])
      BY <3>7, <3>8 DEF Searched, Free
    <3>10. m[1] = t /\ m[2] = depth[b] + k /\ l[1] = t /\ l[2] = d + k
      BY <3>6
    <3> HIDE DEF m
    <3>11. \/ depth[b] + k > depthLimit
           \/ 0 <= depth[t] /\ depth[t] < depth[b] + k
           \/ depth[t] = depth[b] + k
      BY <3>9, <3>10 DEF Superseded
    <3>12. k \in {0, 1} /\ d + k <= depthLimit
      BY <3>1, <3>10
    <3>13. t \in Buf
      <4>1. c \in Completion
        BY <2>1, <3>8
      <4>2. c.specs \subseteq Buf
        BY <4>1, SchedulerAssumption
      <4> QED BY <3>6, <4>2
    <3> HIDE DEF k
    <3>14. depth[t] \in -1..depthLimit /\ depthLimit \in Nat
      BY <2>1, <3>13, SchedulerAssumption
    <3>15. depth[t] \in 0..(d + k)
      BY <3>3, <3>5, <3>11, <3>12, <3>14
    <3> QED BY <3>10, <3>15
  <2> HIDE DEF P
  <2>8. A \subseteq P
    <3>1. \A n \in 0..LabelBound : f[n] \subseteq P
      BY <2>3, <2>6, <2>7, LabelFinite, RoundsWithin
    <3> QED BY <2>3, <3>1, LabelFinite
  <2> QED BY <2>5, <2>8 DEF A, P, RootIsReached, Free
<1> QED BY <1>1, <1>2, Invariance, StepSearched, StepRootIsReached, PTL DEF Spec

(* scheduling.go "if there are multiple shortest paths, the greatest score *)
(* is chosen", up to the tolerance: whatever the scores, the products and  *)
(* the tolerance are, no completion of a state that was reached leads from *)
(* its present score to one on an equally short path that is missed.       *)
THEOREM RescheduledScoreIsGreatest == Spec => []GreatestScoreIsChosen
<1>1. Init => Searched
  BY DEF Init, newScheduler, Searched, Reached
<1>2. IInv /\ Searched => GreatestScoreIsChosen
  <2> SUFFICES ASSUME IInv, Searched, Free, NEW l \in Onward(Marks), depth[l[1]] = l[2]
               PROVE  l[3] <= score[l[1]] + tolerance
    BY DEF GreatestScoreIsChosen
  <2>1. /\ depth \in [Buf -> -1..depthLimit] /\ score \in [Buf -> Score]
        /\ completions \in [Work -> SUBSET Completion]
    BY DEF IInv, TypeOK, SchedTypeOK
  <2>2. Marks \subseteq Label
    <3> SUFFICES ASSUME NEW b \in Buf, depth[b] >= 0
                 PROVE  <<b, depth[b], score[b]>> \in Label
      BY DEF Marks
    <3>1. depth[b] \in 0..depthLimit /\ score[b] \in Score
      BY <2>1, SchedulerAssumption
    <3> QED BY <3>1 DEF Label
  <2>3. /\ l[2] <= depthLimit
        /\ \E x \in Marks, p \in allProviders : \E c \in completions[<<x[1], p>>] :
              l \in rescheduleCompletion(p, c, x[2], x[3])
    BY <2>1, <2>2, OnwardMember
  <2>4. PICK x \in Marks, p \in allProviders : \E c \in completions[<<x[1], p>>] :
              l \in rescheduleCompletion(p, c, x[2], x[3])
    BY <2>3
  <2>5. PICK b \in Buf : depth[b] >= 0 /\ x = <<b, depth[b], score[b]>>
    BY DEF Marks
  <2>6. PICK c \in completions[<<b, p>>] :
              l \in rescheduleCompletion(p, c, depth[b], score[b])
    BY <2>4, <2>5
  <2>7. <<b, p>> \in Work /\ <<b, p>>[1] = b /\ <<b, p>>[2] = p
    BY PairWork
  <2>8. Superseded(l[1], l[2], l[3])
    BY <2>5, <2>6, <2>7 DEF Searched, Reached, Free
  <2>9. l[2] \in Int
    <3>1. depth[b] \in 0..depthLimit /\ score[b] \in Score /\ c \in Completion
      BY <2>1, <2>5, <2>7, SchedulerAssumption
    <3>2. l \in Buf \X (0..depthLimit + 1) \X Score
      BY <2>6, <3>1, CallsTyped
    <3> QED BY <3>2
  <2> QED BY <2>3, <2>8, <2>9, SchedulerAssumption DEF Superseded
<1> QED BY <1>1, <1>2, Invariance, StepSearched, PTL DEF Spec

-----------------------------------------------------------------------------
(* A Driver is ProviderRuns                                                *)

(* Whoever holds the lock in the middle of an Update found the Driver not  *)
(* stopped; a Reset has stopped it for good, and is over when no channel   *)
(* is left.                                                                *)
StoppedForGood ==
    /\ reset # "idle" => pause = "zero"
    /\ updating # NoRequest => pause # "zero"
    /\ ResetIsQuiet

(* A step that starts nothing and leaves the reset alone.                  *)
LEMMA QuietStopped ==
    ASSUME IInv, StoppedForGood, UNCHANGED reset,
           pause' = "zero" <=> pause = "zero", updating' \in {updating, NoRequest},
           \A w \in Work : /\ doneChans'[w] \in {0, doneChans[w]}
                           /\ status'[w] = "inProgress" => status[w] = "inProgress"
    PROVE  StoppedForGood'
  BY DEF StoppedForGood, ResetIsQuiet

(* A step that may start runs.                                             *)
LEMMA ActiveStopped ==
    ASSUME IInv, StoppedForGood, pause # "zero", pause' # "zero", UNCHANGED reset
    PROVE  StoppedForGood'
  BY DEF StoppedForGood, ResetIsQuiet, IInv, TypeOK

(* It is inductive.                                                        *)
LEMMA StepStopped == IInv /\ StoppedForGood /\ [Next]_vars => StoppedForGood'
<1> SUFFICES ASSUME IInv, StoppedForGood, [Next]_vars PROVE StoppedForGood'
  OBVIOUS
<1>0. status \in [Work -> Status] /\ doneChans \in [Work -> Nat]
  BY DEF IInv, TypeOK, SchedTypeOK
<1>1. ASSUME NEW q \in Request, NEW b \in Buf, NEW blocking \in BOOLEAN,
             UpdateUnchanged(q, b, blocking) \/ UpdateBegins(q, b, blocking)
      PROVE  StoppedForGood'
  BY <1>1, ActiveStopped DEF UpdateUnchanged, UpdateBegins
<1>2. ASSUME NEW q \in Request, UpdateEnds(q) PROVE StoppedForGood'
  <2>1. pause # "zero"
    BY <1>2, DriverAssumption DEF UpdateEnds, StoppedForGood
  <2> QED BY <1>2, <2>1, ActiveStopped DEF UpdateEnds
<1>3. CASE WorkerStarts \/ TimeLimit
  BY <1>3, ActiveStopped DEF WorkerStarts, CanWork, TimeLimit
<1>4. ASSUME NEW q \in Request, UpdateFails(q) \/ UpdateReturns(q) \/ UpdateAborts(q) \/ Expire(q)
      PROVE  StoppedForGood'
  BY <1>4, QuietStopped DEF UpdateFails, UpdateReturns, UpdateAborts, Expire, schedVars
<1>5. CASE Reschedule
  BY <1>5, QuietStopped DEF Reschedule, rescheduleReturns, rescheduleVisits
<1>6. ASSUME NEW r \in running, Provide(r) PROVE StoppedForGood'
  BY <1>6, QuietStopped DEF Provide, GotCompletion, driverVars
<1>7. ASSUME NEW r \in running, Ends(r) PROVE StoppedForGood'
  <2>1. PICK st \in {"complete", "notApplicable", "pending"} : Finish(r, st)
    BY <1>7 DEF Ends, Complete, NotApplicable, Panic, Abort, AbortParent
  <2>2. \A w \in Work : /\ doneChans'[w] \in {0, doneChans[w]}
                        /\ status'[w] = "inProgress" => status[w] = "inProgress"
    BY <1>0, <2>1 DEF Finish, WorkEnds
  <2> QED BY <2>1, <2>2, QuietStopped DEF Finish
<1>8. CASE WorkerPanics \/ WorkerSleeps \/ WorkerExits \/ UNCHANGED vars
  BY <1>8, QuietStopped DEF WorkerPanics, WorkerSleeps, WorkerExits, vars, schedVars, driverVars
<1>9. CASE GarbageCollect
  <2>1. \A w \in Work : status'[w] = "inProgress" => status[w] = "inProgress"
    BY <1>9 DEF GarbageCollect, Prune
  <2> QED BY <1>9, <2>1, QuietStopped DEF GarbageCollect
<1>10. CASE ResetCall
  BY <1>10 DEF ResetCall, Free, StoppedForGood, ResetIsQuiet
<1>11. CASE ResetLooks
  <2>1. reset' = "returned" => \A w \in Work : doneChans[w] = 0
    BY <1>11 DEF ResetLooks
  <2> QED
    BY <1>0, <1>11, <2>1 DEF ResetLooks, StoppedForGood, ResetIsQuiet, schedVars, IInv,
       InProgressHasDoneChan
<1> QED
  BY <1>1, <1>2, <1>3, <1>4, <1>5, <1>6, <1>7, <1>8, <1>9, <1>10, <1>11 DEF Next

(* driver.go:476 "It blocks until all ongoing background work has been     *)
(* finished": when Reset has returned no work is in progress, and none is  *)
(* started any more.                                                       *)
THEOREM ResetLeavesQuiet == Spec => []ResetIsQuiet
<1>1. Init => StoppedForGood
  BY DEF Init, StoppedForGood, ResetIsQuiet
<1>2. StoppedForGood => ResetIsQuiet
  BY DEF StoppedForGood
<1> QED BY <1>1, <1>2, Invariance, StepStopped, PTL DEF Spec

-----------------------------------------------------------------------------
(* The refinement of ProviderRuns.                                         *)

(* The status and the calls as ProviderRuns has them.                      *)
KnownStatus == [w \in Work |-> Known(status[w])]
Phase == [q \in Request |-> IF req[q].phase = "updating" THEN "idle" ELSE req[q].phase]
Owed  == [q \in Request |-> IF req[q].phase = "waiting" THEN req[q].waits ELSE {}]

(* Status changes that are none for ProviderRuns.                          *)
LEMMA RunsSame ==
    ASSUME pause' = "zero" <=> pause = "zero", UNCHANGED <<starts, running, status>>,
           Phase' = Phase, Owed' = Owed
    PROVE  UNCHANGED Runs!vars
<1>1. RunningIds' = RunningIds
  BY DEF RunningIds
<1>2. KnownStatus' = KnownStatus
  BY DEF KnownStatus
<1> QED BY <1>1, <1>2 DEF Runs!vars, KnownStatus, Phase, Owed

(* prepareWorkLocked, on a Driver that is not stopped.                     *)
LEMMA PrepareBegins ==
    ASSUME IInv, NEW W \in SUBSET Work, NEW ctx, prepareWorkLocked(W, ctx),
           \A w \in W : status[w] = "pending", pause # "zero", pause' # "zero"
    PROVE  Runs!Begin(W)
<1> DEFINE new(w) == [work |-> w, id |-> starts[w] + 1, ctx |-> ctx]
<1>1. /\ starts' = [w \in Work |-> IF w \in W THEN starts[w] + 1 ELSE starts[w]]
      /\ running' = running \cup {new(w) : w \in W}
      /\ status' = [w \in Work |-> IF w \in W THEN "inProgress" ELSE status[w]]
  BY DEF prepareWorkLocked, WorkStarting
<1>2. RunningIds' = RunningIds \cup {<<w, starts[w] + 1>> : w \in W}
  <2>1. \A w \in W : Id(new(w)) = <<w, starts[w] + 1>>
    BY DEF Id
  <2> HIDE DEF new
  <2> QED BY <1>1, <2>1 DEF RunningIds, Id
<1>3. KnownStatus' = [w \in Work |-> IF w \in W THEN "inProgress" ELSE KnownStatus[w]]
  BY <1>1 DEF KnownStatus, Known
<1>4. \A w \in W : KnownStatus[w] = "pending"
  BY DEF KnownStatus, Known
<1> QED BY <1>1, <1>2, <1>3, <1>4 DEF Runs!Begin, Runs!Work, Work, KnownStatus

(* A call of Update that has found what to do on buffer b.                 *)
LEMMA AnswerRuns ==
    ASSUME IInv, NEW q \in Request, NEW b \in Buf, NEW blocking \in BOOLEAN,
           IF blocking THEN BlockOn(q, b) ELSE ReturnAtOnce(q),
           Phase[q] = "idle", pause # "zero", pause' # "zero"
    PROVE  Runs!Call(q, b) \/ Runs!CallAtOnce(q)
<1>1. /\ req \in [Request -> ReqState] /\ status \in [Work -> Status]
      /\ doneChans \in [Work -> Nat]
  BY DEF IInv, TypeOK, SchedTypeOK
<1>2. CASE blocking
  <2> DEFINE Mine    == {b} \X blockingProviders
             Own     == {w \in Mine : status[w] = "pending"}
             Joined  == {w \in Mine : status[w] = "inProgress"}
             waits   == {<<w, doneChans'[w]>> : w \in Own \cup Joined}
  <2>1. /\ prepareWorkLocked(Own, q)
        /\ req' = [req EXCEPT ![q] = [phase |-> "waiting", blocking |-> TRUE, buf |-> b,
                                      waits |-> waits]]
    BY <1>2 DEF BlockOn
  <2>2. Mine \subseteq Work
    BY DriverAssumption DEF Work
  <2>3. Own \in SUBSET Work
    BY <2>2
  <2>4. Runs!Begin(Own)
    <3> HIDE DEF Mine
    <3>1. \A w \in Own : status[w] = "pending"
      OBVIOUS
    <3> HIDE DEF Own
    <3> QED BY <2>1, <2>3, <3>1, PrepareBegins
  <2>5. /\ InProgressHasDoneChan' /\ DoneChanIsOpen'
        /\ status' = [w \in Work |-> IF w \in Own THEN "inProgress" ELSE status[w]]
    <3> HIDE DEF Own
    <3> QED BY <2>1, <2>3, PrepareEffect DEF prepareWorkLocked, WorkStarting
  <2> HIDE DEF Mine
  <2>6. \A w \in Own \cup Joined : <<w, doneChans'[w]>> \in RunningIds'
    BY <2>2, <2>5 DEF InProgressHasDoneChan, DoneChanIsOpen
  <2>7. \A w \in Mine : w \in Own \cup Joined <=> KnownStatus[w] # "settled"
    BY <1>1, <2>2 DEF KnownStatus, Known, Status
  <2>8. \A w \in Mine : w \in Own <=> KnownStatus[w] = "pending"
    BY <1>1, <2>2 DEF KnownStatus, Known, Status
  <2>9. /\ Own = {w \in Mine : KnownStatus[w] = "pending"}
        /\ Own \cup Joined = {w \in Mine : KnownStatus[w] # "settled"}
    BY <2>7, <2>8
  <2>10. Phase' = [Phase EXCEPT ![q] = "waiting"] /\ Owed' = [Owed EXCEPT ![q] = waits]
    <3> HIDE DEF waits
    <3> QED BY <1>1, <2>1 DEF Phase, Owed
  <2> HIDE DEF Own, Joined
  <2>11. waits \in SUBSET RunningIds' /\ {i[1] : i \in waits} = Own \cup Joined
    <3>1. \A w \in Own \cup Joined : <<w, doneChans'[w]>>[1] = w
      OBVIOUS
    <3> QED BY <2>6, <3>1
  <2> HIDE DEF waits
  <2>12. Runs!Call(q, b)
    BY <2>4, <2>9, <2>10, <2>11 DEF Runs!Call, Mine, KnownStatus, Phase, Owed
  <2> QED BY <2>12
<1>3. CASE ~blocking
  <2>1. /\ req' = [req EXCEPT ![q] = Over("returned")]
        /\ UNCHANGED <<status, starts, running>>
    BY <1>3 DEF ReturnAtOnce
  <2>2. Phase' = [Phase EXCEPT ![q] = "returned"] /\ Owed' = [Owed EXCEPT ![q] = {}]
    BY <1>1, <2>1 DEF Phase, Owed, Over
  <2>3. RunningIds' = RunningIds /\ KnownStatus' = KnownStatus
    BY <2>1 DEF RunningIds, KnownStatus
  <2> QED
    BY <2>1, <2>2, <2>3 DEF Runs!CallAtOnce, Runs!Leave, KnownStatus, Phase, Owed
<1> QED BY <1>2, <1>3

(* A call that fails, returns or is aborted.                               *)
LEMMA LeaveRuns ==
    ASSUME IInv, NEW q \in Request, NEW from \in {"idle", "waiting"},
           NEW to \in {"returned", "aborted", "error"}, req[q].phase = from,
           req' = [req EXCEPT ![q] = Over(to)],
           UNCHANGED <<status, starts, running, pause>>
    PROVE  Runs!Leave(q, from, to)
<1>1. req \in [Request -> ReqState]
  BY DEF IInv, TypeOK
<1>2. Phase[q] = from
  BY DEF Phase
<1>3. Phase' = [Phase EXCEPT ![q] = to] /\ Owed' = [Owed EXCEPT ![q] = {}]
  BY <1>1 DEF Phase, Owed, Over
<1>4. RunningIds' = RunningIds /\ KnownStatus' = KnownStatus
  BY DEF RunningIds, KnownStatus
<1> QED BY <1>2, <1>3, <1>4 DEF Runs!Leave, KnownStatus, Phase, Owed

(* The deferred function of a run.                                         *)
LEMMA FinishRuns ==
    ASSUME IInv, NEW r \in running, NEW st \in {"complete", "notApplicable", "pending"},
           Finish(r, st)
    PROVE  Id(r) \in RunningIds /\ Runs!End(Id(r), Known(st))
<1>1. /\ r.work \in Work /\ status \in [Work -> Status]
      /\ status' = [status EXCEPT ![r.work] = st] /\ running' = running \ {r}
      /\ UNCHANGED <<pause, starts, req>>
  BY DEF IInv, TypeOK, SchedTypeOK, Run, Finish, WorkEnds
<1>2. RunningIds' = RunningIds \ {Id(r)}
  BY <1>1 DEF RunningIds, IInv, RunsAreDistinct
<1>3. Id(r) \in RunningIds /\ Id(r)[1] = r.work
  BY DEF RunningIds, Id
<1>4. KnownStatus' = [KnownStatus EXCEPT ![r.work] = Known(st)]
  BY <1>1 DEF KnownStatus, Known
<1>5. Phase' = Phase /\ Owed' = Owed
  BY <1>1 DEF Phase, Owed
<1> QED BY <1>1, <1>2, <1>3, <1>4, <1>5 DEF Runs!End, KnownStatus, Phase, Owed

(* Whichever way the provider returned.                                    *)
LEMMA EndsRuns ==
    ASSUME IInv, NEW r \in running, Ends(r)
    PROVE  Runs!Next
<1>1. PICK st \in {"complete", "notApplicable", "pending"} : Finish(r, st)
  BY DEF Ends, Complete, NotApplicable, Panic, Abort, AbortParent
<1>2. Known(st) \in {"pending", "settled"}
  BY DEF Known
<1> QED BY <1>1, <1>2, FinishRuns DEF Runs!Next

(* Prune forgets the work of whole states.                                 *)
LEMMA GarbageCollectRuns ==
    ASSUME IInv, GarbageCollect
    PROVE  Runs!Next
<1> DEFINE Old == Orphaned \cap aged
<1>1. /\ pause # "zero" /\ UNCHANGED <<pause, starts, running, req>>
      /\ status' = [w \in Work |-> IF w[1] \in Old THEN "pending" ELSE status[w]]
  BY DEF GarbageCollect, Prune
<1>2. Old \in SUBSET Buf
  BY DEF Orphaned
<1> HIDE DEF Old
<1>3. KnownStatus' = [w \in Work |-> IF w \in Old \X allProviders THEN "pending"
                                                                  ELSE KnownStatus[w]]
  <2>1. \A w \in Work : w[1] \in Old <=> w \in Old \X allProviders
    BY <1>2 DEF Work
  <2> QED BY <1>1, <2>1 DEF KnownStatus, Known
<1>4. RunningIds' = RunningIds /\ Phase' = Phase /\ Owed' = Owed
  BY <1>1 DEF RunningIds, Phase, Owed
<1>5. Runs!Forget(Old \X allProviders)
  BY <1>1, <1>3, <1>4 DEF Runs!Forget, Runs!Work, Work, KnownStatus, Phase, Owed
<1> QED BY <1>2, <1>5 DEF Runs!Next

(* Update, up to its end.                                                  *)
LEMMA UpdateRuns ==
    ASSUME IInv, StoppedForGood, NEW q \in Request,
           \/ \E b \in Buf, blocking \in BOOLEAN :
                UpdateUnchanged(q, b, blocking) \/ UpdateBegins(q, b, blocking)
           \/ UpdateFails(q) \/ UpdateEnds(q) \/ UpdateReturns(q) \/ UpdateAborts(q)
    PROVE  [Runs!Next]_(Runs!vars)
<1>1. req \in [Request -> ReqState]
  BY DEF IInv, TypeOK
<1>2. ASSUME NEW b \in Buf, NEW blocking \in BOOLEAN, UpdateUnchanged(q, b, blocking)
      PROVE  Runs!Next
  <2>1. Phase[q] = "idle" /\ pause # "zero" /\ pause' # "zero"
    BY <1>2 DEF UpdateUnchanged, Phase
  <2>2. Runs!Call(q, b) \/ Runs!CallAtOnce(q)
    BY <1>2, <2>1, AnswerRuns DEF UpdateUnchanged
  <2> QED BY <2>2 DEF Runs!Next
<1>3. ASSUME NEW b \in Buf, NEW blocking \in BOOLEAN, UpdateBegins(q, b, blocking)
      PROVE  UNCHANGED Runs!vars
  <2>1. /\ req[q].phase = "idle" /\ pause # "zero" /\ pause' # "zero"
        /\ req' = [req EXCEPT ![q] = [phase |-> "updating", blocking |-> blocking,
                                      buf |-> b, waits |-> {}]]
        /\ UNCHANGED <<starts, running, status>>
    BY <1>3 DEF UpdateBegins, UpdateSchedule
  <2>2. Phase' = Phase /\ Owed' = Owed
    BY <1>1, <2>1 DEF Phase, Owed
  <2> QED BY <2>1, <2>2, RunsSame
<1>4. CASE UpdateEnds(q)
  <2>1. pause # "zero" /\ pause' # "zero"
    BY <1>4, DriverAssumption DEF UpdateEnds, StoppedForGood
  <2>2. Phase[q] = "idle"
    BY <1>4, DriverAssumption DEF UpdateEnds, IInv, NewRootIsScheduled, Phase
  <2>3. PICK b \in Buf, blocking \in BOOLEAN : b = req[q].buf /\ blocking = req[q].blocking
    BY <1>1 DEF ReqState
  <2>4. IF blocking THEN BlockOn(q, b) ELSE ReturnAtOnce(q)
    BY <1>4, <2>3 DEF UpdateEnds
  <2>5. Runs!Call(q, b) \/ Runs!CallAtOnce(q)
    BY <2>1, <2>2, <2>4, AnswerRuns
  <2> QED BY <2>5 DEF Runs!Next
<1>5. CASE UpdateFails(q)
  <2>1. pause = "zero" /\ Runs!Leave(q, "idle", "error")
    BY <1>5, LeaveRuns DEF UpdateFails, schedVars
  <2> QED BY <2>1 DEF Runs!Next, Runs!CallStopped
<1>6. CASE UpdateReturns(q)
  <2>1. Runs!Leave(q, "waiting", "returned")
    BY <1>6, LeaveRuns DEF UpdateReturns, schedVars
  <2>2. \A i \in Owed[q] \cap RunningIds : i[1][2] \in lexicalProviders
    <3>1. /\ req[q].phase = "waiting"
          /\ \A i \in req[q].waits : i \in RunningIds => i[1][2] \in lexicalProviders
      BY <1>6 DEF UpdateReturns
    <3>2. Owed[q] = req[q].waits
      BY <3>1 DEF Owed
    <3> QED BY <3>1, <3>2
  <2>3. Runs!Return(q)
    BY <2>1, <2>2 DEF Runs!Return, Owed
  <2> QED BY <2>3 DEF Runs!Next
<1>7. CASE UpdateAborts(q)
  <2>1. Runs!Leave(q, "waiting", "aborted")
    BY <1>7, LeaveRuns DEF UpdateAborts, schedVars
  <2> QED BY <2>1 DEF Runs!Next, Runs!Abort
<1> QED BY <1>2, <1>3, <1>4, <1>5, <1>6, <1>7

(* The worker starts what nobody has asked for.                            *)
LEMMA WorkerStartsRuns ==
    ASSUME IInv, WorkerStarts
    PROVE  Runs!Next
<1>1. PICK w \in queue : status[w] = "pending" /\ prepareWorkLocked({w}, Background)
  BY DEF WorkerStarts
<1>2. w \in Work /\ {w} \in SUBSET Work /\ \A v \in {w} : status[v] = "pending"
  BY <1>1 DEF IInv, TypeOK, SchedTypeOK
<1>3. pause # "zero" /\ pause' # "zero" /\ req' = req
  BY DEF WorkerStarts, CanWork
<1>4. Runs!Begin({w})
  BY <1>1, <1>2, <1>3, PrepareBegins
<1>5. Phase' = Phase /\ Owed' = Owed
  BY <1>3 DEF Phase, Owed
<1>6. Runs!Speculate(w)
  BY <1>4, <1>5 DEF Runs!Speculate, Phase, Owed
<1> QED BY <1>2, <1>6 DEF Runs!Next, Runs!Work, Work

(* Every step is one of ProviderRuns, or a stutter.                        *)
LEMMA StepRuns == IInv /\ StoppedForGood /\ [Next]_vars => [Runs!Next]_(Runs!vars)
<1> SUFFICES ASSUME IInv, StoppedForGood, [Next]_vars PROVE [Runs!Next]_(Runs!vars)
  OBVIOUS
<1>1. ASSUME UNCHANGED <<starts, running, status, req>>, pause' = "zero" <=> pause = "zero"
      PROVE  UNCHANGED Runs!vars
  BY <1>1, RunsSame DEF Phase, Owed
<1>2. ASSUME NEW q \in Request, Expire(q) PROVE UNCHANGED Runs!vars
  BY <1>1, <1>2 DEF Expire, schedVars
<1>3. CASE Reschedule
  BY <1>1, <1>3 DEF Reschedule, rescheduleReturns, rescheduleVisits
<1>4. ASSUME NEW r \in running, Provide(r) PROVE UNCHANGED Runs!vars
  BY <1>1, <1>4 DEF Provide, GotCompletion, driverVars
<1>5. CASE WorkerPanics \/ WorkerSleeps \/ WorkerExits \/ TimeLimit \/ ResetLooks \/ UNCHANGED vars
  BY <1>1, <1>5 DEF WorkerPanics, WorkerSleeps, WorkerExits, TimeLimit, ResetLooks, vars, schedVars,
     driverVars
<1>6. CASE ResetCall
  <2>1. pause' = "zero" /\ UNCHANGED <<starts, running, status, req>>
    BY <1>6 DEF ResetCall, schedVars
  <2>2. RunningIds' = RunningIds /\ KnownStatus' = KnownStatus /\ Phase' = Phase /\ Owed' = Owed
    BY <2>1 DEF RunningIds, KnownStatus, Phase, Owed
  <2>3. Runs!Stop
    BY <2>1, <2>2 DEF Runs!Stop, KnownStatus, Phase, Owed
  <2> QED BY <2>3 DEF Runs!Next
<1> QED
  BY <1>2, <1>3, <1>4, <1>5, <1>6, UpdateRuns, EndsRuns, GarbageCollectRuns, WorkerStartsRuns DEF Next

(* A new Driver has run nothing.                                           *)
LEMMA InitRuns == Init => Runs!Init
<1> SUFFICES ASSUME Init PROVE Runs!Init
  OBVIOUS
<1>1. RunningIds = {} /\ KnownStatus = [w \in Work |-> "pending"]
  BY DEF Init, newScheduler, RunningIds, KnownStatus, Known
<1>2. Phase = [q \in Request |-> "idle"] /\ Owed = [q \in Request |-> {}]
  BY DEF Init, Phase, Owed, Over
<1> QED BY <1>1, <1>2 DEF Init, Runs!Init, Runs!Work, Work, KnownStatus, Phase, Owed

(* driver.go:233: whatever the lock, the heap, the cancellations, the      *)
(* garbage collector and other callers do, a blocking Update returns only  *)
(* when each blocking provider on its buffer is settled or a run of it has *)
(* ended, no provider is started where it is known to be in progress or    *)
(* settled, and none after a Reset.                                        *)
THEOREM DriverRefinesRuns == Spec => DriverIsProviderRuns
<1>1. Init => StoppedForGood
  BY DEF Init, StoppedForGood, ResetIsQuiet
<1> QED
  BY <1>1, InitRuns, StepRuns, StepStopped, Invariance, PTL DEF Spec, DriverIsProviderRuns, Runs!Spec
=============================================================================
