----------------------------- MODULE Scheduler ------------------------------
(***************************************************************************)
(* pythoncomplete/driver/{scheduler,scheduling,providers}.go: the cache of *)
(* speculation states of one Driver and the priority queue of the work     *)
(* items to execute on them.  The scheduler is a passive structure, every  *)
(* operation of which runs under the lock of the Driver; the operators     *)
(* below are the parts of the Driver's actions that it performs.           *)
(*                                                                         *)
(* A completion is known by the buffer states it speculates on and by its  *)
(* score, a float64 from 0 to 1.  Scores are counted in units so small     *)
(* that each of them is whole, as are 1.0 and the 1e-6 by which one must   *)
(* exceed another to be followed; what multiplication rounds to is left    *)
(* open.                                                                   *)
(*                                                                         *)
(* get() adds a missing state with depth -1, a zero lastOrphaned and no    *)
(* provisions.  A missing entry and a fresh one answer every call alike,   *)
(* so the entries are total functions and a missing one is a fresh one.    *)
(*                                                                         *)
(* reschedule is recursive.  Its calls that have been made and not yet     *)
(* executed are the set calls, from which any one is executed next: the    *)
(* iteration order of a Go map is unspecified.                             *)
(***************************************************************************)
EXTENDS Integers, FiniteSets

CONSTANTS
    Buf,                   \* hashes of selected buffers
    allProviders,          \* the providers scheduled at depth 0
    speculationProviders,  \* ... and those scheduled deeper
    zeroDepthProviders,    \* EmptyCalls
    chainedProviders,      \* Names, Attributes, EmptyCalls: speculation goes on after them
    depthLimit,            \* ScheduleOptions.depthLimit()
    Score,                 \* the scores
    One,                   \* ... 1.0
    tolerance,             \* ... 1e-6
    product,               \* ... the rounded product of two of them
    Completion,            \* completions, as records [specs, score]
    Carries                \* <<old, new, c>>: c is still valid when old becomes new

Work  == Buf \X allProviders
similarPriority == 100 * One

ASSUME SchedulerAssumption ==
    /\ speculationProviders \subseteq allProviders
    /\ zeroDepthProviders \subseteq allProviders
    /\ chainedProviders \subseteq allProviders
    /\ depthLimit \in Nat \ {0}
    /\ Score \subseteq Nat /\ IsFiniteSet(Score)
    /\ {0, One} \subseteq Score
    /\ tolerance \in Nat
    /\ product \in [Score \X Score -> Score]
    /\ Completion \subseteq [specs : SUBSET Buf, score : Score]
    /\ Carries \subseteq Buf \X Buf \X Completion

(* A hash of two words, and the two ends of a selection.                   *)
ASSUME BufAssumption == IsFiniteSet(Buf)

VARIABLES
    depth,        \* speculationState.depth, -1 when not reachable from the root
    score,        \* speculationState.score
    aged,         \* the states whose lastOrphaned is more than gcInterval ago
    status,       \* provisionState.status
    priority,     \* provisionState.priority
    queue,        \* the work items in the heap (hIndex >= 0)
    completions,  \* provisionState.completions
    cancel,       \* the start of the work whose CancelFunc is kept, 0 if nil
    calls         \* calls <<buffer, depth, score>> of reschedule to be executed

schedVars == <<depth, score, aged, status, priority, queue, completions, cancel, calls>>

Status == {"pending", "inProgress", "complete", "notApplicable"}

SchedTypeOK ==
    /\ depth \in [Buf -> -1..depthLimit]
    /\ score \in [Buf -> Score]
    /\ aged \subseteq Buf
    /\ status \in [Work -> Status]
    /\ priority \in [Work -> {-1, similarPriority} \cup Score]
    /\ queue \subseteq Work
    /\ completions \in [Work -> SUBSET Completion]
    /\ cancel \in [Work -> Nat]
    /\ calls \subseteq Buf \X (0..depthLimit + 1) \X Score

newScheduler ==
    /\ depth = [b \in Buf |-> -1]
    /\ score = [b \in Buf |-> 0]
    /\ aged = Buf
    /\ status = [w \in Work |-> "pending"]
    /\ priority = [w \in Work |-> -1]
    /\ queue = {}
    /\ completions = [w \in Work |-> {}]
    /\ cancel = [w \in Work |-> 0]
    /\ calls = {}

-----------------------------------------------------------------------------
(* Scheduling.                                                             *)

HasWork == queue # {}

(* queue[0]: an item of the greatest priority.                             *)
IsNext(w) == w \in queue /\ \A v \in queue : priority[v] <= priority[w]

(* increasePriority for every work item of W: setPriority pushes a pending *)
(* item, fixes its place if it is in the heap, and removes one that is not *)
(* pending from the heap.                                                  *)
increasePriority(W, p) ==
    LET Raised == {w \in W : p > priority[w]}
    IN  /\ priority' = [w \in Work |-> IF w \in Raised THEN p ELSE priority[w]]
        /\ queue' = (queue \ Raised) \cup {w \in Raised : status[w] = "pending"}

(* rescheduleCompletion: the calls of reschedule it makes for completion c *)
(* of provider p on a state of depth d and score s.                        *)
rescheduleCompletion(p, c, d, s) ==
    IF p \in chainedProviders
    THEN {<<b, IF p \in zeroDepthProviders THEN d ELSE d + 1, product[<<s, c.score>>]>> :
            b \in c.specs}
    ELSE {}

(* The provisions that reschedule queues on a state of depth d.            *)
Scheduled(d) == CASE d = 0                  -> allProviders
                  [] d > 0 /\ d < depthLimit -> speculationProviders
                  [] OTHER                  -> {}

(* Mutant: speculation goes one completion too deep.                       *)
SupersededLate(b, d, s) ==
    \/ d > depthLimit + 1
    \/ 0 <= depth[b] /\ depth[b] < d
    \/ depth[b] = d /\ s <= score[b] + tolerance

(* Mutant: a state that has been reached is never lowered.                 *)
SupersededOnce(b, d, s) == d > depthLimit \/ 0 <= depth[b]

(* Mutant: of several shortest paths the first one counts.                 *)
SupersededByFirst(b, d, s) == d > depthLimit \/ (0 <= depth[b] /\ depth[b] <= d)

(* Mutant: a path of the same length and score is followed again.          *)
SupersededStrictly(b, d, s) ==
    \/ d > depthLimit
    \/ 0 <= depth[b] /\ depth[b] < d
    \/ depth[b] = d /\ s < score[b]

(* The early returns of reschedule: too deep, or reached before on a       *)
(* shorter path, or on an equally short one and no more than the tolerance *)
(* below the new score.                                                    *)
Superseded(b, d, s) ==
    \/ d > depthLimit
    \/ 0 <= depth[b] /\ depth[b] < d
    \/ depth[b] = d /\ s <= score[b] + tolerance

rescheduleReturns(b, d, s) ==
    /\ <<b, d, s>> \in calls
    /\ Superseded(b, d, s)
    /\ calls' = calls \ {<<b, d, s>>}
    /\ UNCHANGED <<depth, score, aged, status, priority, queue, completions, cancel>>

rescheduleVisits(b, d, s) ==
    /\ <<b, d, s>> \in calls
    /\ ~Superseded(b, d, s)
    /\ depth' = [depth EXCEPT ![b] = d]
    /\ score' = [score EXCEPT ![b] = s]
    /\ increasePriority({b} \X Scheduled(d), s)
    /\ calls' = (calls \ {<<b, d, s>>}) \cup
                UNION {rescheduleCompletion(pc[1], pc[2], d, s) :
                         pc \in {x \in allProviders \X Completion :
                                    x[2] \in completions[<<b, x[1]>>]}}
    /\ UNCHANGED <<aged, status, completions, cancel>>

-----------------------------------------------------------------------------
(* The life of a work item.                                                *)

(* WorkStarting for each item of W, all on one buffer; started[w] names    *)
(* the start.  Similar work that is already queued moves to the front, and *)
(* out of the heap if it is not pending.                                   *)
WorkStarting(W, started) ==
    LET Similar == {v \in queue \ W : \E w \in W : v[1] = w[1]}
        Raised  == {v \in Similar : similarPriority > priority[v]}
    IN  /\ status' = [w \in Work |-> IF w \in W THEN "inProgress" ELSE status[w]]
        /\ cancel' = [w \in Work |-> IF w \in W THEN started[w] ELSE cancel[w]]
        /\ queue' = queue \ (W \cup {v \in Raised : status[v] # "pending"})
        /\ priority' = [w \in Work |-> IF w \in W THEN -1
                                       ELSE IF w \in Raised THEN similarPriority
                                       ELSE priority[w]]

(* GotCompletion: the completion is stored with the state it applies to.   *)
GotCompletion(w, source, c) ==
    /\ completions' = [completions EXCEPT ![<<source, w[2]>>] = @ \cup {c}]
    /\ calls' = IF depth[source] < 0 THEN {}
                ELSE rescheduleCompletion(w[2], c, depth[source], score[source])
    /\ UNCHANGED <<depth, score, aged, status, priority, queue, cancel>>

(* Mutant: WorkIncomplete leaves the status alone.                         *)
WorkEndsInProgress(w, st) ==
    /\ status' = IF st = "pending" THEN status ELSE [status EXCEPT ![w] = st]
    /\ UNCHANGED <<depth, score, aged, priority, queue, completions, cancel, calls>>

(* WorkIncomplete, WorkComplete, WorkNotApplicable.                        *)
WorkEnds(w, st) ==
    /\ status' = [status EXCEPT ![w] = st]
    /\ UNCHANGED <<depth, score, aged, priority, queue, completions, cancel, calls>>

-----------------------------------------------------------------------------
(* Control.                                                                *)

(* The running work that a state's provisions can cancel.                  *)
CancelOf(B) == {<<w, cancel[w]>> : w \in {v \in Work : v[1] \in B /\ cancel[v] # 0}}

Orphaned == {b \in Buf : depth[b] < 0}

(* copyCompletions: the new state gets what is still valid of the old.     *)
copyCompletions(old, new) ==
    completions' = [w \in Work |->
        IF w[1] = new
        THEN completions[w] \cup {c \in completions[<<old, w[2]>>] : <<old, new, c>> \in Carries}
        ELSE completions[w]]

(* Mutant: the items of the old root stay queued.                          *)
UpdateScheduleKeepsQueue(old, new) ==
    /\ depth[new] # 0
    /\ aged' = aged \cap Orphaned
    /\ depth' = [b \in Buf |-> -1]
    /\ copyCompletions(old, new)
    /\ calls' = {<<new, 0, One>>}
    /\ UNCHANGED <<score, status, cancel, priority, queue>>

(* Mutant: the heap is emptied and the priorities are kept.                *)
UpdateScheduleKeepsPriority(old, new) ==
    /\ depth[new] # 0
    /\ queue' = {}
    /\ aged' = aged \cap Orphaned
    /\ depth' = [b \in Buf |-> -1]
    /\ copyCompletions(old, new)
    /\ calls' = {<<new, 0, One>>}
    /\ UNCHANGED <<score, status, cancel, priority>>

(* UpdateWithoutGGNN, up to the call of reschedule: every queued item is   *)
(* taken out of the heap, every state is orphaned.                         *)
UpdateSchedule(old, new) ==
    /\ depth[new] # 0
    /\ priority' = [w \in Work |-> IF w \in queue THEN -1 ELSE priority[w]]
    /\ queue' = {}
    /\ aged' = aged \cap Orphaned
    /\ depth' = [b \in Buf |-> -1]
    /\ copyCompletions(old, new)
    /\ calls' = {<<new, 0, One>>}
    /\ UNCHANGED <<score, status, cancel>>

(* Prune deletes the states orphaned before the last tick of the garbage   *)
(* collector; those orphaned since are old enough at the next one.         *)
Prune ==
    LET Old     == Orphaned \cap aged
        gone(w) == w[1] \in Old
    IN  /\ score' = [b \in Buf |-> IF b \in Old THEN 0 ELSE score[b]]
        /\ aged' = Orphaned
        /\ status' = [w \in Work |-> IF gone(w) THEN "pending" ELSE status[w]]
        /\ priority' = [w \in Work |-> IF gone(w) THEN -1 ELSE priority[w]]
        /\ completions' = [w \in Work |-> IF gone(w) THEN {} ELSE completions[w]]
        /\ cancel' = [w \in Work |-> IF gone(w) THEN 0 ELSE cancel[w]]
        /\ UNCHANGED <<depth, queue, calls>>
=============================================================================
