---------------------------- MODULE ProviderRuns ----------------------------
(***************************************************************************)
(* What the callers of a Driver's Update and its providers rely on,        *)
(* without the lock, the scheduler, the worker and the garbage collector:  *)
(* a provider is not started on a buffer on which it is in progress or     *)
(* settled, unless that was forgotten, nor on any after the driver was     *)
(* stopped; a run ends once; and a blocking call returns only when a run   *)
(* of each blocking provider that was not settled on its buffer has ended, *)
(* where Lexical may take longer.                                          *)
(***************************************************************************)
EXTENDS Integers

CONSTANTS Buf, Provider, Blocking, Lexical, Request

VARIABLES
    stopped,
    starts,   \* how often each provider was started on each buffer
    live,     \* the runs <<work, start>> that have not ended
    status,   \* pending, inProgress or settled
    phase,    \* of each call
    owed      \* the runs that each call waits for

vars == <<stopped, starts, live, status, phase, owed>>

Work == Buf \X Provider

Init ==
    /\ stopped = FALSE
    /\ starts = [w \in Work |-> 0]
    /\ live = {}
    /\ status = [w \in Work |-> "pending"]
    /\ phase = [q \in Request |-> "idle"]
    /\ owed = [q \in Request |-> {}]

(* New runs, all on pending work.                                          *)
Begin(W) ==
    /\ ~stopped
    /\ \A w \in W : status[w] = "pending"
    /\ starts' = [w \in Work |-> IF w \in W THEN starts[w] + 1 ELSE starts[w]]
    /\ live' = live \cup {<<w, starts[w] + 1>> : w \in W}
    /\ status' = [w \in Work |-> IF w \in W THEN "inProgress" ELSE status[w]]
    /\ UNCHANGED stopped

Speculate(w) == Begin({w}) /\ UNCHANGED <<phase, owed>>

(* A blocking call: no blocking provider of its buffer is left out.        *)
Call(q, b) ==
    LET Mine == {b} \X Blocking
    IN  /\ phase[q] = "idle"
        /\ Begin({w \in Mine : status[w] = "pending"})
        /\ phase' = [phase EXCEPT ![q] = "waiting"]
        /\ \E runs \in SUBSET live' :
             /\ {i[1] : i \in runs} = {w \in Mine : status[w] # "settled"}
             /\ owed' = [owed EXCEPT ![q] = runs]

Leave(q, from, to) ==
    /\ phase[q] = from
    /\ phase' = [phase EXCEPT ![q] = to]
    /\ owed' = [owed EXCEPT ![q] = {}]
    /\ UNCHANGED <<stopped, starts, live, status>>

CallAtOnce(q) == ~stopped /\ Leave(q, "idle", "returned")
CallStopped(q) == stopped /\ Leave(q, "idle", "error")
Return(q) == (\A i \in owed[q] \cap live : i[1][2] \in Lexical) /\ Leave(q, "waiting", "returned")
Abort(q) == Leave(q, "waiting", "aborted")

End(i, st) ==
    /\ i \in live
    /\ live' = live \ {i}
    /\ status' = [status EXCEPT ![i[1]] = st]
    /\ UNCHANGED <<stopped, starts, phase, owed>>

(* What is known of some work is dropped; its runs go on.                  *)
Forget(W) ==
    /\ ~stopped
    /\ status' = [w \in Work |-> IF w \in W THEN "pending" ELSE status[w]]
    /\ UNCHANGED <<stopped, starts, live, phase, owed>>

Stop ==
    /\ stopped' = TRUE
    /\ UNCHANGED <<starts, live, status, phase, owed>>

Next ==
    \/ \E q \in Request : \/ \E b \in Buf : Call(q, b)
                          \/ CallAtOnce(q) \/ CallStopped(q) \/ Return(q) \/ Abort(q)
    \/ \E w \in Work : Speculate(w)
    \/ \E i \in live : End(i, "pending") \/ End(i, "settled")
    \/ \E B \in SUBSET Buf : Forget(B \X Provider)
    \/ Stop

Spec == Init /\ [][Next]_vars
=============================================================================
