----------------------------- MODULE JobBarrier -----------------------------
(***************************************************************************)
(* What the callers of a worker pool rely on, without its workers, queue   *)
(* and counter: every job that was added is settled by running to its end  *)
(* or, once the pool is stopped, is discarded; Wait returns when all that  *)
(* was added before the call is over, with all the errors of those jobs    *)
(* and none that no job returned.                                          *)
(***************************************************************************)
CONSTANT Job

VARIABLES added, settled, discarded, failed, stopped, wait, before, result

vars == <<added, settled, discarded, failed, stopped, wait, before, result>>

Init ==
    /\ added = {} /\ settled = {} /\ discarded = {} /\ failed = {}
    /\ stopped = FALSE
    /\ wait = "idle" /\ before = {} /\ result = {}

Over == settled \cup discarded

Add ==
    /\ added \subseteq added' /\ added' \subseteq Job
    /\ UNCHANGED <<settled, discarded, failed, stopped, wait, before, result>>

Fail(j) ==
    /\ j \in added \ Over
    /\ failed' = failed \cup {j}
    /\ UNCHANGED <<added, settled, discarded, stopped, wait, before, result>>

Settle(j) ==
    /\ j \in added \ Over
    /\ settled' = settled \cup {j}
    /\ UNCHANGED <<added, discarded, failed, stopped, wait, before, result>>

Discard(j) ==
    /\ stopped
    /\ j \in added \ Over
    /\ discarded' = discarded \cup {j}
    /\ UNCHANGED <<added, settled, failed, stopped, wait, before, result>>

Stop ==
    /\ stopped' = TRUE
    /\ UNCHANGED <<added, settled, discarded, failed, wait, before, result>>

WaitCall ==
    /\ wait = "idle"
    /\ wait' = "waiting"
    /\ before' = added
    /\ UNCHANGED <<added, settled, discarded, failed, stopped, result>>

WaitReturns ==
    /\ wait = "waiting"
    /\ before \subseteq Over
    /\ wait' = "returned"
    /\ failed \cap before \subseteq result' /\ result' \subseteq failed
    /\ UNCHANGED <<added, settled, discarded, failed, stopped, before>>

Next ==
    \/ Add \/ Stop \/ WaitCall \/ WaitReturns
    \/ \E j \in Job : Fail(j) \/ Settle(j) \/ Discard(j)

Spec == Init /\ [][Next]_vars
=============================================================================
