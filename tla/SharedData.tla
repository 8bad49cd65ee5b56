----------------------------- MODULE SharedData -----------------------------
(***************************************************************************)
(* What the users of a lazy loader rely on, without its lock, its          *)
(* sync.Once and its errors: who holds the data has it, and it is neither  *)
(* replaced nor freed while anybody holds it.                              *)
(***************************************************************************)
CONSTANT Reader

VARIABLES holders, data

vars == <<holders, data>>

Init == holders = {} /\ data = "no"

Load == holders = {} /\ data' # "no" /\ UNCHANGED holders

Acquire(t) ==
    /\ data # "no"
    /\ t \notin holders
    /\ holders' = holders \cup {t}
    /\ UNCHANGED data

Release(t) ==
    /\ t \in holders
    /\ holders' = holders \ {t}
    /\ UNCHANGED data

Unload == holders = {} /\ data' = "no" /\ UNCHANGED holders

Next == Load \/ Unload \/ \E t \in Reader : Acquire(t) \/ Release(t)

Spec == Init /\ [][Next]_vars
=============================================================================
