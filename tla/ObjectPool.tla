----------------------------- MODULE ObjectPool -----------------------------
(***************************************************************************)
(* What those who use the objects of a UserContext rely on, without        *)
(* artifacts, files, times and the network.  An object goes one way: it is *)
(* made, live, parked and freed, or dropped on the way.  It is lent while  *)
(* it is live, and freed only after it was parked, when nobody uses it; it *)
(* is not lent again once it is parked.  Only Close frees all there are.   *)
(***************************************************************************)
EXTENDS Naturals

VARIABLES
    made,    \* objects made so far, which are numbered
    live, parked, freed,
    lent,    \* the object in use, 0 if none
    closed

vars == <<made, live, parked, freed, lent, closed>>

Init ==
    /\ made \in Nat /\ freed = 1 .. made
    /\ live = {} /\ parked = {}
    /\ lent = 0 /\ closed = FALSE

(* A new object, which others may make room for.                           *)
Make ==
    /\ made' = made + 1
    /\ made' \in live' /\ live' \subseteq live \cup {made'}
    /\ parked' \subseteq parked \cup (live \ live')
    /\ UNCHANGED <<freed, lent, closed>>

Lend(o) ==
    /\ o \in live
    /\ lent = 0
    /\ lent' = o
    /\ UNCHANGED <<made, live, parked, freed, closed>>

GiveBack ==
    /\ lent' = 0
    /\ UNCHANGED <<made, live, parked, freed, closed>>

(* Live objects are parked, and of those that were, some are freed.        *)
Retire ==
    /\ ~closed
    /\ live' \subseteq live
    /\ parked' \subseteq parked \cup (live \ live')
    /\ freed \subseteq freed' /\ freed' \subseteq freed \cup (parked \ parked')
    /\ lent \notin freed'
    /\ UNCHANGED <<made, lent, closed>>

Close ==
    /\ ~closed
    /\ closed' = TRUE
    /\ live' = {} /\ parked' = {}
    /\ freed' = freed \cup live \cup parked
    /\ UNCHANGED <<made, lent>>

Next == Make \/ (\E o \in live : Lend(o)) \/ GiveBack \/ Retire \/ Close

Spec == Init /\ [][Next]_vars
=============================================================================
