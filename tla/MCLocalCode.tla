---------------------------- MODULE MCLocalCode ----------------------------
(* Instances of LocalCode for TLC, where the artifact for the first file   *)
(* has the second as well.                                                 *)
EXTENDS LocalCode

MCIndexed == [f \in File |-> IF f = "f1" THEN File ELSE {f}]

(* Drivers work on one file, which is synced, or for which steps fail, or  *)
(* both until one object is loaded; or they work on two, whose requests    *)
(* are merged, when nothing fails.                                         *)
MCInit ==
    /\ Init
    /\ \/ opened = {"f1"} /\ clock = 1 /\ faults = MaxFaults /\ loads = 0
       \/ opened = {"f1"} /\ clock = MaxTime /\ faults = 0 /\ loads = 0
       \/ opened = {"f1"} /\ clock = 1 /\ faults + 1 = MaxFaults /\ loads + 1 = MaxLoads
       \/ opened = File /\ clock = MaxTime /\ faults = MaxFaults /\ loads = 0

MCSpec == MCInit /\ [][Next]_vars /\ Fairness
=============================================================================
