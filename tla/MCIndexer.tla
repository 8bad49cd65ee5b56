----------------------------- MODULE MCIndexer -----------------------------
(* Two files in two directories; the first one's artifact has both files.  *)
EXTENDS Indexer

MCPath   == {"p1", "p2"}
MCDirOf  == [p \in MCPath |-> IF p = "p1" THEN "d1" ELSE "d2"]
MCBundle == [p \in MCPath |-> IF p = "p1" THEN MCPath ELSE {"p2"}]

(* Three requests and two writes, or one less of each while reset() runs.  *)
MCInit ==
    /\ Init
    /\ \/ resetter.pc = "over" /\ asks = 0 /\ writes = 0
       \/ resetter.pc = "unused" /\ asks = 1 /\ writes = 1

MCSpec == MCInit /\ [][Next]_vars /\ Fairness
=============================================================================
