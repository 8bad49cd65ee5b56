---------------------------- MODULE MCEditEvents ----------------------------
(* Three events on one file, over two texts besides the empty one, with    *)
(* two drivers kept.                                                       *)
EXTENDS EditEvents, TLC

CONSTANTS a, b, empty, v1, v2, v3

MCText  == {empty, a, b}
MCEvent == {v1, v2, v3}

Symmetry == Permutations({a, b}) \cup Permutations(MCEvent)
=============================================================================
