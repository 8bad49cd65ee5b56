------------------------------ MODULE MCDriver ------------------------------
(***************************************************************************)
(* Instances of Driver for TLC.  The providers stand for the classes the   *)
(* code tells apart: attributes (blocking, speculated on, chained), a      *)
(* model (neither blocking nor chained), lexical (blocking, but only up to *)
(* a timeout) and empty calls (chained at depth zero).                     *)
(***************************************************************************)
EXTENDS Driver, TLC

CONSTANTS b1, b2, b3, attr, model, emptycalls, lexical, q1, q2, q3

To(b, s) == [specs |-> {b}, score |-> s]

(* Scores in thirds, and a tolerance of one third.                         *)
Thirds == [x \in (0..3) \X (0..3) |-> (x[1] * x[2]) \div 3]

(* Two states, each the completion of the other (typing and deleting).     *)
PairCompletion == {To(b2, 3), To(b1, 0)}
PairCarries    == {<<b1, b2, To(b1, 0)>>}
PairEmits      == {<< <<b1, attr>>, b1, To(b2, 3) >>,
                   << <<b2, attr>>, b2, To(b1, 0) >>,
                   << <<b1, model>>, b2, To(b1, 0) >>}

(* Three states with a cycle of zero-depth completions, two paths to b3 of *)
(* different length, and several of the same length whose scores differ by *)
(* less and by more than the tolerance.                                    *)
Both == [specs |-> {b2, b3}, score |-> 1]
CycleCompletion == {To(b2, 3), To(b1, 3), To(b3, 3), To(b3, 2), Both}
CycleCarries    == {<<b1, b2, To(b3, 3)>>}
CycleEmits      == {<< <<b1, emptycalls>>, b1, To(b2, 3) >>,
                    << <<b2, emptycalls>>, b2, To(b1, 3) >>,
                    << <<b1, attr>>, b1, Both >>,
                    << <<b1, attr>>, b1, To(b3, 2) >>,
                    << <<b2, attr>>, b2, To(b3, 3) >>,
                    << <<b3, attr>>, b3, To(b1, 3) >>}

(* Of two states only the one leads to the other.                          *)
ForwardCompletion == {To(b2, 3)}
ForwardEmits      == {<< <<b1, attr>>, b1, To(b2, 3) >>}

PairAttrEmits == {e \in PairEmits : e[1][2] = attr}
Symmetry == Permutations(Request)
=============================================================================
