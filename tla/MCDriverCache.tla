---------------------------- MODULE MCDriverCache ----------------------------
(* Three requests for three files: enough for a Driver that expires behind *)
(* one that does not.                                                      *)
EXTENDS DriverCache, TLC

Symmetry == Permutations(Request) \cup Permutations(Key)
==============================================================================
