---------------------------- MODULE MCModelCache ----------------------------
(* Constants of the small instances of ModelCache. *)
EXTENDS ModelCache, TLC

CONSTANTS p1, p2

OneKey == {1}
TwoKeys == {1, 2}
Symmetry == Permutations(Procs)
=============================================================================
