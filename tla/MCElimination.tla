---------------------------- MODULE MCElimination ----------------------------
(***************************************************************************)
(* Instances of Elimination for TLC.                                       *)
(***************************************************************************)
EXTENDS Elimination, TLC

CONSTANTS m1, m2, g1, t1, t2, d1, d2

Sym == Permutations(Tasks) \cup Permutations(Deciders) \cup Permutations(Merchants)
=============================================================================
