----------------------------- MODULE MCCostJobs -----------------------------
(***************************************************************************)
(* Instances of CostJobs for TLC.                                          *)
(***************************************************************************)
EXTENDS CostJobs, TLC

CONSTANTS r1, r2, m1, m2, c1, c2, w1, w2, u1, x1, x2

Sym == Permutations(Deliveries) \cup Permutations(Workers)
         \cup Permutations(Reports) \cup Permutations(Days)
=============================================================================
