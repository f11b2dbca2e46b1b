----------------------------- MODULE MCSrWindow -----------------------------
(***************************************************************************)
(* Instances of SrWindow for TLC.                                          *)
(***************************************************************************)
EXTENDS SrWindow, TLC

CONSTANTS g1, g2, f1, f2, f3, d1

\* The smallest pair that loses its last zero: in doubles (21 / 19) * 19 > 21.
SmallestLost == {<<22, 20>>}

Sym == Permutations(Feedbacks)
=============================================================================
