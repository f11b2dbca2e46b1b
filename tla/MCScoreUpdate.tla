--------------------------- MODULE MCScoreUpdate ----------------------------
(***************************************************************************)
(* Instances of ScoreUpdate for TLC.                                       *)
(***************************************************************************)
EXTENDS ScoreUpdate

CONSTANTS d1, d2, g1, k1
=============================================================================
