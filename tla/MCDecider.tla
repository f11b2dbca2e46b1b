------------------------------ MODULE MCDecider ------------------------------
(***************************************************************************)
(* Instances of Decider for TLC.                                           *)
(***************************************************************************)
EXTENDS Decider, TLC

CONSTANTS g1, g2, g3

MCName == g1 :> 1 @@ g2 :> 2 @@ g3 :> 3

\* Among them a list that names a gateway twice.
MCLists == {<<>>, <<g1>>, <<g2, g1>>, <<g3, g1, g2>>, <<g1, g2, g1>>}

\* Equal costs, a cheap gateway, and a head that may have none.
MCCostTables ==
  {g1 :> 10 @@ g2 :> 10 @@ g3 :> 2, g2 :> 900 @@ g3 :> 10, g1 :> 30 @@ g2 :> 0}
=============================================================================
