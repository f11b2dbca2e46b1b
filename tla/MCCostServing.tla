---------------------------- MODULE MCCostServing ----------------------------
(***************************************************************************)
(* Instances of CostServing for TLC.                                       *)
(***************************************************************************)
EXTENDS Serving, TLC, Integers, FiniteSets

CONSTANTS m1, m2, c1, c2, k1, k2, i0, i1, i2, x1, e1, e2, tick

\* Bounds: a behaviour has fits or edits of overrides, whose only meeting point is
\* the entry that a refresh puts together; one merchant ingests.
Apart == \/ \A t \in Cost!Fitters \ Before : fit[t].pc = "idle"
         \/ \A e \in Editors : edit[e].pc = "idle"
OneIngests == \A t \in Cost!Fitters : fit[t].m = Cost!AMerchant

\* Bound: two refreshes at once, and none while two tasks stage or fit; it reads what
\* one fit after another leaves.
Working == {t \in Cost!Fitters : fit[t].pc \notin {"idle", "failed", "refresh", "done"}}
Refreshing == {x \in Cost!Refreshers : pull[x].pc # "idle"}
FitsApart == /\ Cardinality(Refreshing) <= 2
             /\ Cardinality(Working) <= 1 \/ Refreshing = {}

MCSpec ==
  /\ Cost!Init /\ [][Cost!Next /\ (Apart /\ OneIngests /\ FitsApart)']_(Cost!vars)
  /\ Cost!Fairness
=============================================================================
