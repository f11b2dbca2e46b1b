--------------------------- MODULE MCServiceConfig ---------------------------
(***************************************************************************)
(* Instances of ServiceConfig for TLC.                                     *)
(***************************************************************************)
EXTENDS ServiceConfig

CONSTANTS s1, e1, k1, k2, n1, n2, earlier, nobody, nothing

\* One tuner runs where the lookups are watched, the other and the edit elsewhere.
MCNodeOf == [a \in Actors |-> IF a = k1 THEN n1 ELSE n2]

\* The operator overrides the cluster; the document before may or may not.
MCDrafts == {[s \in Segments |-> "human"]}
=============================================================================
