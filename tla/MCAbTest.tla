------------------------------ MODULE MCAbTest ------------------------------
(***************************************************************************)
(* The record of an experiment and the account tree, for TLC.              *)
(***************************************************************************)
EXTENDS AbTest, AccountTree, TLC

CONSTANTS d1, d2, o1, o2, o3, g1, p1, p2, m1, m2, org1, s1, s2, w1, n1, n2

\* A behaviour runs one of them.
VARIABLE part

Sym == Permutations(Decisions) \cup Permutations(Outcomes)

\* The second sync adds a profile to the merchant of the first, and moves the profile
\* the first has placed, or is yet to place, to another.
MCTreeOf == s1 :> (p1 :> m1) @@ s2 :> (p1 :> m2 @@ p2 :> m1)
MCOrgOf == [s \in Syncs |-> org1]

\* The session is served where the second sync runs.
MCNodeOf == s1 :> n2 @@ s2 :> n1 @@ w1 :> n1

treeVars == <<rows, entries, mem, sync, walk, mishaps, placedBy, wrote, blind, lost, stale>>
allVars == <<part, vars, treeVars>>

Experimenting == part = "experiment" /\ UNCHANGED <<part, treeVars>>
Syncing == part = "tree" /\ UNCHANGED <<part, vars>>

\* The part that does not run stays as it starts.
MCInit ==
  /\ Init /\ Tree!Init /\ part \in {"experiment", "tree"}
  /\ part = "experiment" => \A p \in Profiles : rows[p] = {}

MCNext == (Experimenting /\ Next) \/ (Syncing /\ Tree!Next)

MCSpec == MCInit /\ [][MCNext]_allVars
=============================================================================
