----------------------------- MODULE AccountTree -----------------------------
(***************************************************************************)
(* The account tree beside another component, with which it shares no      *)
(* state.                                                                  *)
(***************************************************************************)
CONSTANTS Profiles, HsMerchants, Orgs, Root, Unplaced, Syncs, TreeOf, OrgOf, Walks,
          Nodes, NodeOf, MaxMishaps

VARIABLES rows, entries, mem, sync, walk, mishaps, placedBy, wrote, blind, lost, stale

Tree == INSTANCE Hierarchy

ASSUME TreeAssumption == Tree!HierarchyAssumption

\* A profile that a completed sync placed can be reached from above (Hierarchy,
\* write_reverse_indexes).
SyncedIsReachable == Tree!SyncedIsReachable

\* A session is offered only profiles that are under its node (Hierarchy,
\* granted_profile).
GrantsFollowTree == Tree!GrantsFollowTree
=============================================================================
