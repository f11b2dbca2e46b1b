------------------------------- MODULE Serving -------------------------------
(***************************************************************************)
(* The cost model that decisions are priced with, beside another           *)
(* component, with which it shares no state.                               *)
(***************************************************************************)
CONSTANTS Merchants, Clusters, Connectors, Ingests, Undos, Editors, Before, Ticker,
          Capped, Sparse, MaxChunks, MaxDay, MaxFaults

VARIABLES day, staged, model, tiers, fit, fee, index, globals, edit, pull, served,
          faults, muddled, tangled

Cost == INSTANCE CostServing

ASSUME ServingAssumption == Cost!ServingAssumption

\* Once a merchant's fits are over, the latest snapshot is what its staging says
\* (CostServing, fit_snapshot).
SnapshotReflectsStaging == Cost!SnapshotReflectsStaging

\* An override that is stored is listed by its merchant, and the merchant by the global
\* index (CostServing, overrides::put, overrides::delete).
OverridesAreListed == Cost!OverridesAreListed

\* What decisions are priced with comes to be what the tables hold (CostServing,
\* refresh_inner).
ServedCatchesUp == Cost!ServedCatchesUp
=============================================================================
