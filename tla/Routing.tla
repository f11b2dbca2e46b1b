------------------------------- MODULE Routing -------------------------------
(***************************************************************************)
(* The filters a payment goes through and the rules its merchant has, side *)
(* by side.  The two share no state.                                       *)
(***************************************************************************)
EXTENDS GatewayFilter

CONSTANTS Algorithms, AlgorithmKinds, KindOf, Requests, Evaluations, Earlier, Absent

VARIABLES data, active, cache, req, eval, muddled, doubtful

Rules == INSTANCE RoutingRules WITH Kinds <- AlgorithmKinds

ASSUME RoutingAssumption == Rules!RulesAssumption

\* The cached algorithm is the active one while nobody is between the tables and
\* the cache (RoutingRules, activate_routing_rule and deactivate_routing_rule).
CacheReflectsActive == Rules!CacheReflectsActive

\* A running algorithm is neither edited nor deleted (RoutingRules,
\* ensure_routing_algorithm_inactive).
RunningIsLeftAlone == Rules!RunningIsLeftAlone

\* What evaluations are served settles on what is active (RoutingRules,
\* routing_evaluate).
ServedSettles == Rules!ServedSettles
=============================================================================
