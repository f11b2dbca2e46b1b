------------------------------- MODULE Decider -------------------------------
(***************************************************************************)
(* How a payment's gateway is decided (run_decider_flow): the merchant's   *)
(* preference or priority logic, scores by success rate or by priority,    *)
(* scheduled outages, the two rounds of elimination and the reordering by  *)
(* cost.  Every step reads features, configuration and scores of its own;  *)
(* what it reads is a choice of the step.  The gateways offered are those  *)
(* of the request (flow_new.rs) or those the filters left (flows.rs).      *)
(*                                                                         *)
(* A score is an integer, Unit times the score of the code.  All divisions *)
(* of the code are exact.                                                  *)
(***************************************************************************)
EXTENDS Integers, FiniteSets, Sequences

CONSTANTS Gateways,    \* payment gateways
          Name,        \* the place of a gateway's name in the order of names
          NoGateway,   \* no gateway is preferred, or decided on
          Lists,       \* lists of gateways a priority logic may return
          SrScores,    \* success rates
          CostTables,  \* costs in tenths of a percent, of gateways that have one
          Margins      \* margins in tenths of a percent

Unit == 250000
PriorityStep == 25000

ASSUME GatewaysAssumption == NoGateway \notin Gateways /\ IsFiniteSet(Gateways)
ASSUME NamesAssumption ==
  /\ Name \in [Gateways -> Nat]
  /\ \A g, h \in Gateways : Name[g] = Name[h] => g = h
ASSUME ListsAssumption == Lists \subseteq Seq(Gateways)
ASSUME ScoresAssumption == SrScores \subseteq {2500 * k : k \in 0..100}
ASSUME CostsAssumption ==
  /\ \A t \in CostTables : DOMAIN t \subseteq Gateways /\ t \in [DOMAIN t -> Nat]
  /\ Margins \subseteq Int

VARIABLES pc,          \* what the flow does next
          offered,     \* dpEnforceGatewayList, or the result of newGwFilters
          preferred,   \* the gateway the merchant prefers
          logic,       \* the output of the priority logic
          functional,  \* functionalGateways
          scores,      \* gwScoreMap
          approach,    \* gwDeciderApproach, which the feedback will read
          initial,     \* initial_gw_scores of the elimination
          low,         \* ghost: gateways the global and the merchant's scores hit
          outages,     \* ghost: gateways with a scheduled outage
          hedged,      \* ghost: the scores were made to explore
          cost,        \* costs, margin and head of the last step
          decided,     \* decided_gateway
          routing      \* routing_approach of the response

request == <<offered, preferred, logic>>
elimination == <<initial, low>>
answer == <<cost, decided, routing>>
vars == <<pc, request, functional, scores, approach, elimination, outages, hedged,
          answer>>

\* GatewayDeciderApproach: how the scores were made, and what elimination found.
Kinds == {"none", "default", "preference", "pl", "sr", "hedging", "multi"}
Downtimes == {"no", "some", "global", "all"}
Approach(kind) == [kind |-> kind, downtime |-> "no"]

NoLogic == [gws |-> <<>>, enforced |-> FALSE, given |-> FALSE]
NoScores == [g \in {} |-> 0]
NoCosts == [table |-> NoScores, margin |-> 0, head |-> NoGateway]
Scored == DOMAIN scores

Init ==
  /\ pc = "start"
  /\ offered \in SUBSET Gateways /\ functional = offered
  /\ preferred \in Gateways \cup {NoGateway}
  /\ logic = NoLogic
  /\ scores = NoScores /\ initial = NoScores
  /\ approach = Approach("none")
  /\ low = [global |-> {}, merchant |-> {}] /\ outages = {} /\ hedged = FALSE
  /\ cost = NoCosts /\ decided = NoGateway /\ routing = Approach("none")

-----------------------------------------------------------------------------
(* Preference and priority logic.                                           *)

\* Without dynamic switching the merchant's preference is all there is.
PreferredGateway ==
  /\ pc = "start" /\ preferred # NoGateway
  /\ IF preferred \in functional
     THEN pc' = "done" /\ decided' = preferred /\ routing' = Approach("preference")
     ELSE pc' = "error" /\ UNCHANGED <<decided, routing>>
  /\ UNCHANGED <<request, functional, scores, approach, elimination, outages, hedged,
                 cost>>

\* get_gateway_priority: a script's list, or the merchant's, which is not enforced;
\* an empty one if the script cannot be evaluated, whatever its fallback returns.
Outputs ==
  {[gws |-> l, enforced |-> e, given |-> FALSE] : l \in Lists, e \in BOOLEAN}
    \cup {NoLogic}

\* The caller may give the output of the priority logic.
PriorityLogic ==
  /\ pc = "start"
  /\ \E output \in Outputs, given \in BOOLEAN :
       /\ logic' = [output EXCEPT !.given = given]
       /\ pc' = IF output.enforced THEN "enforce" ELSE "score"
  /\ UNCHANGED <<offered, preferred, functional, scores, approach, elimination, outages,
                 hedged, answer>>

\* flow_new.rs asks no priority logic when the request ranks by success rate.
RankBySr ==
  /\ pc = "start" /\ pc' = "sr"
  /\ UNCHANGED <<request, functional, scores, approach, elimination, outages, hedged,
                 answer>>

Entries(list) == {list[i] : i \in DOMAIN list}

\* add_preferred_gateways_to_priority_list
WithPreferred(list) == Entries(list) \cup ({preferred} \cap Gateways)

\* handle_fallback_logic evaluates the fallback script and records that it did; the
\* gateways and the enforcement stay those of the primary logic.
HandleFallback(output) == output

\* Mutant: the gateways come back if none of them is in the list.
EnforceIfAny ==
  /\ pc = "enforce" /\ pc' = "score"
  /\ LET named == functional \cap WithPreferred(logic.gws)
     IN  functional' = IF named = {} THEN functional ELSE named
  /\ UNCHANGED <<request, scores, approach, elimination, outages, hedged, answer>>

\* filter_functional_gateways_with_enforcement: if no gateway is left, what the
\* fallback logic returns decides.
Enforce ==
  /\ pc = "enforce" /\ pc' = "score"
  /\ LET named == functional \cap WithPreferred(logic.gws)
         output == IF named = {} /\ ~logic.given THEN HandleFallback(logic) ELSE logic
     IN  /\ logic' = output
         /\ functional' = IF output.enforced
                          THEN functional \cap WithPreferred(output.gws)
                          ELSE functional
  /\ UNCHANGED <<offered, preferred, scores, approach, elimination, outages, hedged,
                 answer>>

-----------------------------------------------------------------------------
(* scoring_flow.  What the priority logic said is not used after it.        *)

Scores(map, next, kind) ==
  /\ scores' = map
  /\ approach' = Approach(kind)
  /\ pc' = next
  /\ logic' = NoLogic /\ preferred' = NoGateway
  /\ UNCHANGED <<offered, functional, elimination, outages, answer>>

\* create_score_map
AllOnes == [g \in functional |-> Unit]

\* A single gateway is not compared, and its outages are not looked up.
SingleGateway ==
  /\ pc \in {"score", "sr"} /\ Cardinality(functional) = 1
  /\ Scores(AllOnes, "eliminate", "default")
  /\ UNCHANGED hedged

Several == Cardinality(functional) > 1

\* enableExploreAndExploitOnSrV3: part of the payments explore.
Explore ==
  /\ pc \in {"score", "sr"} /\ Several
  /\ Scores(AllOnes, "outage", "hedging")
  /\ hedged' = TRUE

\* get_cached_scores_based_on_srv3
SrRouting ==
  /\ pc \in {"score", "sr"} /\ Several
  /\ \E rates \in [functional -> SrScores] : Scores(rates, "outage", "sr")
  /\ UNCHANGED hedged

\* route_random_traffic: the others first, and the best with half a score.
RandomTraffic ==
  /\ pc \in {"score", "sr"} /\ Several
  /\ \E rates \in [functional -> SrScores], best \in functional :
       /\ \A g \in functional : rates[g] <= rates[best]
       /\ Scores([AllOnes EXCEPT ![best] = Unit \div 2], "outage", "hedging")
  /\ hedged' = TRUE

\* get_score_with_priority: a step down for each gateway of the list that is
\* functional, and the last place for those that are not in it.
Places(list, g) ==
  Cardinality({i \in DOMAIN list :
    /\ list[i] \in functional
    /\ g \in Entries(list) => \E j \in DOMAIN list : i < j /\ list[j] = g})

PriorityScores(list) == [g \in functional |-> Unit - PriorityStep * Places(list, g)]

\* Also when no gateway is left, or no success rate was found for any.
Priority ==
  /\ \/ pc = "score" /\ Several
     \/ pc \in {"score", "sr"} /\ functional = {}
  /\ Scores(PriorityScores(logic.gws), "outage", "pl")
  /\ UNCHANGED hedged

\* One tenth for each outage, of which at most two are of the same gateway.
MaxOutages == 2
Divided(score, n) == IF n = 0 THEN score ELSE IF n = 1 THEN score \div 10 ELSE score \div 100

\* update_score_for_outage: a gateway that was not scored comes in.
Outage ==
  /\ pc = "outage" /\ pc' = "eliminate"
  /\ \E count \in [Gateways -> 0..MaxOutages] :
       LET out == {g \in Gateways : count[g] > 0}
       IN  /\ outages' = out
           /\ scores' = [g \in Scored \cup out |->
                           Divided(IF g \in Scored THEN scores[g] ELSE Unit, count[g])]
  /\ UNCHANGED <<request, functional, approach, elimination, hedged, answer>>

-----------------------------------------------------------------------------
(* update_gateway_score_based_on_success_rate.                              *)

\* Elimination is off, for the merchant or for the payment method type.
NoElimination ==
  /\ pc = "eliminate" /\ pc' = "decide"
  /\ initial' = scores
  /\ UNCHANGED <<request, functional, scores, approach, low, outages, hedged, answer>>

\* penalize_gsr, update_score_with_log
Penalized(map, gateways) ==
  [g \in DOMAIN map |-> IF g \in gateways THEN map[g] \div 5 ELSE map[g]]

\* Gateways whose global score is below the threshold, if there are defaults.
GlobalElimination ==
  /\ pc = "eliminate" /\ pc' = "merchant"
  /\ initial' = scores
  /\ \E hit \in SUBSET Scored :
       /\ low' = [low EXCEPT !.global = hit]
       /\ scores' = Penalized(scores, hit)
  /\ UNCHANGED <<request, functional, approach, outages, hedged, answer>>

\* modify_gateway_decider_approach
Modified(a, downtime) ==
  [kind |-> IF a.kind \in {"sr", "hedging"} THEN a.kind ELSE "pl", downtime |-> downtime]

\* Mutant: the merchant's round starts from the scores before the global one.
MerchantEliminationAlone ==
  /\ pc = "merchant" /\ pc' = "decide"
  /\ \E hit \in SUBSET Scored :
       /\ low' = [low EXCEPT !.merchant = hit]
       /\ scores' = Penalized(initial, hit)
  /\ UNCHANGED <<request, functional, approach, initial, outages, hedged, answer>>

\* The same by the merchant's scores.  If all gateways are low, and the feature for
\* it is on, the order by priority is that of the initial scores again.
MerchantElimination ==
  /\ pc = "merchant" /\ pc' = "decide"
  /\ \E hit \in SUBSET Scored, optimise \in BOOLEAN :
       LET all == Cardinality(hit) > 1 /\ hit = Scored
           downtime == IF all THEN "all"
                       ELSE IF low.global # {} THEN "global"
                       ELSE IF hit # {} THEN "some" ELSE "no"
       IN  /\ low' = [low EXCEPT !.merchant = hit]
           /\ scores' = IF all /\ optimise /\ approach.kind \notin {"sr", "hedging"}
                        THEN initial
                        ELSE Penalized(scores, hit)
           /\ approach' = IF Scored = {} THEN approach ELSE Modified(approach, downtime)
  /\ UNCHANGED <<request, functional, initial, outages, hedged, answer>>

-----------------------------------------------------------------------------
(* The decision.                                                            *)

\* get_max_score_gateway, random_gateway_selection_for_same_score
Best == {g \in Scored : \A h \in Scored : scores[h] <= scores[g]}

\* is_hedging, without the labels of downtime.
IsHedgingOnly == approach = Approach("hedging")

\* is_hedging
IsHedging == approach.kind = "hedging"

\* The head of reorder_for_cost: of equal scores the lowest name.
Heads == {g \in Best : \A h \in Best : Name[g] <= Name[h]}

\* Expected value, in Unit and tenths of a percent.
EV(g, c) == scores[g] * (c.margin - c.table[g])

Ranked(c) == Scored \cap DOMAIN c.table

\* Mutant: an equal value is enough.
NotWorse(c) ==
  {g \in Ranked(c) : g # c.head /\ EV(g, c) >= EV(c.head, c)
     /\ \A h \in Ranked(c) : EV(h, c) <= EV(g, c)}

\* Gateways with the best expected value, if it is better than the head's.
Better(c) ==
  {g \in Ranked(c) :
     EV(g, c) > EV(c.head, c) /\ \A h \in Ranked(c) : EV(h, c) <= EV(g, c)}

\* get_gateway_decider_approach
Answer(g, a) ==
  /\ pc' = "done"
  /\ decided' = g
  /\ approach' = a
  /\ routing' = IF Cardinality(Scored) > 1 THEN a ELSE Approach("default")

NoGatewayFound ==
  /\ pc = "decide" /\ Scored = {} /\ pc' = "error"
  /\ UNCHANGED <<request, functional, scores, approach, elimination, outages, hedged,
                 answer>>

\* Multi-objective routing is off, or has nothing to say: one gateway is scored, or
\* the head has no cost.
DecideByScore ==
  /\ pc = "decide"
  /\ \E g \in Best : Answer(g, approach)
  /\ UNCHANGED <<request, functional, scores, elimination, outages, hedged, cost>>

\* try_apply_multi_objective_post_step, reorder_for_cost
DecideByCost ==
  /\ pc = "decide" /\ ~IsHedging /\ Cardinality(Scored) > 1
  /\ \E table \in CostTables, margin \in Margins, head \in Heads :
       LET c == [table |-> table, margin |-> margin, head |-> head]
       IN  /\ head \in Ranked(c)
           /\ cost' = c
           /\ \/ Better(c) = {} /\ Answer(head, approach)
              \/ \E g \in Better(c) : Answer(g, Approach("multi"))
  /\ UNCHANGED <<request, functional, scores, elimination, outages, hedged>>

-----------------------------------------------------------------------------
Next ==
  \/ PreferredGateway \/ PriorityLogic \/ RankBySr \/ Enforce
  \/ SingleGateway \/ Explore \/ SrRouting \/ RandomTraffic \/ Priority
  \/ Outage \/ NoElimination \/ GlobalElimination \/ MerchantElimination
  \/ NoGatewayFound \/ DecideByScore \/ DecideByCost

Spec == Init /\ [][Next]_vars

-----------------------------------------------------------------------------
(* Properties.                                                              *)

IsScoreMap(m) == DOMAIN m \subseteq Gateways /\ \A g \in DOMAIN m : m[g] \in Int

TypeOK ==
  /\ pc \in {"start", "enforce", "score", "sr", "outage", "eliminate", "merchant",
             "decide", "done", "error"}
  /\ offered \subseteq Gateways /\ functional \subseteq Gateways
  /\ outages \subseteq Gateways
  /\ preferred \in Gateways \cup {NoGateway} /\ decided \in Gateways \cup {NoGateway}
  /\ logic \in [gws : Lists \cup {<<>>}, enforced : BOOLEAN, given : BOOLEAN]
  /\ IsScoreMap(scores) /\ IsScoreMap(initial)
  /\ low \in [global : SUBSET Gateways, merchant : SUBSET Gateways]
  /\ approach \in [kind : Kinds, downtime : Downtimes]
  /\ routing \in [kind : Kinds, downtime : Downtimes]
  /\ hedged \in BOOLEAN

\* The decision is for a gateway that was offered and, when the priority logic is
\* enforced, one it or the merchant named, its fallback or not; only a scheduled
\* outage brings in another (update_score_for_outage).
EligibleUnlessOut ==
  /\ pc = "score" /\ logic.enforced => functional \subseteq WithPreferred(logic.gws)
  /\ functional \subseteq offered
  /\ decided # NoGateway => decided \in functional \cup outages

\* A gateway that elimination hit is decided on only if it was ahead of every gateway
\* that was not, whatever the rounds overwrite: a hit never moves a gateway up, and
\* the hits of one round are not lost in the next.
PenaltiesNeverPromote ==
  decided \in low.global \cup low.merchant /\ routing.kind # "multi"
    => \A g \in Scored \ (low.global \cup low.merchant) :
         initial[decided] > 0 => initial[decided] > initial[g]

\* A payment that explores is not reordered by cost and is labelled as hedging, so
\* that its outcome counts as one of exploration, also when elimination found
\* gateways down and the label was changed.
HedgedStaysHedged == hedged /\ pc = "done" => routing.kind = "hedging"

\* A promotion by cost goes to a cheaper gateway, unless the margin does not even
\* cover the cost of the head.
PromotionSavesCost ==
  routing.kind = "multi" /\ scores[decided] >= 0 /\ cost.margin >= cost.table[cost.head]
    => cost.table[decided] < cost.table[cost.head]
=============================================================================
