---------------------------- MODULE DeciderProofs ----------------------------
(***************************************************************************)
(* Proofs about the decision, for any gateways, priority lists, success    *)
(* rates and costs.  The invariants follow the scores through the flow:    *)
(* which gateways have one, what the eliminations made of it, and what     *)
(* becomes of a payment that explores.  And about the cost model the       *)
(* decision is priced with, for any merchants, clusters, connectors and    *)
(* tasks, over any number of days and faults.                              *)
(***************************************************************************)
EXTENDS Decider, Serving, FiniteSetTheorems, TLAPS

-----------------------------------------------------------------------------
(* Types.                                                                   *)

LEMMA PriorityScoresType ==
  ASSUME TypeOK, NEW list \in Lists \cup {<<>>}, NEW g \in functional
  PROVE  PriorityScores(list)[g] \in Int
<1>1. list \in Seq(Gateways)
  <2>1. <<>> \in Seq(Gateways)
    OBVIOUS
  <2> QED BY <2>1, ListsAssumption
<1>2. IsFiniteSet(DOMAIN list)
  <2>1. DOMAIN list = 1..Len(list) /\ Len(list) \in Nat
    BY <1>1
  <2> QED BY <2>1, FS_Interval
<1> DEFINE P == {i \in DOMAIN list :
                   /\ list[i] \in functional
                   /\ g \in Entries(list) => \E j \in DOMAIN list : i < j /\ list[j] = g}
<1>3. IsFiniteSet(P)
  BY <1>2, FS_Subset
<1>4. Cardinality(P) \in Nat
  BY <1>3, FS_CardinalityType
<1>5. Places(list, g) \in Nat
  BY <1>4 DEF Places
<1> QED BY <1>5 DEF PriorityScores, Unit, PriorityStep

LEMMA PriorityScoresDomain ==
  ASSUME NEW list PROVE DOMAIN PriorityScores(list) = functional
BY DEF PriorityScores

LEMMA TypeInit == Init => TypeOK
<1> SUFFICES ASSUME Init PROVE TypeOK
  OBVIOUS
<1>1. IsScoreMap(scores) /\ IsScoreMap(initial)
  BY DEF Init, IsScoreMap, NoScores
<1>2. logic \in [gws : Lists \cup {<<>>}, enforced : BOOLEAN, given : BOOLEAN]
  BY DEF Init, NoLogic
<1>3. low \in [global : SUBSET Gateways, merchant : SUBSET Gateways]
  BY DEF Init
<1>4. Approach("none") \in [kind : Kinds, downtime : Downtimes]
  BY DEF Approach, Kinds, Downtimes
<1> QED BY <1>1, <1>2, <1>3, <1>4 DEF Init, TypeOK

\* What a scoring step needs to show of its scores.
LEMMA ScoresType ==
  ASSUME TypeOK, NEW map, NEW next \in {"outage", "eliminate"},
         NEW kind \in {"default", "pl", "sr", "hedging"},
         Scores(map, next, kind),
         DOMAIN map = functional, \A g \in functional : map[g] \in Int,
         hedged' \in BOOLEAN
  PROVE  TypeOK'
<1>1. IsScoreMap(scores') /\ IsScoreMap(initial')
  BY DEF Scores, TypeOK, IsScoreMap, elimination
<1>2. logic' \in [gws : Lists \cup {<<>>}, enforced : BOOLEAN, given : BOOLEAN]
  BY DEF Scores, NoLogic
<1>3. Approach(kind) \in [kind : Kinds, downtime : Downtimes]
  BY DEF Approach, Kinds, Downtimes
<1> QED BY <1>1, <1>2, <1>3 DEF TypeOK, IsScoreMap, Scores, elimination, answer

LEMMA AnswerType ==
  ASSUME TypeOK, NEW g \in Scored, NEW a \in [kind : Kinds, downtime : Downtimes],
         Answer(g, a),
         UNCHANGED <<request, functional, scores, elimination, outages, hedged>>
  PROVE  TypeOK'
BY DEF TypeOK, IsScoreMap, Answer, Scored, request, elimination, Approach, Kinds, Downtimes

LEMMA TypeStep == TypeOK /\ [Next]_vars => TypeOK'
<1> SUFFICES ASSUME TypeOK, [Next]_vars PROVE TypeOK'
  OBVIOUS
<1>1. CASE PreferredGateway
  BY <1>1 DEF PreferredGateway, TypeOK, IsScoreMap, request, elimination, Approach, Kinds, Downtimes, Scored
<1>2. CASE PriorityLogic
  <2>1. PICK output \in Outputs, given \in BOOLEAN :
          logic' = [output EXCEPT !.given = given]
    BY <1>2 DEF PriorityLogic
  <2>2. logic' \in [gws : Lists \cup {<<>>}, enforced : BOOLEAN, given : BOOLEAN]
    <3>1. CASE output = NoLogic
      BY <2>1, <3>1 DEF NoLogic
    <3>2. CASE output # NoLogic
      <4>1. PICK l \in Lists, e \in BOOLEAN :
              output = [gws |-> l, enforced |-> e, given |-> FALSE]
        BY <2>1, <3>2 DEF Outputs
      <4>2. logic' = [gws |-> l, enforced |-> e, given |-> given]
        BY <2>1, <4>1
      <4> QED BY <4>2
    <3> QED BY <3>1, <3>2
  <2> QED BY <1>2, <2>2 DEF PriorityLogic, TypeOK, IsScoreMap, elimination, answer, Scored
<1>3. CASE RankBySr
  BY <1>3 DEF RankBySr, TypeOK, IsScoreMap, request, elimination, answer, Scored
<1>4. CASE Enforce
  <2>1. logic' = logic /\ functional' \subseteq functional /\ pc' = "score"
    BY <1>4 DEF Enforce, HandleFallback
  <2> QED BY <1>4, <2>1 DEF Enforce, TypeOK, IsScoreMap, elimination, answer, Scored
<1>ones. DOMAIN AllOnes = functional /\ \A g \in functional : AllOnes[g] \in Int
  BY DEF AllOnes, Unit
<1>5. CASE SingleGateway
  BY <1>5, <1>ones, ScoresType DEF SingleGateway, TypeOK
<1>6. CASE Explore
  BY <1>6, <1>ones, ScoresType DEF Explore, TypeOK
<1>7. CASE SrRouting
  <2>1. PICK rates \in [functional -> SrScores] : Scores(rates, "outage", "sr")
    BY <1>7 DEF SrRouting
  <2>2. \A g \in functional : rates[g] \in Int
    BY ScoresAssumption
  <2> QED BY <1>7, <2>1, <2>2, ScoresType DEF SrRouting, TypeOK
<1>8. CASE RandomTraffic
  <2>1. PICK best \in functional :
          Scores([AllOnes EXCEPT ![best] = Unit \div 2], "outage", "hedging")
    BY <1>8 DEF RandomTraffic
  <2>2. \A g \in functional : [AllOnes EXCEPT ![best] = Unit \div 2][g] \in Int
    BY <1>ones DEF Unit
  <2>3. DOMAIN [AllOnes EXCEPT ![best] = Unit \div 2] = functional
    BY <1>ones
  <2> QED BY <1>8, <2>1, <2>2, <2>3, ScoresType DEF RandomTraffic
<1>9. CASE Priority
  <2>1. logic.gws \in Lists \cup {<<>>}
    BY DEF TypeOK
  <2>2. \A g \in functional : PriorityScores(logic.gws)[g] \in Int
    BY <2>1, PriorityScoresType
  <2> QED BY <1>9, <2>2, PriorityScoresDomain, ScoresType DEF Priority, TypeOK
<1>10. CASE Outage
  <2>1. PICK count \in [Gateways -> 0..MaxOutages] :
          LET out == {g \in Gateways : count[g] > 0}
          IN  /\ outages' = out
              /\ scores' = [g \in Scored \cup out |->
                              Divided(IF g \in Scored THEN scores[g] ELSE Unit, count[g])]
    BY <1>10 DEF Outage
  <2> DEFINE out == {g \in Gateways : count[g] > 0}
  <2>2. Scored \cup out \subseteq Gateways
    BY DEF TypeOK, IsScoreMap, Scored
  <2>3. \A x \in Int, n \in 0..MaxOutages : Divided(x, n) \in Int
    BY DEF Divided
  <2>4. \A g \in Scored \cup out : (IF g \in Scored THEN scores[g] ELSE Unit) \in Int
    BY DEF TypeOK, IsScoreMap, Scored, Unit
  <2>5. \A g \in Scored \cup out : scores'[g] \in Int
    BY <2>1, <2>2, <2>3, <2>4
  <2>6. DOMAIN scores' = Scored \cup out /\ outages' = out
    BY <2>1
  <2>7. IsScoreMap(scores')
    BY <2>2, <2>5, <2>6 DEF IsScoreMap
  <2> QED BY <1>10, <2>2, <2>6, <2>7 DEF Outage, TypeOK, IsScoreMap, request, elimination, answer
<1>11. CASE NoElimination
  BY <1>11 DEF NoElimination, TypeOK, IsScoreMap, request, answer, Scored
<1>12. CASE GlobalElimination
  <2>1. PICK hit \in SUBSET Scored :
          low' = [low EXCEPT !.global = hit] /\ scores' = Penalized(scores, hit)
    BY <1>12 DEF GlobalElimination
  <2>2. Scored' = Scored /\ \A g \in Scored' : scores'[g] \in Int
    BY <2>1 DEF Penalized, Scored, TypeOK, IsScoreMap
  <2>3. hit \subseteq Gateways
    BY DEF TypeOK, IsScoreMap, Scored
  <2> QED BY <1>12, <2>1, <2>2, <2>3 DEF GlobalElimination, TypeOK, IsScoreMap, Scored, request, answer
<1>13. CASE MerchantElimination
  <2>1. PICK hit \in SUBSET Scored :
          /\ low' = [low EXCEPT !.merchant = hit]
          /\ scores' \in {initial, Penalized(scores, hit)}
          /\ approach' = approach \/ \E d \in Downtimes : approach' = Modified(approach, d)
    BY <1>13 DEF MerchantElimination, Downtimes
  <2>2. IsScoreMap(Penalized(scores, hit))
    BY <2>1 DEF Penalized, TypeOK, IsScoreMap
  <2>3. IsScoreMap(scores') /\ IsScoreMap(initial')
    BY <1>13, <2>1, <2>2 DEF MerchantElimination, TypeOK
  <2>4. approach' \in [kind : Kinds, downtime : Downtimes]
    BY <2>1 DEF TypeOK, Modified, Kinds
  <2>5. hit \subseteq Gateways
    BY <2>1 DEF TypeOK, IsScoreMap, Scored
  <2>6. low' \in [global : SUBSET Gateways, merchant : SUBSET Gateways]
    BY <2>1, <2>5 DEF TypeOK
  <2> QED BY <1>13, <2>3, <2>4, <2>6 DEF MerchantElimination, TypeOK, IsScoreMap, request, answer
<1>14. CASE NoGatewayFound
  BY <1>14 DEF NoGatewayFound, TypeOK, IsScoreMap, request, elimination, answer
<1>15. CASE DecideByScore
  <2>1. PICK g \in Best : Answer(g, approach)
    BY <1>15 DEF DecideByScore
  <2> QED BY <1>15, <2>1, AnswerType DEF DecideByScore, Best, TypeOK
<1>16. CASE DecideByCost
  <2>1. PICK g \in Scored, a \in {approach, Approach("multi")} : Answer(g, a)
    BY <1>16 DEF DecideByCost, Ranked, Better
  <2>2. a \in [kind : Kinds, downtime : Downtimes]
    BY <2>1 DEF TypeOK, Approach, Kinds, Downtimes
  <2> QED BY <1>16, <2>1, <2>2, AnswerType DEF DecideByCost
<1>17. CASE UNCHANGED vars
  BY <1>17 DEF vars, TypeOK, IsScoreMap, request, elimination, answer
<1> QED
  BY <1>1, <1>2, <1>3, <1>4, <1>5, <1>6, <1>7, <1>8, <1>9, <1>10, <1>11, <1>12,
     <1>13, <1>14, <1>15, <1>16, <1>17 DEF Next

\* The lists, scores and labels keep their types for any gateways, priority lists and
\* success rates (run_decider_flow).
THEOREM TypeInvariant == Spec => []TypeOK
BY TypeInit, TypeStep, PTL DEF Spec

-----------------------------------------------------------------------------
(* Which gateways are scored, and decided on.                               *)

Unscored == {"start", "enforce", "score", "sr"}

Scoring == SingleGateway \/ Explore \/ SrRouting \/ RandomTraffic \/ Priority

\* What every scoring step does.
ScoringEffect ==
  /\ pc \in Unscored /\ pc' \in {"outage", "eliminate"}
  /\ Scored' = functional
  /\ UNCHANGED <<offered, functional, elimination, outages, answer>>
  /\ approach'.kind # "multi"
  /\ hedged' # hedged => pc' = "outage" /\ Several /\ approach' = Approach("hedging")

LEMMA ScoringStep == Scoring => ScoringEffect
<1>1. ASSUME NEW map, NEW next, NEW kind, Scores(map, next, kind), DOMAIN map = functional
      PROVE  /\ pc' = next /\ Scored' = functional /\ approach' = Approach(kind)
             /\ UNCHANGED <<offered, functional, elimination, outages, answer>>
  BY <1>1 DEF Scores, Scored
<1>2. CASE SingleGateway
  BY <1>2, <1>1 DEF SingleGateway, AllOnes, ScoringEffect, Unscored, Approach
<1>3. CASE Explore
  <2>1. Scores(AllOnes, "outage", "hedging") /\ DOMAIN AllOnes = functional
    BY <1>3 DEF Explore, AllOnes
  <2>2. /\ pc' = "outage" /\ Scored' = functional /\ approach' = Approach("hedging")
        /\ UNCHANGED <<offered, functional, elimination, outages, answer>>
    BY <2>1, <1>1
  <2> QED BY <1>3, <2>2 DEF Explore, ScoringEffect, Unscored, Approach
<1>4. CASE SrRouting
  <2>1. PICK rates \in [functional -> SrScores] : Scores(rates, "outage", "sr")
    BY <1>4 DEF SrRouting
  <2> QED BY <1>4, <2>1, <1>1 DEF SrRouting, ScoringEffect, Unscored, Approach
<1>5. CASE RandomTraffic
  <2>1. PICK best \in functional :
          Scores([AllOnes EXCEPT ![best] = Unit \div 2], "outage", "hedging")
    BY <1>5 DEF RandomTraffic
  <2>2. DOMAIN [AllOnes EXCEPT ![best] = Unit \div 2] = functional
    BY DEF AllOnes
  <2>3. /\ pc' = "outage" /\ Scored' = functional /\ approach' = Approach("hedging")
        /\ UNCHANGED <<offered, functional, elimination, outages, answer>>
    BY <2>1, <2>2, <1>1
  <2> QED BY <1>5, <2>3 DEF RandomTraffic, ScoringEffect, Unscored, Approach
<1>6. CASE Priority
  BY <1>6, <1>1, PriorityScoresDomain DEF Priority, ScoringEffect, Unscored, Approach
<1> QED
  BY <1>2, <1>3, <1>4, <1>5, <1>6 DEF Scoring

\* What every decision does.
DecisionEffect ==
  /\ pc = "decide" /\ pc' = "done"
  /\ decided' \in Scored
  /\ UNCHANGED <<request, functional, scores, elimination, outages, hedged>>

LEMMA DecisionStep == DecideByScore \/ DecideByCost => DecisionEffect
<1>1. CASE DecideByScore
  BY <1>1 DEF DecideByScore, DecisionEffect, Answer, Best
<1>2. CASE DecideByCost
  BY <1>2 DEF DecideByCost, DecisionEffect, Answer, Ranked, Better
<1> QED BY <1>1, <1>2

\* Before the outages only functional gateways are scored, then those that are out too.
ScoredAreEligible ==
  /\ pc \in Unscored => Scored = {}
  /\ pc = "outage" => Scored = functional
  /\ pc = "merchant" => DOMAIN initial = Scored
  /\ pc # "done" => decided = NoGateway
  /\ Scored \subseteq functional \cup outages

EligibleInv == ScoredAreEligible /\ EligibleUnlessOut

LEMMA EligibleInit == Init => EligibleInv
BY DEF Init, EligibleInv, ScoredAreEligible, EligibleUnlessOut, Unscored, Scored, NoScores

LEMMA EligibleStep == TypeOK /\ EligibleInv /\ [Next]_vars => EligibleInv'
<1> SUFFICES ASSUME TypeOK, EligibleInv, [Next]_vars PROVE EligibleInv'
  OBVIOUS
<1> USE DEF EligibleInv, ScoredAreEligible, EligibleUnlessOut, Unscored
<1>1. CASE PreferredGateway
  BY <1>1 DEF PreferredGateway, request, elimination, Scored, WithPreferred
<1>2. CASE PriorityLogic
  <2>1. pc' = "score" => ~logic'.enforced
    <3>1. PICK output \in Outputs, given \in BOOLEAN :
            /\ logic' = [output EXCEPT !.given = given]
            /\ pc' = IF output.enforced THEN "enforce" ELSE "score"
      BY <1>2 DEF PriorityLogic
    <3>2. logic'.enforced = output.enforced
      BY <3>1 DEF Outputs, NoLogic
    <3> QED BY <3>1, <3>2
  <2> QED BY <1>2, <2>1 DEF PriorityLogic, elimination, answer, Scored
<1>3. CASE RankBySr
  BY <1>3 DEF RankBySr, request, elimination, answer, Scored
<1>4. CASE Enforce
  <2>1. logic' = logic /\ functional' \subseteq functional /\ pc' = "score"
    BY <1>4 DEF Enforce, HandleFallback
  <2>2. logic.enforced => functional' \subseteq WithPreferred(logic.gws)
    BY <1>4 DEF Enforce, HandleFallback
  <2> QED BY <1>4, <2>1, <2>2 DEF Enforce, elimination, answer, Scored, WithPreferred
<1>5. CASE Scoring
  BY <1>5, ScoringStep DEF ScoringEffect, answer
<1>6. CASE Outage
  <2>1. PICK count \in [Gateways -> 0..MaxOutages] :
          DOMAIN scores' = Scored \cup {g \in Gateways : count[g] > 0}
            /\ outages' = {g \in Gateways : count[g] > 0}
    BY <1>6 DEF Outage
  <2> QED BY <1>6, <2>1 DEF Outage, Scored, request, answer
<1>7. CASE NoElimination \/ GlobalElimination \/ MerchantElimination
  <2>1. Scored' = Scored /\ (pc' = "merchant" => DOMAIN initial' = Scored)
    BY <1>7 DEF NoElimination, GlobalElimination, MerchantElimination, Penalized, Scored
  <2>2. pc' \in {"merchant", "decide"} /\ pc \in {"eliminate", "merchant"}
        /\ UNCHANGED <<offered, functional, outages, decided>>
    BY <1>7 DEF NoElimination, GlobalElimination, MerchantElimination, request, answer
  <2> QED BY <2>1, <2>2
<1>8. CASE NoGatewayFound
  BY <1>8 DEF NoGatewayFound, request, elimination, answer, Scored
<1>9. CASE DecideByScore \/ DecideByCost
  BY <1>9, DecisionStep DEF DecisionEffect, request, Scored
<1>10. CASE UNCHANGED vars
  BY <1>10 DEF vars, request, elimination, answer, Scored, WithPreferred
<1> QED
  BY <1>1, <1>2, <1>3, <1>4, <1>5, <1>6, <1>7, <1>8, <1>9, <1>10 DEF Next, Scoring

\* The decision is for a gateway that was offered and that an enforced priority logic
\* or the merchant named, or for one with a scheduled outage
\* (filter_functional_gateways_with_enforcement, update_score_for_outage).
THEOREM DecidedIsEligible == Spec => []EligibleUnlessOut
<1>1. EligibleInv => EligibleUnlessOut
  BY DEF EligibleInv
<1> QED
  BY <1>1, TypeInit, TypeStep, EligibleInit, EligibleStep, PTL DEF Spec

-----------------------------------------------------------------------------
(* Eliminations.                                                            *)

Hit == low.global \cup low.merchant

Lowered(g) ==
  /\ initial[g] \in Int
  /\ g \notin Hit => scores[g] = initial[g]
  /\ g \in Hit /\ initial[g] > 0 => scores[g] < initial[g]

PenaltiesInv ==
  /\ Hit \subseteq Scored
  /\ pc \in Unscored \cup {"outage", "eliminate"} => Hit = {}
  /\ pc = "merchant" =>
       /\ low.merchant = {}
       /\ scores = Penalized(initial, low.global)
  /\ pc \in {"decide", "done"} /\ low.merchant # Scored => \A g \in Scored : Lowered(g)
  /\ pc = "done" /\ Scored # {} /\ routing.kind # "multi" => decided \in Best

LEMMA PenaltiesInit == Init => PenaltiesInv
BY DEF Init, PenaltiesInv, Hit, Unscored, Scored, NoScores

LEMMA PenaltiesStep ==
  TypeOK /\ EligibleInv /\ PenaltiesInv /\ [Next]_vars => PenaltiesInv'
<1> SUFFICES ASSUME TypeOK, EligibleInv, PenaltiesInv, [Next]_vars PROVE PenaltiesInv'
  OBVIOUS
<1>1. CASE PreferredGateway \/ PriorityLogic \/ RankBySr \/ Enforce
  <2>1. pc \in Unscored /\ pc' \in Unscored \cup {"done", "error"} /\ UNCHANGED <<scores, low>>
    BY <1>1 DEF PreferredGateway, PriorityLogic, RankBySr, Enforce, Unscored, elimination
  <2>2. Scored = {} /\ Scored' = {} /\ Hit' = {}
    BY <2>1 DEF EligibleInv, ScoredAreEligible, PenaltiesInv, Hit, Scored
  <2> QED BY <2>1, <2>2 DEF PenaltiesInv, Unscored
<1>2. CASE Scoring
  BY <1>2, ScoringStep DEF ScoringEffect, PenaltiesInv, Unscored, Hit, elimination
<1>3. CASE Outage
  <2>1. pc = "outage" /\ pc' = "eliminate" /\ low' = low
    BY <1>3 DEF Outage, elimination
  <2> QED BY <2>1 DEF PenaltiesInv, Unscored, Hit
<1>4. CASE NoElimination
  <2>1. /\ pc = "eliminate" /\ pc' = "decide" /\ initial' = scores
        /\ UNCHANGED <<scores, low>> /\ Hit = {}
    BY <1>4 DEF NoElimination, PenaltiesInv, Unscored
  <2>2. \A g \in Scored : scores[g] \in Int
    BY DEF TypeOK, IsScoreMap, Scored
  <2> QED BY <2>1, <2>2 DEF PenaltiesInv, Unscored, Hit, Lowered, Scored
<1>5. CASE GlobalElimination
  <2>1. PICK hit \in SUBSET Scored :
          low' = [low EXCEPT !.global = hit] /\ scores' = Penalized(scores, hit)
    BY <1>5 DEF GlobalElimination
  <2>2. pc = "eliminate" /\ pc' = "merchant" /\ initial' = scores /\ Hit = {}
    BY <1>5 DEF GlobalElimination, PenaltiesInv, Unscored
  <2>3. low'.global = hit /\ low'.merchant = {}
    BY <2>1, <2>2 DEF TypeOK, Hit
  <2>4. Scored' = Scored
    BY <2>1 DEF Scored, Penalized
  <2>5. scores' = Penalized(initial', low'.global)
    BY <2>1, <2>2, <2>3
  <2>6. Penalized(initial', low'.global) = Penalized(initial, low.global)'
    BY DEF Penalized
  <2> QED BY <2>1, <2>2, <2>3, <2>4, <2>5, <2>6 DEF PenaltiesInv, Unscored, Hit
<1>6. CASE MerchantElimination
  <2>1. PICK hit \in SUBSET Scored :
          /\ low' = [low EXCEPT !.merchant = hit]
          /\ \/ scores' = initial /\ hit = Scored
             \/ scores' = Penalized(scores, hit)
    BY <1>6 DEF MerchantElimination
  <2>2. pc = "merchant" /\ pc' = "decide" /\ initial' = initial
    BY <1>6 DEF MerchantElimination
  <2>3. low'.merchant = hit /\ low'.global = low.global
    BY <2>1 DEF TypeOK
  <2>4. Scored' = Scored /\ DOMAIN initial = Scored
    BY <2>1, <2>2 DEF EligibleInv, ScoredAreEligible, Scored, Penalized
  <2>5. Hit' \subseteq Scored'
    BY <2>3, <2>4, <2>1, <2>2 DEF PenaltiesInv, Hit
  <2>6. ASSUME hit # Scored, NEW g \in Scored PROVE Lowered(g)'
    <3>1. scores[g] = IF g \in low.global THEN initial[g] \div 5 ELSE initial[g]
      BY <2>2, <2>4 DEF PenaltiesInv, Penalized
    <3>2. scores'[g] = IF g \in hit THEN scores[g] \div 5 ELSE scores[g]
      BY <2>1, <2>6 DEF Penalized, Scored
    <3>3. initial[g] \in Int
      BY <2>4 DEF TypeOK, IsScoreMap
    <3>4. g \notin low.global \cup hit => scores'[g] = initial[g]
      BY <3>1, <3>2
    <3>5. g \in low.global \cup hit /\ initial[g] > 0 => scores'[g] < initial[g]
      BY <3>1, <3>2, <3>3
    <3> QED BY <2>2, <2>3, <3>3, <3>4, <3>5 DEF Lowered, Hit
  <2> QED BY <2>2, <2>3, <2>4, <2>5, <2>6 DEF PenaltiesInv, Unscored
<1>7. CASE NoGatewayFound
  <2>1. pc' = "error" /\ UNCHANGED <<scores, low>>
    BY <1>7 DEF NoGatewayFound, elimination
  <2> QED BY <2>1 DEF PenaltiesInv, Unscored, Hit, Scored
<1>8. CASE DecideByScore \/ DecideByCost
  <2>1. pc = "decide" /\ pc' = "done" /\ UNCHANGED <<scores, initial, low>>
    BY <1>8, DecisionStep DEF DecisionEffect, elimination
  <2>2. routing'.kind # "multi" => decided' \in Best
    <3>1. CASE DecideByScore
      BY <3>1 DEF DecideByScore, Answer
    <3>2. CASE DecideByCost
      BY <3>2 DEF DecideByCost, Answer, Heads, Approach
    <3> QED BY <1>8, <3>1, <3>2
  <2> QED BY <2>1, <2>2 DEF PenaltiesInv, Unscored, Hit, Lowered, Best, Scored
<1>9. CASE UNCHANGED vars
  BY <1>9 DEF vars, elimination, answer, PenaltiesInv, Hit, Lowered, Penalized, Best, Scored
<1> QED
  BY <1>1, <1>2, <1>3, <1>4, <1>5, <1>6, <1>7, <1>8, <1>9 DEF Next, Scoring

\* A gateway that elimination hit is decided on by its score only if it was ahead of
\* all that were not hit (update_gateway_score_based_on_success_rate).
THEOREM PenaltiesHold == Spec => []PenaltiesNeverPromote
<1>1. TypeOK /\ EligibleInv /\ PenaltiesInv => PenaltiesNeverPromote
  <2> SUFFICES ASSUME TypeOK, EligibleInv, PenaltiesInv, decided \in Hit,
                      routing.kind # "multi", NEW g \in Scored \ Hit, initial[decided] > 0
               PROVE  initial[decided] > initial[g]
    BY DEF PenaltiesNeverPromote, Hit
  <2>1. decided # NoGateway
    BY GatewaysAssumption DEF TypeOK, Hit
  <2>2. pc = "done" /\ decided \in Best
    BY <2>1 DEF EligibleInv, ScoredAreEligible, PenaltiesInv
  <2>3. Lowered(decided) /\ Lowered(g)
    BY <2>2 DEF PenaltiesInv, Best, Hit
  <2>4. /\ scores[g] = initial[g] /\ scores[decided] < initial[decided]
        /\ initial[decided] \in Int
    BY <2>3 DEF Lowered
  <2>5. scores[g] <= scores[decided] /\ scores[g] \in Int /\ scores[decided] \in Int
    BY <2>2 DEF Best, TypeOK, IsScoreMap, Scored
  <2> QED BY <2>4, <2>5
<1> QED
  BY <1>1, TypeInit, TypeStep, EligibleInit, EligibleStep, PenaltiesInit, PenaltiesStep,
     PTL DEF Spec

-----------------------------------------------------------------------------
(* Exploration and cost.                                                    *)

HedgedInv ==
  hedged =>
    /\ pc \in {"outage", "eliminate", "merchant", "decide", "done"}
    /\ Several /\ functional \subseteq Scored
    /\ approach.kind = "hedging"
    /\ pc = "done" => routing.kind = "hedging"

LEMMA HedgedInit == Init => HedgedInv
BY DEF Init, HedgedInv

LEMMA HedgedStep == TypeOK /\ HedgedInv /\ [Next]_vars => HedgedInv'
<1> SUFFICES ASSUME TypeOK, HedgedInv, [Next]_vars PROVE HedgedInv'
  OBVIOUS
<1>1. CASE PreferredGateway \/ PriorityLogic \/ RankBySr \/ Enforce
  <2>1. pc \in Unscored /\ hedged' = hedged
    BY <1>1 DEF PreferredGateway, PriorityLogic, RankBySr, Enforce, Unscored
  <2> QED BY <2>1 DEF HedgedInv, Unscored
<1>2. CASE Scoring
  <2>1. ScoringEffect
    BY <1>2, ScoringStep
  <2>2. ~hedged
    BY <2>1 DEF ScoringEffect, HedgedInv, Unscored
  <2>3. hedged' => /\ pc' = "outage" /\ Several /\ approach' = Approach("hedging")
                   /\ Scored' = functional /\ functional' = functional
    BY <2>1, <2>2 DEF ScoringEffect, TypeOK
  <2> QED BY <2>3 DEF HedgedInv, Several, Approach
<1>3. CASE Outage \/ NoElimination \/ GlobalElimination \/ MerchantElimination
  <2>1. /\ pc' \in {"eliminate", "merchant", "decide"}
        /\ UNCHANGED <<functional, hedged>>
    BY <1>3 DEF Outage, NoElimination, GlobalElimination, MerchantElimination
  <2>2. CASE Outage \/ NoElimination \/ GlobalElimination
    BY <2>1, <2>2 DEF Outage, NoElimination, GlobalElimination, Penalized, HedgedInv, Scored, Several
  <2>3. CASE MerchantElimination
    <3>1. approach.kind = "hedging" => Scored' = Scored
      BY <2>3 DEF MerchantElimination, Penalized, Scored
    <3>2. approach.kind = "hedging" => approach'.kind = "hedging"
      BY <2>3 DEF MerchantElimination, Modified
    <3> QED BY <2>1, <3>1, <3>2 DEF HedgedInv, Several
  <2> QED BY <1>3, <2>2, <2>3
<1>4. CASE NoGatewayFound
  <2>1. hedged => FALSE
    <3>1. Scored = {}
      BY <1>4 DEF NoGatewayFound
    <3>2. hedged => functional = {} /\ Cardinality(functional) > 1
      BY <3>1 DEF HedgedInv, Several
    <3> QED BY <3>2, FS_EmptySet
  <2> QED BY <1>4, <2>1 DEF NoGatewayFound, HedgedInv
<1>5. CASE DecideByScore
  <2>1. hedged => Cardinality(Scored) > 1
    <3>1. IsFiniteSet(Scored) /\ IsFiniteSet(functional)
      BY GatewaysAssumption, FS_Subset DEF TypeOK, IsScoreMap, Scored
    <3>2. hedged => Cardinality(functional) <= Cardinality(Scored)
      BY <3>1, FS_Subset DEF HedgedInv
    <3>3. Cardinality(functional) \in Nat /\ Cardinality(Scored) \in Nat
      BY <3>1, FS_CardinalityType
    <3> QED BY <3>2, <3>3 DEF HedgedInv, Several
  <2> QED BY <1>5, <2>1 DEF DecideByScore, Answer, HedgedInv, Several, Scored, request
<1>6. CASE DecideByCost
  <2>1. ~hedged /\ hedged' = hedged
    BY <1>6 DEF DecideByCost, HedgedInv, IsHedging
  <2> QED BY <2>1 DEF HedgedInv
<1>7. CASE UNCHANGED vars
  BY <1>7 DEF vars, answer, HedgedInv, Several, Scored
<1> QED
  BY <1>1, <1>2, <1>3, <1>4, <1>5, <1>6, <1>7 DEF Next, Scoring

\* What explores is not reordered by cost and keeps its label, whatever elimination
\* finds (is_hedging, modify_gateway_decider_approach).
THEOREM HedgedStays == Spec => []HedgedStaysHedged
<1>1. HedgedInv => HedgedStaysHedged
  BY DEF HedgedInv, HedgedStaysHedged
<1> QED
  BY <1>1, TypeInit, TypeStep, HedgedInit, HedgedStep, PTL DEF Spec

PromotionInv ==
  /\ pc # "done" => approach.kind # "multi" /\ routing.kind # "multi"
  /\ routing.kind = "multi" =>
       /\ cost.head \in Best \cap Ranked(cost)
       /\ decided \in Better(cost)
       /\ cost.margin \in Int
       /\ \A g \in DOMAIN cost.table : cost.table[g] \in Nat

LEMMA PromotionInit == Init => PromotionInv
BY DEF Init, PromotionInv, Approach

LEMMA PromotionStep == PromotionInv /\ [Next]_vars => PromotionInv'
<1> SUFFICES ASSUME PromotionInv, [Next]_vars PROVE PromotionInv'
  OBVIOUS
<1>1. CASE PreferredGateway \/ PriorityLogic \/ RankBySr \/ Enforce \/ NoGatewayFound
  BY <1>1 DEF PreferredGateway, PriorityLogic, RankBySr, Enforce, NoGatewayFound, answer,
              PromotionInv, Approach
<1>2. CASE Scoring
  BY <1>2, ScoringStep DEF ScoringEffect, PromotionInv, Unscored, answer
<1>3. CASE Outage \/ NoElimination \/ GlobalElimination \/ MerchantElimination
  BY <1>3 DEF Outage, NoElimination, GlobalElimination, MerchantElimination, Modified, answer,
              PromotionInv
<1>4. CASE DecideByScore
  <2>1. pc = "decide" /\ pc' = "done" /\ routing'.kind # "multi"
    BY <1>4 DEF DecideByScore, Answer, PromotionInv, Approach
  <2> QED BY <2>1 DEF PromotionInv
<1>5. CASE DecideByCost
  <2>1. PICK table \in CostTables, margin \in Margins, head \in Heads :
          LET c == [table |-> table, margin |-> margin, head |-> head]
          IN  /\ head \in Ranked(c)
              /\ cost' = c
              /\ \/ Better(c) = {} /\ Answer(head, approach)
                 \/ \E g \in Better(c) : Answer(g, Approach("multi"))
    BY <1>5 DEF DecideByCost
  <2> DEFINE c == [table |-> table, margin |-> margin, head |-> head]
  <2>2. pc = "decide" /\ pc' = "done" /\ scores' = scores
    BY <1>5 DEF DecideByCost, Answer
  <2>3. cost' = c /\ head \in Best \cap Ranked(c)
    BY <2>1 DEF Heads
  <2>4. routing'.kind = "multi" => decided' \in Better(c)
    BY <2>1, <2>2 DEF Answer, Approach, PromotionInv
  <2>5. margin \in Int /\ \A g \in DOMAIN table : table[g] \in Nat
    BY CostsAssumption
  <2>6. /\ Best' = Best
        /\ Ranked(cost)' = Ranked(c)
        /\ Better(cost)' = Better(c)
    BY <2>2, <2>3 DEF Best, Scored, Ranked, Better, EV
  <2> QED BY <2>2, <2>3, <2>4, <2>5, <2>6 DEF PromotionInv
<1>6. CASE UNCHANGED vars
  BY <1>6 DEF vars, answer, PromotionInv, Best, Ranked, Better, EV, Scored
<1> QED
  BY <1>1, <1>2, <1>3, <1>4, <1>5, <1>6 DEF Next, Scoring

\* A score that is no higher has a better value only at a lower cost.
LEMMA LowerCost ==
  ASSUME NEW a \in Nat, NEW b \in Int, a <= b, NEW m \in Int, NEW x \in Nat, NEW y \in Nat,
         m >= y, a * (m - x) > b * (m - y)
  PROVE  x < y
<1> SUFFICES ASSUME x >= y PROVE FALSE
  OBVIOUS
<1>1. a * (m - x) <= a * (m - y)
  BY SMT
<1>2. a * (m - y) <= b * (m - y)
  BY SMT
<1> QED BY <1>1, <1>2

\* A promotion by cost goes to a cheaper gateway if the margin covers the head's cost
\* (reorder_for_cost).
THEOREM PromotionsSaveCost == Spec => []PromotionSavesCost
<1>1. TypeOK /\ PromotionInv => PromotionSavesCost
  <2> SUFFICES ASSUME TypeOK, PromotionInv, routing.kind = "multi", scores[decided] >= 0,
                      cost.margin >= cost.table[cost.head]
               PROVE  cost.table[decided] < cost.table[cost.head]
    BY DEF PromotionSavesCost
  <2>1. /\ cost.head \in Best \cap Ranked(cost) /\ decided \in Better(cost)
        /\ cost.margin \in Int /\ \A g \in DOMAIN cost.table : cost.table[g] \in Nat
    BY DEF PromotionInv
  <2>2. decided \in Ranked(cost) /\ EV(decided, cost) > EV(cost.head, cost)
    BY <2>1 DEF Better
  <2>3. /\ scores[decided] \in Int /\ scores[cost.head] \in Int
        /\ scores[decided] <= scores[cost.head]
        /\ cost.table[decided] \in Nat /\ cost.table[cost.head] \in Nat
    BY <2>1, <2>2 DEF TypeOK, IsScoreMap, Best, Ranked, Scored
  <2>4. scores[decided] * (cost.margin - cost.table[decided])
          > scores[cost.head] * (cost.margin - cost.table[cost.head])
    BY <2>2 DEF EV
  <2> QED BY <2>1, <2>3, <2>4, LowerCost
<1> QED
  BY <1>1, TypeInit, TypeStep, PromotionInit, PromotionStep, PTL DEF Spec

-----------------------------------------------------------------------------
(* The cost model decisions are priced with.  Fits of a merchant that       *)
(* overlap leave a snapshot that is right already, or that one of them will *)
(* yet put right; an edit that is alone knows what it has still to do to    *)
(* the lists; and a refresh ends the task it belongs to, and no other.      *)

USE Cost!ServingAssumption DEF Cost!ServingAssumption

\* The statements of a fit that write the model or depend on what they wrote.
Busy == {"clear", "fit", "insert", "count", "purge"}

ServingTypes ==
  /\ day \in Cost!Days
  /\ staged \in [Merchants -> Cost!Rows]
       /\ model \in [Merchants -> [Cost!Days -> Cost!Rows]]
  /\ fit \in [Cost!Fitters -> Cost!FitRecord]
  /\ \A t \in Cost!Fitters : fit[t].pc \in Busy \cup {"stage"} => fit[t].day \in Cost!Days
  /\ fee \in [Merchants -> SUBSET Connectors]
       /\ index \in [Merchants -> SUBSET Connectors]
  /\ globals \subseteq Merchants
  /\ edit \in [Editors -> Cost!EditRecord]
  /\ \A e \in Editors : /\ edit[e].pc = "writeIndex" => edit[e].list \subseteq Connectors
                        /\ edit[e].pc = "writeGlobal" => edit[e].list \subseteq Merchants
  /\ pull = [x \in Cost!Refreshers |-> pull[x]]
  /\ muddled \subseteq Merchants /\ tangled \in BOOLEAN

\* A refresh belongs to a task that has come to it.
PullsAreDue == \A x \in Cost!Refreshers : pull[x].pc # "idle" => Cost!Due(x)

\* The merchant's ingestions whose rows no fit need reflect.
Open(m) == Cost!At(m, {"stage", "failed"})

\* All who fit m write the snapshot of day d, which hides behind no other, and holds
\* nothing but what is staged; it is right, or will be.
OneSnapshot(m, d) ==
  /\ \A t \in Cost!Fitting(m) : fit[t].day = d
  /\ \A e \in Cost!Days : e > d => model[m][e] = Cost!NoRows
  /\ \A c \in Clusters : model[m][d][c] \subseteq staged[m][c]
  /\ Cost!Reflects(model[m][d], m) \/ Cost!Writers(m) # {}

\* Whoever is still to clear the snapshot makes up for what the others do.
Fitted(m) ==
  m \notin muddled =>
    /\ Cost!Fitting(m) = {} => Cost!Reflects(Cost!Latest(model[m]), m)
    /\ Cost!Fitting(m) # {} /\ Cost!At(m, {"clear"}) = {}
         => \E d \in Cost!Days : OneSnapshot(m, d)

\* Overrides, the merchant's list and the global one agree about m.
Agreed(m) == fee[m] = index[m] /\ (m \in globals <=> index[m] # {})

\* What is left to an edit before its next statement.
LeftTo(e) ==
  LET m == edit[e].m
      k == edit[e].k
      put == edit[e].op = "put" IN
  /\ edit[e].pc \in {"readIndex", "writeIndex"} =>
       /\ fee[m] = IF put THEN index[m] \cup {k} ELSE index[m] \ {k}
       /\ m \in globals <=> index[m] # {}
  /\ edit[e].pc = "writeIndex" => edit[e].list = index[m]
  /\ edit[e].pc \in {"prune", "readGlobal", "writeGlobal"} => fee[m] = index[m]
  /\ edit[e].pc = "prune" => ~put /\ (index[m] # {} => m \in globals)
  /\ edit[e].pc \in {"readGlobal", "writeGlobal"} => (index[m] # {} <=> put)
  /\ edit[e].pc = "writeGlobal" => edit[e].list = globals

Untangled ==
  ~tangled =>
    /\ \A e, f \in Cost!Editing : e = f
    /\ \A m \in Merchants : (\A e \in Cost!Editing : edit[e].m # m) => Agreed(m)
    /\ \A e \in Cost!Editing : LeftTo(e)

ServingInv ==
  /\ ServingTypes /\ PullsAreDue
  /\ \A m \in Merchants : Fitted(m)
  /\ Untangled

-----------------------------------------------------------------------------

\* max(report_date) finds the day after which there is no snapshot.
LEMMA LatestIs ==
  ASSUME NEW snapshots, NEW d \in Cost!Days, \A e \in Cost!Days : e > d
           => snapshots[e] = Cost!NoRows,
         snapshots[d] = Cost!NoRows => \A e \in Cost!Days : snapshots[e] = Cost!NoRows
  PROVE  Cost!Latest(snapshots) = snapshots[d]
<1>1. CASE snapshots[d] = Cost!NoRows
  BY <1>1 DEF Cost!Latest
<1>2. CASE snapshots[d] # Cost!NoRows
  <2> DEFINE IsLast(c) == /\ snapshots[c] # Cost!NoRows
                          /\ \A e \in Cost!Days : e > c => snapshots[e] = Cost!NoRows
             last == CHOOSE c \in Cost!Days : IsLast(c)
  <2>1. IsLast(d)
    BY <1>2
  <2>2. last \in Cost!Days /\ IsLast(last)
    <3> HIDE DEF IsLast
    <3> QED BY <2>1
  <2>3. last = d
    BY <1>2, <2>2 DEF Cost!Days
  <2>4. Cost!Latest(snapshots) = snapshots[last]
    BY <1>2 DEF Cost!Latest
  <2> QED BY <2>3, <2>4
<1> QED BY <1>1, <1>2

\* The instance counts as FiniteSets does.
LEMMA CountsAgree ==
  IsFiniteSet(Clusters) /\ \A S : Cost!Cardinality(S) = Cardinality(S)
<1>1. IsFiniteSet(Clusters)
  BY DEF Cost!IsFiniteSet, IsFiniteSet
<1>2. \A S : Cost!Cardinality(S) = Cardinality(S)
  BY DEF Cost!Cardinality, Cardinality
<1> QED BY <1>1, <1>2

\* What CountRows counts is nothing exactly when there are no rows.
LEMMA CountIsRows ==
  ASSUME NEW rows \in Cost!Rows
  PROVE  LET count == Cardinality({c \in Clusters : rows[c] # {}})
         IN count \in Nat /\ (count = 0 <=> rows = Cost!NoRows)
<1> DEFINE S == {c \in Clusters : rows[c] # {}}
<1>1. IsFiniteSet(S)
  BY CountsAgree, FS_Subset
<1>2. Cardinality(S) \in Nat /\ (Cardinality(S) = 0 <=> S = {})
  BY <1>1, FS_CardinalityType, FS_EmptySet
<1>3. S = {} <=> rows = Cost!NoRows
  BY DEF Cost!Rows, Cost!NoRows
<1> QED BY <1>2, <1>3

LEMMA RowsTypes ==
  /\ Cost!NoRows \in Cost!Rows
  /\ \A m \in Merchants : \A v : staged \in [Merchants -> Cost!Rows]
       => Cost!Only(v, staged[m]) \in Cost!Rows
  /\ \A rows, more \in Cost!Rows : Cost!Inserted(rows, more) \in Cost!Rows
  /\ \A rows \in Cost!Rows : Cost!Inserted(Cost!NoRows, rows) = rows
  /\ Cost!AMerchant \in Merchants /\ Cost!AConnector \in Connectors
<1>1. /\ Cost!NoRows \in Cost!Rows
      /\ \A rows, more \in Cost!Rows : Cost!Inserted(rows, more) \in Cost!Rows
      /\ \A rows \in Cost!Rows : Cost!Inserted(Cost!NoRows, rows) = rows
  BY DEF Cost!Rows, Cost!NoRows, Cost!Inserted
<1>2. ASSUME NEW m \in Merchants, NEW v, staged \in [Merchants -> Cost!Rows]
      PROVE  Cost!Only(v, staged[m]) \in Cost!Rows
  <2>1. staged[m] \in Cost!Rows
    BY <1>2
  <2> QED BY <2>1 DEF Cost!Rows, Cost!Only
<1>3. Cost!AMerchant \in Merchants /\ Cost!AConnector \in Connectors
  BY DEF Cost!AMerchant, Cost!AConnector
<1> QED BY <1>1, <1>2, <1>3

-----------------------------------------------------------------------------
(* What a step leaves alone.                                               *)

\* Rows reflect the staging also when ingestions that may be missing stage more.
LEMMA ReflectsMore ==
  ASSUME NEW m \in Merchants, NEW rows, Cost!Reflects(rows, m), Open(m) \subseteq Open(m)',
         \A c \in Clusters : /\ staged[m][c] \subseteq staged'[m][c]
                             /\ \A p \in staged'[m][c] \ staged[m][c] : p[1] \in Open(m)'
  PROVE  \A c \in Clusters : /\ rows[c] \subseteq staged'[m][c]
                             /\ \A p \in staged'[m][c] \ rows[c] : p[1] \in Open(m)'
BY DEF Cost!Reflects, Open

\* A merchant nobody fits for in this step stays fitted, also if more is staged.
LEMMA FitsElsewhere ==
  ASSUME NEW m \in Merchants, Fitted(m), model'[m] = model[m],
         m \notin muddled' => m \notin muddled,
         \A t \in Cost!Fitters :
           /\ t \in Cost!Fitting(m) => fit'[t] = fit[t]
           /\ t \notin Cost!Fitting(m) => fit'[t].m # m \/ fit'[t].pc \notin Busy,
         Open(m) \subseteq Open(m)',
         \A c \in Clusters : /\ staged[m][c] \subseteq staged'[m][c]
                             /\ \A p \in staged'[m][c] \ staged[m][c] : p[1] \in Open(m)'
  PROVE  Fitted(m)'
<1> SUFFICES ASSUME m \notin muddled' PROVE Fitted(m)'
  BY DEF Fitted
<1>1. /\ Cost!Fitting(m)' = Cost!Fitting(m)
      /\ \A t \in Cost!Fitting(m) : t \in Cost!Fitters /\ fit'[t] = fit[t]
  BY DEF Cost!Fitting, Cost!At, Busy
<1>2. /\ Cost!At(m, {"clear"})' = Cost!At(m, {"clear"})
      /\ Cost!At(m, {"clear", "fit"})' = Cost!At(m, {"clear", "fit"})
      /\ Cost!At(m, {"insert"})' = Cost!At(m, {"insert"})
      /\ Cost!At(m, {"insert"}) \subseteq Cost!Fitting(m)
  BY <1>1 DEF Cost!Fitting, Cost!At, Busy
<1>3. Cost!Latest(model[m])' = Cost!Latest(model[m])
  BY DEF Cost!Latest, Cost!NoRows, Cost!Days
<1>4. CASE Cost!Fitting(m) = {}
  <2>1. Cost!Reflects(Cost!Latest(model[m]), m)
    BY <1>4 DEF Fitted
  <2>2. Cost!Reflects(Cost!Latest(model[m]), m)'
    BY <1>3, <2>1, ReflectsMore DEF Cost!Reflects, Open
  <2> QED BY <1>1, <1>4, <2>2 DEF Fitted
<1>5. CASE Cost!Fitting(m) # {} /\ Cost!At(m, {"clear"}) = {}
  <2>1. PICK d \in Cost!Days : OneSnapshot(m, d)
    BY <1>5 DEF Fitted
  <2>2. ASSUME NEW t \in Cost!Writers(m) PROVE t \in Cost!Writers(m)'
    <3>1. CASE t \in Cost!At(m, {"clear", "fit"})
      BY <1>2, <3>1 DEF Cost!Writers
    <3>2. CASE t \in Cost!At(m, {"insert"}) /\ Cost!Reflects(fit[t].stats, m)
      <4>1. fit'[t] = fit[t] /\ t \in Cost!At(m, {"insert"})'
        BY <1>1, <1>2, <3>2
      <4>2. Cost!Reflects(fit[t].stats, m)'
        BY <3>2, <4>1, ReflectsMore DEF Cost!Reflects, Open
      <4> QED BY <4>1, <4>2 DEF Cost!Writers
    <3> QED BY <3>1, <3>2 DEF Cost!Writers
  <2>3. Cost!Reflects(model[m][d], m) => Cost!Reflects(model[m][d], m)'
    BY ReflectsMore DEF Cost!Reflects, Open
  <2>4. OneSnapshot(m, d)'
    <3>1. \A t \in Cost!Fitting(m)' : fit'[t].day = d
      BY <1>1, <2>1 DEF OneSnapshot
    <3>2. /\ \A e \in Cost!Days : e > d => model'[m][e] = Cost!NoRows
          /\ \A c \in Clusters : model'[m][d][c] \subseteq staged'[m][c]
      BY <2>1 DEF OneSnapshot
    <3> QED BY <2>1, <2>2, <2>3, <3>1, <3>2 DEF OneSnapshot, Cost!NoRows, Cost!Days
  <2>5. d \in Cost!Days'
    BY DEF Cost!Days
  <2> QED BY <1>1, <1>2, <1>5, <2>4, <2>5 DEF Fitted
<1> QED BY <1>1, <1>2, <1>4, <1>5 DEF Fitted

LEMMA OverlaysStay ==
  ASSUME Untangled, UNCHANGED <<fee, index, globals, tangled>>,
         \A e \in Editors : \/ edit'[e] = edit[e]
                            \/ edit[e].pc = "refresh" /\ edit'[e].pc = "done"
  PROVE  Untangled'
<1>1. Cost!Editing' = Cost!Editing /\ \A e \in Cost!Editing : edit'[e] = edit[e]
  BY DEF Cost!Editing
<1>2. \A e \in Cost!Editing : LeftTo(e) => LeftTo(e)'
  BY <1>1 DEF LeftTo
<1>3. \A m \in Merchants : Agreed(m) => Agreed(m)'
  BY DEF Agreed
<1> QED BY <1>1, <1>2, <1>3 DEF Untangled

LEMMA PullsStay ==
  ASSUME PullsAreDue, \A x \in Cost!Refreshers : pull'[x].pc # "idle"
           => pull[x].pc # "idle",
         \A t \in Cost!Fitters : fit[t].pc = "refresh" => fit'[t].pc = "refresh",
         \A e \in Editors : edit[e].pc = "refresh" => edit'[e].pc = "refresh"
  PROVE  PullsAreDue'
BY DEF PullsAreDue, Cost!Due

\* The record of one fitter has moved on, with m.
Moved(t, at, m) ==
  /\ fit' \in [Cost!Fitters -> Cost!FitRecord] /\ \A u \in Cost!Fitters \ {t} :
       fit'[u] = fit[u]
  /\ fit'[t].pc = at /\ fit'[t].m = m
  /\ at \in Busy \cup {"stage"} => fit'[t].day \in Cost!Days
  /\ fit[t].pc # "refresh"
  /\ fit[t].pc \in Busy \cup {"stage", "failed"} => fit[t].m = m

LEMMA GotoMoves ==
  ASSUME ServingTypes, NEW t \in Cost!Fitters, NEW at \in Cost!FitPcs, Cost!Goto(t, at),
         fit[t].pc # "refresh",
         fit[t].pc \in Busy \cup {"stage"} \/ at \notin Busy \cup {"stage"}
  PROVE  Moved(t, at, fit[t].m) /\ fit'[t].day = fit[t].day
<1>1. fit \in [Cost!Fitters -> Cost!FitRecord] /\ fit' = [fit EXCEPT ![t].pc = at]
  BY DEF ServingTypes, Cost!Goto
<1>2. [fit[t] EXCEPT !.pc = at] \in Cost!FitRecord
  BY <1>1 DEF Cost!FitRecord
<1> QED BY <1>1, <1>2 DEF Moved, Cost!FitRecord, ServingTypes

LEMMA FitStepKeeps ==
  ASSUME ServingInv, NEW t \in Cost!Fitters, NEW at, NEW m \in Merchants, Moved(t, at, m),
         UNCHANGED <<day, Cost!overlays, pull>>,
         staged' \in [Merchants -> Cost!Rows],
         model' \in [Merchants -> [Cost!Days -> Cost!Rows]],
         muddled' \subseteq Merchants,
         \A n \in Merchants \ {m} : /\ staged'[n] = staged[n] /\ model'[n] = model[n]
                                    /\ n \in muddled' <=> n \in muddled,
         Fitted(m)'
  PROVE  ServingInv'
<1>1. ServingTypes'
  BY DEF ServingInv, ServingTypes, Cost!overlays, Moved
<1>2. PullsAreDue'
  BY PullsStay DEF ServingInv, Cost!overlays, Moved
<1>3. ASSUME NEW n \in Merchants \ {m} PROVE Fitted(n)'
  <2>1. Fitted(n)
    BY DEF ServingInv
  <2>2. ASSUME NEW u \in Cost!Fitters
        PROVE  /\ u \in Cost!Fitting(n) => fit'[u] = fit[u]
               /\ u \notin Cost!Fitting(n) => fit'[u].m # n \/ fit'[u].pc \notin Busy
               /\ u \in Open(n) => u \in Open(n)'
    BY DEF Moved, Cost!Fitting, Cost!At, Open, Busy
  <2>3. Open(n) \subseteq Open(n)'
    BY <2>2 DEF Open, Cost!At
  <2> QED BY <2>1, <2>2, <2>3, FitsElsewhere
<1>4. Untangled'
  BY OverlaysStay DEF ServingInv, Cost!overlays
<1> QED BY <1>1, <1>2, <1>3, <1>4 DEF ServingInv

\* One that does not write what the others do, and at most stages more.
LEMMA QuietFitKeeps ==
  ASSUME ServingInv, NEW t \in Cost!Fitters, NEW at, NEW m \in Merchants, Moved(t, at, m),
         fit[t].pc \notin Busy, at \notin Busy,
         fit[t].pc \in {"stage", "failed"} => at \in {"stage", "failed"},
         UNCHANGED <<day, model, Cost!overlays, pull, muddled>>,
         staged' \in [Merchants -> Cost!Rows],
         \A n \in Merchants \ {m} : staged'[n] = staged[n],
         \A c \in Clusters : /\ staged[m][c] \subseteq staged'[m][c]
                             /\ \A p \in staged'[m][c] \ staged[m][c] : p[1] \in Open(m)'
  PROVE  ServingInv'
<1>1. ASSUME NEW u \in Cost!Fitters
      PROVE  /\ u \in Cost!Fitting(m) => fit'[u] = fit[u]
             /\ u \notin Cost!Fitting(m) => fit'[u].m # m \/ fit'[u].pc \notin Busy
             /\ u \in Open(m) => u \in Open(m)'
  BY DEF Cost!Fitting, Cost!At, Open, Moved, Busy
<1>2. Open(m) \subseteq Open(m)'
  BY <1>1 DEF Open, Cost!At
<1>3. Fitted(m)'
  BY <1>1, <1>2, FitsElsewhere DEF ServingInv
<1> QED BY <1>3, FitStepKeeps DEF ServingInv, ServingTypes

\* While another fit is still to clear the snapshot, this one can do no harm.
LEMMA ClearingIsFitted ==
  ASSUME NEW m \in Merchants, NEW t \in Cost!Fitters, fit'[t].m = m, fit'[t].pc = "clear"
  PROVE  Fitted(m)'
<1>1. t \in Cost!At(m, {"clear"})' /\ t \in Cost!Fitting(m)'
  BY DEF Cost!At, Cost!Fitting
<1> QED BY <1>1 DEF Fitted

LEMMA ToClearIsFitted ==
  ASSUME NEW t \in Cost!Fitters, NEW at, NEW m \in Merchants, Moved(t, at, m),
         Cost!At(m, {"clear"}) \ {t} # {}
  PROVE  Fitted(m)'
<1>1. PICK u \in Cost!Fitters \ {t} : fit[u].m = m /\ fit[u].pc = "clear"
  BY DEF Cost!At
<1>2. fit'[u].m = m /\ fit'[u].pc = "clear"
  BY <1>1 DEF Moved
<1> QED BY <1>2, ClearingIsFitted

\* What a step that may leave the snapshot wrong makes of the merchants.
LEMMA MuddleIs ==
  ASSUME ServingTypes, NEW t \in Cost!Fitters, NEW m \in Merchants, fit[t].m = m,
         NEW wrong, Cost!Muddle(t, wrong)
  PROVE  /\ muddled' \subseteq Merchants
         /\ \A n \in Merchants \ {m} : n \in muddled' <=> n \in muddled
         /\ m \notin muddled' => /\ m \notin muddled
                                 /\ wrong => Cost!At(m, {"clear"}) \ {t} # {}
BY DEF Cost!Muddle, ServingTypes

\* A fit that fails muddles its merchant, unless another is still to clear.
LEMMA FailureKeeps ==
  ASSUME ServingInv, NEW t \in Cost!Fitters, Cost!FitFails(t), fit[t].pc \in Busy,
         UNCHANGED <<day, staged, model, Cost!overlays, pull>>
  PROVE  ServingInv'
<1>1. PICK m \in Merchants : fit[t].m = m
  BY DEF ServingInv, ServingTypes, Cost!FitRecord
<1>2. Moved(t, Cost!AfterFailure(t), m)
  BY <1>1, GotoMoves DEF ServingInv, Cost!FitFails, Cost!AfterFailure, Cost!FitPcs,
     Busy
<1>3. /\ muddled' \subseteq Merchants
      /\ \A n \in Merchants \ {m} : n \in muddled' <=> n \in muddled
      /\ m \notin muddled' => Cost!At(m, {"clear"}) \ {t} # {}
  BY <1>1, MuddleIs DEF ServingInv, Cost!FitFails
<1>4. Fitted(m)'
  <2>1. CASE m \in muddled'
    BY <2>1 DEF Fitted
  <2>2. CASE m \notin muddled'
    BY <1>2, <1>3, <2>2, ToClearIsFitted
  <2> QED BY <2>1, <2>2
<1> QED BY <1>2, <1>3, <1>4, FitStepKeeps DEF ServingInv, ServingTypes

-----------------------------------------------------------------------------
(* Fits.                                                                   *)

\* A task that starts with the merchant of a record.
LEMMA StartMoves ==
  ASSUME ServingTypes, NEW t \in Cost!Fitters, fit[t].pc = "idle",
         NEW at \in {"stage", "clear"},
         NEW m \in Merchants,
         fit' = [fit EXCEPT ![t] = [Cost!IdleFit EXCEPT !.pc = at, !.m = m, !.day = day]]
  PROVE  Moved(t, at, m)
<1>1. Cost!IdleFit \in Cost!FitRecord
  BY RowsTypes DEF Cost!IdleFit, Cost!FitRecord, Cost!FitPcs
<1>2. day \in Cost!Days /\ day \in 0..MaxDay /\ fit \in [Cost!Fitters -> Cost!FitRecord]
  BY DEF ServingTypes, Cost!Days
<1>3. PICK new : new = [Cost!IdleFit EXCEPT !.pc = at, !.m = m, !.day = day]
  OBVIOUS
<1>4. new \in Cost!FitRecord /\ new.pc = at /\ new.m = m /\ new.day = day
  BY <1>1, <1>2, <1>3 DEF Cost!FitRecord, Cost!FitPcs
<1> QED BY <1>2, <1>3, <1>4 DEF Moved, Busy

LEMMA StartIngestStep ==
  ASSUME ServingInv, NEW t \in Ingests, Cost!StartIngest(t)
  PROVE  ServingInv'
<1>1. PICK m \in Merchants :
        fit' = [fit EXCEPT ![t] = [Cost!IdleFit EXCEPT !.pc = "stage", !.m = m,
          !.day = day]]
  BY DEF Cost!StartIngest
<1>2. t \in Cost!Fitters /\ Moved(t, "stage", m) /\ fit[t].pc = "idle"
  BY <1>1, StartMoves DEF ServingInv, Cost!StartIngest, Cost!Fitters
<1> QED BY <1>2, QuietFitKeeps DEF Cost!StartIngest, Cost!tables, Busy, ServingInv,
                                 ServingTypes

LEMMA StagingEndsMoves ==
  ASSUME ServingTypes, NEW t \in Cost!Fitters, NEW at \in {"failed", "clear"},
         Cost!StagingEnds(t, at), fit[t].pc = "stage"
  PROVE  Moved(t, at, fit[t].m)
<1>1. fit \in [Cost!Fitters -> Cost!FitRecord] /\ at \in Cost!FitPcs
  BY DEF ServingTypes, Cost!FitPcs
<1>2. [fit[t] EXCEPT !.pc = at, !.chunks = 0] \in Cost!FitRecord
  BY <1>1 DEF Cost!FitRecord
<1> QED BY <1>1, <1>2 DEF Cost!StagingEnds, Moved, Cost!FitRecord, ServingTypes, Busy

LEMMA StageChunkStep ==
  ASSUME ServingInv, NEW t \in Ingests, Cost!StageChunk(t)
  PROVE  ServingInv'
<1>1. PICK m \in Merchants : fit[t].m = m
  BY DEF ServingInv, ServingTypes, Cost!FitRecord, Cost!Fitters
<1>2. /\ t \in Cost!Fitters /\ ServingTypes /\ fit[t].pc = "stage"
      /\ fit \in [Cost!Fitters -> Cost!FitRecord]
      /\ UNCHANGED <<day, model, Cost!overlays, pull, muddled>>
  BY DEF Cost!StageChunk, Cost!Fitters, ServingInv, ServingTypes
<1>3. PICK chunk \in Nat \ {0} : chunk = fit[t].chunks + 1
  <2>1. fit[t].chunks \in Nat
    BY <1>2 DEF Cost!FitRecord
  <2> QED BY <2>1
<1> DEFINE new(cs) == [c \in Clusters |-> IF c \in cs THEN staged[m][c] \cup {<<t, chunk>>}
                                         ELSE staged[m][c]]
<1>4. /\ \/ UNCHANGED staged
         \/ /\ chunk <= MaxChunks
            /\ \E cs \in SUBSET Clusters : staged' = [staged EXCEPT ![m] = new(cs)]
      /\ fit' = [fit EXCEPT ![t].chunks = chunk] \/ Cost!StagingEnds(t, "failed")
  BY <1>1, <1>3 DEF Cost!StageChunk
<1>5. PICK at \in {"stage", "failed"} : Moved(t, at, m)
  <2>1. CASE fit' = [fit EXCEPT ![t].chunks = chunk]
    <3>1. [fit[t] EXCEPT !.chunks = chunk] \in Cost!FitRecord
      BY <1>2 DEF Cost!FitRecord
    <3>2. Moved(t, "stage", m)
      BY <1>1, <1>2, <2>1, <3>1 DEF Moved, Cost!FitRecord, ServingTypes
    <3> QED BY <3>2
  <2>2. CASE Cost!StagingEnds(t, "failed")
    BY <1>1, <1>2, <2>2, StagingEndsMoves
  <2> QED BY <1>4, <2>1, <2>2
<1>6. t \in Open(m)'
  BY <1>2, <1>5 DEF Moved, Open, Cost!At
<1>7. /\ staged' \in [Merchants -> Cost!Rows]
      /\ \A n \in Merchants \ {m} : staged'[n] = staged[n]
      /\ \A c \in Clusters : /\ staged[m][c] \subseteq staged'[m][c]
                             /\ \A p \in staged'[m][c] \ staged[m][c] : p[1] \in Open(m)'
  <2>1. CASE UNCHANGED staged
    BY <1>2, <2>1 DEF ServingTypes
  <2>2. ASSUME chunk <= MaxChunks, NEW cs \in SUBSET Clusters,
               staged' = [staged EXCEPT ![m] = new(cs)]
        PROVE  <1>7!1 /\ <1>7!2 /\ <1>7!3
    <3>1. <<t, chunk>> \in Cost!Pieces /\ staged[m] \in Cost!Rows
      BY <1>2, <2>2 DEF Cost!Pieces, ServingTypes
    <3>2. new(cs) \in Cost!Rows
      BY <3>1 DEF Cost!Rows
    <3>3. staged'[m] = new(cs) /\ \A n \in Merchants \ {m} : staged'[n] = staged[n]
      BY <1>2, <2>2 DEF ServingTypes
    <3>4. <<t, chunk>>[1] = t
      OBVIOUS
    <3> QED BY <1>2, <1>6, <2>2, <3>2, <3>3, <3>4 DEF ServingTypes
  <2> QED BY <1>4, <2>1, <2>2
<1> QED BY <1>2, <1>5, <1>7, QuietFitKeeps DEF Busy

LEMMA EndStagingStep ==
  ASSUME ServingInv, NEW t \in Ingests, Cost!EndStaging(t)
  PROVE  ServingInv'
<1>1. PICK m \in Merchants : fit[t].m = m
  BY DEF ServingInv, ServingTypes, Cost!FitRecord, Cost!Fitters
<1>2. /\ t \in Cost!Fitters /\ ServingTypes
      /\ UNCHANGED <<day, staged, model, Cost!overlays, pull, muddled>>
  BY DEF Cost!EndStaging, Cost!Fitters, Cost!tables, ServingInv
<1>3. Moved(t, "clear", m)
  BY <1>1, <1>2, StagingEndsMoves DEF Cost!EndStaging
<1>4. Fitted(m)'
  BY <1>2, <1>3, ClearingIsFitted DEF Moved
<1> QED BY <1>2, <1>3, <1>4, FitStepKeeps DEF ServingTypes

LEMMA DeleteRowsStep ==
  ASSUME ServingInv, NEW t \in Undos, Cost!DeleteRows(t)
  PROVE  ServingInv'
<1>1. PICK r \in Ingests :
        /\ staged' = [staged EXCEPT ![fit[r].m] = [c \in Clusters |-> {p \in @[c] : p[1] # r}]]
        /\ fit' = [fit EXCEPT ![t] = [Cost!IdleFit EXCEPT !.pc = "clear", !.m = fit[r].m,
                                                     !.day = day]]
  BY DEF Cost!DeleteRows
<1>2. PICK m \in Merchants : fit[r].m = m
  BY DEF ServingInv, ServingTypes, Cost!FitRecord, Cost!Fitters
<1>3. /\ t \in Cost!Fitters /\ ServingTypes /\ fit[t].pc = "idle"
      /\ UNCHANGED <<day, model, Cost!overlays, pull, muddled>>
  BY DEF Cost!DeleteRows, Cost!Fitters, ServingInv
<1>4. Moved(t, "clear", m)
  BY <1>1, <1>2, <1>3, StartMoves
<1>5. staged' \in [Merchants -> Cost!Rows] /\ \A n \in Merchants \ {m} :
        staged'[n] = staged[n]
  <2>1. [c \in Clusters |-> {p \in staged[m][c] : p[1] # r}] \in Cost!Rows
    BY <1>3 DEF ServingTypes, Cost!Rows
  <2> QED BY <1>1, <1>2, <1>3, <2>1 DEF ServingTypes
<1>6. Fitted(m)'
  BY <1>3, <1>4, ClearingIsFitted DEF Moved
<1> QED BY <1>3, <1>4, <1>5, <1>6, FitStepKeeps DEF ServingTypes

LEMMA ClearSnapshotStep ==
  ASSUME ServingInv, NEW t \in Cost!Fitters, Cost!ClearSnapshot(t)
  PROVE  ServingInv'
<1>1. PICK m \in Merchants : fit[t].m = m
  BY DEF ServingInv, ServingTypes, Cost!FitRecord
<1>0. PICK d \in Cost!Days : fit[t].day = d
  BY DEF Cost!ClearSnapshot, ServingInv, Busy, ServingTypes
<1>2. /\ ServingTypes /\ fit[t].pc = "clear" /\ fit[t].pc \in Busy
      /\ UNCHANGED <<day, staged, Cost!overlays, pull>>
  BY DEF Cost!ClearSnapshot, ServingInv, Busy, ServingTypes
<1>3. ASSUME model' = [model EXCEPT ![m] = Cost!Cleared(@, d)], Cost!Goto(t, "fit"),
             muddled' = IF Cost!Undisturbed(t) THEN muddled \ {m} ELSE muddled \cup {m}
      PROVE  ServingInv'
  <2>1. Moved(t, "fit", m) /\ fit'[t].day = d
    BY <1>0, <1>1, <1>2, <1>3, GotoMoves DEF Cost!FitPcs
  <2>2. muddled' \subseteq Merchants /\ \A n \in Merchants \ {m} :
          n \in muddled' <=> n \in muddled
    BY <1>0, <1>2, <1>3 DEF ServingTypes
  <2>3. /\ model' \in [Merchants -> [Cost!Days -> Cost!Rows]]
        /\ \A n \in Merchants \ {m} : model'[n] = model[n]
        /\ model'[m][d] = Cost!NoRows
        /\ \A e \in Cost!Days \ {d} : model'[m][e] = model[m][e]
    BY <1>0, <1>2, <1>3, RowsTypes DEF ServingTypes, Cost!Cleared
  <2>4. Fitted(m)'
    <3> SUFFICES ASSUME m \notin muddled' PROVE Fitted(m)'
      BY DEF Fitted
    <3>1. /\ \A u \in Cost!Fitting(m) : fit[u].day = d
          /\ \A e \in Cost!Days : e > d => model[m][e] = Cost!NoRows
      BY <1>0, <1>1, <1>3 DEF Cost!Undisturbed
    <3>2. \A u \in Cost!Fitting(m)' : fit'[u].day = d
      BY <2>1, <3>1 DEF Cost!Fitting, Cost!At, Moved
    <3>3. \A e \in Cost!Days : e > d => model'[m][e] = Cost!NoRows
      BY <1>0, <1>2, <2>3, <3>1 DEF Cost!Days
    <3>4. t \in Cost!Writers(m)' /\ t \in Cost!Fitting(m)'
      BY <2>1 DEF Cost!Writers, Cost!Fitting, Cost!At, Moved
    <3>5. OneSnapshot(m, d)'
      BY <1>0, <1>2, <2>3, <3>2, <3>3, <3>4 DEF OneSnapshot, Cost!NoRows, Cost!Days
    <3> QED BY <1>0, <1>2, <3>4, <3>5 DEF Fitted, Cost!Days
  <2> QED BY <1>0, <1>2, <2>1, <2>2, <2>3, <2>4, FitStepKeeps DEF ServingTypes
<1> QED BY <1>0, <1>1, <1>2, <1>3, FailureKeeps DEF Cost!ClearSnapshot

\* A fit that is past clearing, of a merchant that is not muddled, meets one snapshot.
LEMMA MeetsSnapshot ==
  ASSUME ServingInv, NEW t \in Cost!Fitters, NEW m \in Merchants, fit[t].m = m,
         fit[t].pc \in Busy \ {"clear"}, m \notin muddled, Cost!At(m, {"clear"}) = {}
  PROVE  fit[t].day \in Cost!Days /\ OneSnapshot(m, fit[t].day)
<1>1. t \in Cost!Fitting(m)
  BY DEF Cost!Fitting, Cost!At, Busy
<1>2. PICK d \in Cost!Days : OneSnapshot(m, d)
  BY <1>1 DEF ServingInv, Fitted
<1> QED BY <1>1, <1>2 DEF OneSnapshot

\* Where somebody is to clear there is nothing more to show.
LEMMA PastClearing ==
  ASSUME NEW t \in Cost!Fitters, NEW at, NEW m \in Merchants, Moved(t, at, m),
         fit[t].pc # "clear", m \notin muddled' => m \notin muddled,
         m \notin muddled' /\ Cost!At(m, {"clear"}) = {} => Fitted(m)'
  PROVE  Fitted(m)'
<1>1. CASE m \in muddled'
  BY <1>1 DEF Fitted
<1>2. CASE Cost!At(m, {"clear"}) # {}
  <2>1. Cost!At(m, {"clear"}) \ {t} # {}
    BY <1>2 DEF Cost!At
  <2> QED BY <2>1, ToClearIsFitted
<1> QED BY <1>1, <1>2

LEMMA ReadRowsStep ==
  ASSUME ServingInv, NEW t \in Cost!Fitters, Cost!ReadRows(t)
  PROVE  ServingInv'
<1>1. PICK m \in Merchants : fit[t].m = m
  BY DEF ServingInv, ServingTypes, Cost!FitRecord
<1>0. PICK d \in Cost!Days : fit[t].day = d
  BY DEF Cost!ReadRows, ServingInv, Busy, ServingTypes
<1>2. /\ ServingTypes /\ fit[t].pc = "fit"
      /\ UNCHANGED <<day, staged, model, Cost!overlays, pull, muddled>>
      /\ fit' = [fit EXCEPT ![t].pc = "insert", ![t].stats = staged[m]]
  BY <1>0, <1>1 DEF Cost!ReadRows, Cost!tables, ServingInv
<1>3. Moved(t, "insert", m) /\ fit'[t].day = d /\ fit'[t].stats = staged[m]
  <2>1. fit \in [Cost!Fitters -> Cost!FitRecord] /\ staged[m] \in Cost!Rows
    BY <1>0, <1>2 DEF ServingTypes
  <2>2. [fit[t] EXCEPT !.pc = "insert", !.stats = staged[m]] \in Cost!FitRecord
    BY <2>1 DEF Cost!FitRecord, Cost!FitPcs
  <2> QED BY <1>0, <1>1, <1>2, <2>1, <2>2 DEF Moved, Cost!FitRecord, ServingTypes, Busy
<1>4. ASSUME m \notin muddled', Cost!At(m, {"clear"}) = {} PROVE Fitted(m)'
  <2>1. d \in Cost!Days /\ OneSnapshot(m, d)
    BY <1>0, <1>1, <1>2, <1>4, MeetsSnapshot DEF Busy
  <2>2. t \in Cost!Fitting(m)' /\ \A u \in Cost!Fitting(m)' : fit'[u].day = d
    BY <1>0, <1>1, <1>2, <1>3, <2>1 DEF OneSnapshot, Cost!Fitting, Cost!At, Moved
  <2>3. t \in Cost!Writers(m)'
    BY <1>0, <1>2, <1>3 DEF Cost!Writers, Cost!At, Cost!Reflects, Moved
  <2>4. OneSnapshot(m, d)'
    BY <1>0, <1>2, <2>1, <2>2, <2>3 DEF OneSnapshot, Cost!NoRows, Cost!Days
  <2> QED BY <2>1, <2>2, <2>4 DEF Fitted, Cost!Days
<1>5. Fitted(m)'
  BY <1>0, <1>2, <1>3, <1>4, PastClearing
<1> QED BY <1>0, <1>2, <1>3, <1>5, FitStepKeeps DEF ServingTypes

LEMMA InsertRowsStep ==
  ASSUME ServingInv, NEW t \in Cost!Fitters, Cost!InsertRows(t)
  PROVE  ServingInv'
<1>1. PICK m \in Merchants : fit[t].m = m
  BY DEF ServingInv, ServingTypes, Cost!FitRecord
<1>0. PICK d \in Cost!Days : fit[t].day = d
  BY DEF Cost!InsertRows, ServingInv, Busy, ServingTypes
<1>5. PICK rows \in Cost!Rows : fit[t].stats = rows
  BY DEF ServingInv, ServingTypes, Cost!FitRecord
<1>2. /\ ServingTypes /\ fit[t].pc = "insert" /\ fit[t].pc \in Busy
      /\ UNCHANGED <<day, staged, Cost!overlays, pull>>
  BY DEF Cost!InsertRows, ServingInv, Busy, ServingTypes, Cost!FitRecord
<1>3. ASSUME model' = [model EXCEPT ![m][d] = Cost!Inserted(@, rows)],
             fit' = [fit EXCEPT ![t].pc = "count", ![t].stats = Cost!NoRows],
             Cost!Muddle(t, ~Cost!Reflects(rows, m))
      PROVE  ServingInv'
  <2>1. Moved(t, "count", m) /\ fit'[t].day = d
    <3>1. fit \in [Cost!Fitters -> Cost!FitRecord]
      BY <1>0, <1>5, <1>2 DEF ServingTypes
    <3>2. [fit[t] EXCEPT !.pc = "count", !.stats = Cost!NoRows] \in Cost!FitRecord
      BY <3>1, RowsTypes DEF Cost!FitRecord, Cost!FitPcs
    <3> QED BY <1>0, <1>5, <1>1, <1>2, <1>3, <3>1, <3>2 DEF Moved, Cost!FitRecord
  <2>2. /\ model' \in [Merchants -> [Cost!Days -> Cost!Rows]]
        /\ \A n \in Merchants \ {m} : model'[n] = model[n]
        /\ model'[m][d] = Cost!Inserted(model[m][d], rows)
        /\ \A e \in Cost!Days \ {d} : model'[m][e] = model[m][e]
    <3>1. Cost!Inserted(model[m][d], rows) \in Cost!Rows
      BY <1>0, <1>5, <1>2, RowsTypes DEF ServingTypes
    <3> QED BY <1>0, <1>5, <1>2, <1>3, <3>1 DEF ServingTypes
  <2>3. /\ muddled' \subseteq Merchants
        /\ \A n \in Merchants \ {m} : n \in muddled' <=> n \in muddled
        /\ m \notin muddled' => m \notin muddled
        /\ m \notin muddled' => Cost!Reflects(rows, m)
                                  \/ Cost!At(m, {"clear"}) \ {t} # {}
    BY <1>0, <1>5, <1>1, <1>2, <1>3, MuddleIs
  <2>4. ASSUME m \notin muddled', Cost!At(m, {"clear"}) = {} PROVE Fitted(m)'
    <3>1. OneSnapshot(m, d) /\ Cost!Reflects(rows, m)
      BY <1>0, <1>5, <1>1, <1>2, <2>3, <2>4, MeetsSnapshot
    <3>2. t \in Cost!Fitting(m)' /\ \A u \in Cost!Fitting(m)' : fit'[u].day = d
      BY <1>0, <1>5, <1>1, <1>2, <2>1, <3>1 DEF OneSnapshot, Cost!Fitting, Cost!At, Moved
    <3>3. \A e \in Cost!Days : e > d => model'[m][e] = Cost!NoRows
      <4>1. \A e \in Cost!Days : e > d => e # d /\ model[m][e] = Cost!NoRows
        BY <1>0, <1>5, <1>2, <3>1 DEF OneSnapshot, Cost!Days
      <4> QED BY <2>2, <4>1
    <3>4. Open(m)' = Open(m)
      BY <1>0, <1>5, <1>2, <2>1 DEF Open, Cost!At, Moved, Busy
    <3>5. ASSUME NEW c \in Clusters
          PROVE  /\ model'[m][d][c] \subseteq staged'[m][c]
                 /\ \A p \in staged'[m][c] \ model'[m][d][c] : p[1] \in Open(m)'
      <4>1. model'[m][d][c] = IF rows[c] = {} THEN model[m][d][c] ELSE rows[c]
        BY <2>2 DEF Cost!Inserted
      <4>2. /\ model[m][d][c] \subseteq staged[m][c] /\ rows[c] \subseteq staged[m][c]
            /\ \A p \in staged[m][c] \ rows[c] : p[1] \in Open(m)
        BY <3>1 DEF OneSnapshot, Cost!Reflects, Open
      <4> QED BY <1>0, <1>5, <1>2, <3>4, <4>1, <4>2
    <3>6. Cost!Reflects(model[m][d], m)'
      BY <1>0, <1>5, <1>2, <2>1, <3>5 DEF Cost!Reflects, Open
    <3>7. OneSnapshot(m, d)'
      BY <2>1, <3>2, <3>3, <3>5, <3>6 DEF OneSnapshot, Cost!NoRows, Cost!Days
    <3> QED BY <1>0, <1>5, <1>2, <3>2, <3>7 DEF Fitted, Cost!Days
  <2>5. Fitted(m)'
    BY <1>0, <1>5, <1>2, <2>1, <2>3, <2>4, PastClearing
  <2> QED BY <1>0, <1>5, <1>2, <2>1, <2>2, <2>3, <2>5, FitStepKeeps DEF ServingTypes
<1> QED BY <1>0, <1>5, <1>1, <1>2, <1>3, FailureKeeps DEF Cost!InsertRows

\* The writers of a snapshot stay when another fit, which is none, moves on.
LEMMA WritersStay ==
  ASSUME NEW t \in Cost!Fitters, NEW at, NEW m \in Merchants, Moved(t, at, m),
         fit[t].pc \in {"count", "purge"}, at \notin {"stage", "failed"}, staged' = staged
  PROVE  /\ Cost!Writers(m) \subseteq Cost!Writers(m)' /\ Open(m)' = Open(m)
         /\ Cost!Writers(m)' \subseteq Cost!Fitting(m)'
<1>1. Open(m)' = Open(m)
  BY DEF Open, Cost!At, Moved
<1>2. ASSUME NEW u \in Cost!Writers(m) PROVE u \in Cost!Writers(m)'
  <2>1. /\ u \in Cost!Fitters /\ fit'[u] = fit[u]
        /\ \/ u \in Cost!At(m, {"clear", "fit"})
           \/ u \in Cost!At(m, {"insert"}) /\ Cost!Reflects(fit[u].stats, m)
    BY DEF Cost!Writers, Cost!At, Moved
  <2>2. Cost!Reflects(fit[u].stats, m) => Cost!Reflects(fit[u].stats, m)'
    BY <1>1, <2>1 DEF Cost!Reflects, Open
  <2> QED BY <2>1, <2>2 DEF Cost!Writers, Cost!At
<1>3. Cost!Writers(m)' \subseteq Cost!Fitting(m)'
  BY DEF Cost!Writers, Cost!Fitting, Cost!At
<1> QED BY <1>1, <1>2, <1>3

\* The last to leave a snapshot leaves it right.
LEMMA LeftIsFitted ==
  ASSUME NEW m \in Merchants, NEW d \in Cost!Days, OneSnapshot(m, d)',
         Cost!Writers(m)' \subseteq Cost!Fitting(m)',
         Cost!Fitting(m)' = {} => Cost!Latest(model'[m]) = model'[m][d]
  PROVE  Fitted(m)'
<1>1. CASE Cost!Fitting(m)' = {}
  <2>1. Cost!Reflects(model[m][d], m)'
    BY <1>1 DEF OneSnapshot
  <2>2. Cost!Latest(model[m])' = model'[m][d]
    BY <1>1 DEF Cost!Latest, Cost!NoRows, Cost!Days
  <2>3. Cost!Reflects(Cost!Latest(model[m]), m)'
    BY <2>1, <2>2 DEF Cost!Reflects
  <2> QED BY <1>1, <2>3 DEF Fitted
<1>2. CASE Cost!Fitting(m)' # {}
  BY <1>2 DEF Fitted, Cost!Days
<1> QED BY <1>1, <1>2

LEMMA CountRowsStep ==
  ASSUME ServingInv, NEW t \in Cost!Fitters, Cost!CountRows(t)
  PROVE  ServingInv'
<1>1. PICK m \in Merchants : fit[t].m = m
  BY DEF ServingInv, ServingTypes, Cost!FitRecord
<1>2. PICK d \in Cost!Days : fit[t].day = d
  BY DEF Cost!CountRows, ServingInv, Busy, ServingTypes
<1>3. /\ ServingTypes /\ fit[t].pc = "count" /\ fit[t].pc \in Busy
      /\ UNCHANGED <<day, staged, model, Cost!overlays, pull>>
  BY DEF Cost!CountRows, ServingInv, Busy, Cost!tables
<1>4. PICK count : count = Cardinality({c \in Clusters : model[m][d][c] # {}})
  OBVIOUS
<1>5. count = 0 <=> model[m][d] = Cost!NoRows
  <2>1. model[m][d] \in Cost!Rows
    BY <1>3 DEF ServingTypes
  <2> QED BY <1>4, <2>1, CountIsRows
<1>6. ASSUME NEW at \in {"purge", "clearTiers"},
             at = IF Cost!ShouldPurge(count) THEN "purge" ELSE "clearTiers",
             Cost!Goto(t, at), UNCHANGED muddled
      PROVE  ServingInv'
  <2>1. Moved(t, at, m) /\ fit'[t].day = d
    BY <1>1, <1>2, <1>3, <1>6, GotoMoves DEF Cost!FitPcs
  <2>2. ASSUME m \notin muddled', Cost!At(m, {"clear"}) = {} PROVE Fitted(m)'
    <3>1. OneSnapshot(m, d)
      BY <1>1, <1>2, <1>3, <1>6, <2>2, MeetsSnapshot
    <3>2. /\ Cost!Writers(m) \subseteq Cost!Writers(m)' /\ Open(m)' = Open(m)
          /\ Cost!Writers(m)' \subseteq Cost!Fitting(m)'
      BY <1>3, <1>6, <2>1, WritersStay
    <3>3. \A u \in Cost!Fitting(m)' : fit'[u].day = d
      BY <1>3, <2>1, <3>1 DEF OneSnapshot, Cost!Fitting, Cost!At, Moved
    <3>4. Cost!Reflects(model[m][d], m) => Cost!Reflects(model[m][d], m)'
      BY <1>3, <3>2 DEF Cost!Reflects, Open
    <3>5. OneSnapshot(m, d)'
      BY <1>3, <3>1, <3>2, <3>3, <3>4 DEF OneSnapshot, Cost!NoRows, Cost!Days
    <3>6. ASSUME Cost!Fitting(m)' = {} PROVE Cost!Latest(model[m]) = model[m][d]
      <4>1. at = "clearTiers"
        BY <1>6, <2>1, <3>6 DEF Cost!Fitting, Cost!At, Moved
      <4>2. model[m][d] # Cost!NoRows
        BY <1>5, <1>6, <4>1 DEF Cost!ShouldPurge
      <4> QED BY <3>1, <4>2, LatestIs DEF OneSnapshot
    <3> QED BY <1>3, <3>2, <3>5, <3>6, LeftIsFitted
  <2>3. Fitted(m)'
    BY <1>3, <1>6, <2>1, <2>2, PastClearing
  <2> QED BY <1>3, <1>6, <2>1, <2>3, FitStepKeeps DEF ServingTypes
<1>7. CASE Cost!FitFails(t)
  BY <1>3, <1>7, FailureKeeps
<1>8. PICK at \in {"purge", "clearTiers"} :
        at = IF Cost!ShouldPurge(count) THEN "purge" ELSE "clearTiers"
  OBVIOUS
<1>9. Cost!FitFails(t) \/ (Cost!Goto(t, at) /\ UNCHANGED muddled)
  BY <1>1, <1>2, <1>4, <1>8, CountsAgree DEF Cost!CountRows
<1> QED BY <1>6, <1>7, <1>8, <1>9

LEMMA PurgeModelStep ==
  ASSUME ServingInv, NEW t \in Cost!Fitters, Cost!PurgeModel(t)
  PROVE  ServingInv'
<1>1. PICK m \in Merchants : fit[t].m = m
  BY DEF ServingInv, ServingTypes, Cost!FitRecord
<1>2. PICK d \in Cost!Days : fit[t].day = d
  BY DEF Cost!PurgeModel, ServingInv, Busy, ServingTypes
<1>3. /\ ServingTypes /\ fit[t].pc = "purge" /\ fit[t].pc \in Busy
      /\ UNCHANGED <<day, staged, Cost!overlays, pull>>
  BY DEF Cost!PurgeModel, ServingInv, Busy
<1>4. ASSUME model' = [model EXCEPT ![m] = [e \in Cost!Days |-> Cost!NoRows]],
             Cost!Goto(t, "clearTiers"),
             Cost!Muddle(t, ~Cost!Reflects(Cost!NoRows, m) /\ Cost!Writers(m) = {})
      PROVE  ServingInv'
  <2>1. Moved(t, "clearTiers", m)
    BY <1>1, <1>3, <1>4, GotoMoves DEF Cost!FitPcs, Busy
  <2>2. /\ model' \in [Merchants -> [Cost!Days -> Cost!Rows]]
        /\ \A n \in Merchants \ {m} : model'[n] = model[n]
        /\ model'[m] = [e \in Cost!Days |-> Cost!NoRows]
    BY <1>3, <1>4, RowsTypes DEF ServingTypes
  <2>3. /\ muddled' \subseteq Merchants
        /\ \A n \in Merchants \ {m} : n \in muddled' <=> n \in muddled
        /\ m \notin muddled' => m \notin muddled
        /\ m \notin muddled' /\ Cost!At(m, {"clear"}) = {} =>
             Cost!Reflects(Cost!NoRows, m) \/ Cost!Writers(m) # {}
    <3>1. PICK wrong \in BOOLEAN :
            wrong = (~Cost!Reflects(Cost!NoRows, m) /\ Cost!Writers(m) = {})
      OBVIOUS
    <3>2. Cost!Muddle(t, wrong)
      BY <1>4, <3>1
    <3>3. /\ muddled' \subseteq Merchants
          /\ \A n \in Merchants \ {m} : n \in muddled' <=> n \in muddled
          /\ m \notin muddled' => /\ m \notin muddled
                                  /\ wrong => Cost!At(m, {"clear"}) \ {t} # {}
      BY <1>1, <1>3, <3>2, MuddleIs
    <3> QED BY <3>1, <3>3
  <2>4. ASSUME m \notin muddled', Cost!At(m, {"clear"}) = {} PROVE Fitted(m)'
    <3>1. OneSnapshot(m, d)
      BY <1>1, <1>2, <1>3, <2>3, <2>4, MeetsSnapshot
    <3>2. /\ Cost!Writers(m) \subseteq Cost!Writers(m)' /\ Open(m)' = Open(m)
          /\ Cost!Writers(m)' \subseteq Cost!Fitting(m)'
      BY <1>3, <2>1, WritersStay
    <3>3. \A u \in Cost!Fitting(m)' : fit'[u].day = d
      BY <2>1, <3>1 DEF OneSnapshot, Cost!Fitting, Cost!At, Moved, Busy
    <3>4. model'[m][d] = Cost!NoRows
      BY <2>2
    <3>5. Cost!Reflects(Cost!NoRows, m) => Cost!Reflects(model[m][d], m)'
      BY <1>3, <3>2, <3>4 DEF Cost!Reflects, Open
    <3>6. OneSnapshot(m, d)'
      BY <2>2, <2>3, <2>4, <3>2, <3>3, <3>4, <3>5 DEF OneSnapshot, Cost!NoRows, Cost!Days
    <3>7. Cost!Latest(model'[m]) = model'[m][d]
      BY <2>2 DEF Cost!Latest
    <3> QED BY <3>2, <3>6, <3>7, LeftIsFitted
  <2>5. Fitted(m)'
    BY <1>3, <2>1, <2>3, <2>4, PastClearing
  <2> QED BY <1>3, <2>1, <2>2, <2>3, <2>5, FitStepKeeps DEF ServingTypes
<1> QED BY <1>1, <1>3, <1>4, FailureKeeps DEF Cost!PurgeModel

\* The tiers follow the model.
LEMMA TiersStep ==
  ASSUME ServingInv, NEW t \in Cost!Fitters,
         Cost!ClearTiers(t) \/ Cost!ReadTierStats(t) \/ Cost!InsertTiers(t)
  PROVE  ServingInv'
<1>1. PICK m \in Merchants : fit[t].m = m
  BY DEF ServingInv, ServingTypes, Cost!FitRecord
<1>2. /\ ServingTypes /\ fit[t].pc \in {"clearTiers", "readTiers", "insertTiers"}
      /\ UNCHANGED <<day, staged, model, Cost!overlays, pull, muddled>>
  BY DEF Cost!ClearTiers, Cost!ReadTierStats, Cost!InsertTiers, ServingInv,
     Cost!tables
<1>3. \E at \in {"readTiers", "insertTiers", "refresh"} :
        \/ Cost!Goto(t, at)
        \/ \E stats \in Cost!Rows : fit' = [fit EXCEPT ![t].stats = stats, ![t].pc = at]
        \/ \E stats \in Cost!Rows : fit' = [fit EXCEPT ![t].pc = at, ![t].stats = stats]
  BY <1>1, <1>2, RowsTypes DEF Cost!ClearTiers, Cost!ReadTierStats, Cost!InsertTiers,
     ServingTypes
<1>4. PICK at \in {"readTiers", "insertTiers", "refresh"} :
        \/ Cost!Goto(t, at)
        \/ \E stats \in Cost!Rows : fit' = [fit EXCEPT ![t].stats = stats, ![t].pc = at]
        \/ \E stats \in Cost!Rows : fit' = [fit EXCEPT ![t].pc = at, ![t].stats = stats]
  BY <1>3
<1>5. Moved(t, at, m)
  <2>1. CASE Cost!Goto(t, at)
    BY <1>1, <1>2, <2>1, GotoMoves DEF Cost!FitPcs, Busy
  <2>2. ASSUME NEW stats \in Cost!Rows,
               \/ fit' = [fit EXCEPT ![t].stats = stats, ![t].pc = at]
               \/ fit' = [fit EXCEPT ![t].pc = at, ![t].stats = stats]
        PROVE  Moved(t, at, m)
    <3>1. fit \in [Cost!Fitters -> Cost!FitRecord] /\ at \in Cost!FitPcs
      BY <1>2 DEF ServingTypes, Cost!FitPcs
    <3>2. /\ [fit[t] EXCEPT !.stats = stats, !.pc = at] \in Cost!FitRecord
          /\ [fit[t] EXCEPT !.pc = at, !.stats = stats] \in Cost!FitRecord
      BY <3>1 DEF Cost!FitRecord
    <3> QED BY <1>1, <1>2, <2>2, <3>1, <3>2 DEF Moved, Cost!FitRecord, Busy
  <2> QED BY <1>4, <2>1, <2>2
<1> QED BY <1>2, <1>5, QuietFitKeeps DEF Busy, ServingTypes

LEMMA NextDayStep == ServingInv /\ Cost!NextDay => ServingInv'
<1> SUFFICES ASSUME ServingInv, Cost!NextDay PROVE ServingInv'
  OBVIOUS
<1>1. day' \in Cost!Days /\ UNCHANGED <<staged, model, fit, fee, index, globals, edit,
      tangled, pull, muddled>>
  BY DEF Cost!NextDay, ServingInv, ServingTypes, Cost!Days, Cost!tables, Cost!overlays
<1>2. ServingTypes'
  BY <1>1 DEF ServingInv, ServingTypes
<1>3. PullsAreDue' /\ Untangled'
  BY <1>1, PullsStay, OverlaysStay DEF ServingInv
<1>4. ASSUME NEW m \in Merchants PROVE Fitted(m)'
  BY <1>1, FitsElsewhere DEF ServingInv, Cost!Fitting, Cost!At, Open, Busy
<1> QED BY <1>2, <1>3, <1>4 DEF ServingInv

-----------------------------------------------------------------------------
(* Refreshes.                                                              *)

LEMMA PullKeeps ==
  ASSUME ServingInv, NEW x \in Cost!Refreshers, Cost!Due(x), NEW next,
         pull' = [pull EXCEPT ![x] = next],
         UNCHANGED <<fit, edit>> \/ (Cost!EndTask(x) /\ next.pc = "idle"),
         UNCHANGED <<day, staged, model, fee, index, globals, tangled, muddled>>
  PROVE  ServingInv'
<1>1. /\ ServingTypes /\ PullsAreDue /\ Untangled
      /\ fit \in [Cost!Fitters -> Cost!FitRecord] /\ edit \in [Editors -> Cost!EditRecord]
  BY DEF ServingInv, ServingTypes
<1>2. /\ pull' = [y \in Cost!Refreshers |-> pull'[y]] /\ pull'[x] = next
      /\ \A y \in Cost!Refreshers \ {x} : pull'[y] = pull[y]
  BY <1>1 DEF ServingTypes
<1>3. /\ fit' \in [Cost!Fitters -> Cost!FitRecord]
      /\ \A t \in Cost!Fitters : \/ fit'[t] = fit[t]
                            \/ /\ t = x /\ next.pc = "idle"
                               /\ fit[t].pc = "refresh" /\ fit'[t].pc = "done"
  <2>1. CASE fit' = fit
    BY <1>1, <2>1
  <2>2. CASE x \in Cost!Fitters /\ fit' = [fit EXCEPT ![x].pc = "done"]
               /\ next.pc = "idle"
    <3>1. fit[x].pc = "refresh"
      BY <2>2 DEF Cost!Due, Cost!Fitters, Cost!Actors
    <3>2. [fit[x] EXCEPT !.pc = "done"] \in Cost!FitRecord
      BY <1>1, <2>2 DEF Cost!FitRecord, Cost!FitPcs
    <3> QED BY <1>1, <2>2, <3>1, <3>2 DEF Cost!FitRecord
  <2> QED BY <2>1, <2>2 DEF Cost!EndTask
<1>4. /\ edit' \in [Editors -> Cost!EditRecord]
      /\ \A e \in Editors : \/ edit'[e] = edit[e]
                            \/ /\ e = x /\ next.pc = "idle"
                               /\ edit[e].pc = "refresh" /\ edit'[e].pc = "done"
  <2>1. CASE edit' = edit
    BY <1>1, <2>1
  <2>2. CASE x \in Editors /\ edit' = [edit EXCEPT ![x].pc = "done"] /\ next.pc = "idle"
    <3>1. edit[x].pc = "refresh"
      BY <2>2 DEF Cost!Due, Cost!Fitters
    <3>2. [edit[x] EXCEPT !.pc = "done"] \in Cost!EditRecord
      BY <1>1, <2>2 DEF Cost!EditRecord, Cost!EditPcs
    <3> QED BY <1>1, <2>2, <3>1, <3>2 DEF Cost!EditRecord
  <2> QED BY <2>1, <2>2 DEF Cost!EndTask
<1>5. ServingTypes'
  BY <1>1, <1>2, <1>3, <1>4 DEF ServingTypes, Busy
<1>6. PullsAreDue'
  <2> SUFFICES ASSUME NEW y \in Cost!Refreshers, pull'[y].pc # "idle" PROVE Cost!Due(y)'
    BY DEF PullsAreDue
  <2>1. Cost!Due(y)
    BY <1>1, <1>2 DEF PullsAreDue
  <2>2. y = x => next.pc # "idle"
    BY <1>2
  <2> QED BY <1>3, <1>4, <2>1, <2>2 DEF Cost!Due
<1>7. Untangled'
  BY <1>1, <1>4, OverlaysStay
<1>8. ASSUME NEW m \in Merchants PROVE Fitted(m)'
  <2>1. ASSUME NEW t \in Cost!Fitters
        PROVE  /\ t \in Cost!Fitting(m) => fit'[t] = fit[t]
               /\ t \notin Cost!Fitting(m) => fit'[t].m # m \/ fit'[t].pc \notin Busy
               /\ t \in Open(m) => t \in Open(m)'
    BY <1>3 DEF Cost!Fitting, Cost!At, Open, Busy
  <2>2. Open(m) \subseteq Open(m)'
    BY <2>1 DEF Open, Cost!At
  <2> QED BY <2>1, <2>2, FitsElsewhere DEF ServingInv
<1> QED BY <1>5, <1>6, <1>7, <1>8 DEF ServingInv

LEMMA PullStepKeeps ==
  ASSUME ServingInv, NEW x \in Cost!Refreshers, Cost!PullStep(x)
  PROVE  ServingInv'
<1>1. /\ Cost!Due(x)
      /\ UNCHANGED <<day, staged, model, fee, index, globals, tangled, muddled>>
      /\ UNCHANGED <<fit, edit>> \/ Cost!EndTask(x)
  BY DEF Cost!PullStep, Cost!PullCosts, Cost!PullTiers, Cost!PullFees, Cost!Swap,
     Cost!PullFails, Cost!tables, Cost!overlays, ServingInv, PullsAreDue
<1>2. CASE UNCHANGED <<fit, edit>> /\ \E at, entry : Cost!PullTo(x, at, entry)
  BY <1>1, <1>2, PullKeeps DEF Cost!PullTo
<1>3. CASE Cost!EndTask(x) /\ pull' = [pull EXCEPT ![x] = Cost!IdlePull]
  BY <1>1, <1>3, PullKeeps DEF Cost!IdlePull
<1> QED
  BY <1>2, <1>3 DEF Cost!PullStep, Cost!PullCosts, Cost!PullTiers, Cost!PullFees,
     Cost!Swap, Cost!PullFails, Cost!overlays

-----------------------------------------------------------------------------
(* Edits of overrides.                                                     *)

\* An edit that is alone goes on as LeftTo says and leaves agreement.
LEMMA EditKeeps ==
  ASSUME ServingInv, NEW e \in Editors, NEW m \in Merchants, edit[e].m = m,
         e \in Cost!Editing,
         edit' \in [Editors -> Cost!EditRecord], \A f \in Editors \ {e} :
           edit'[f] = edit[f],
         edit'[e].m = m, edit'[e].pc # "idle",
         edit'[e].pc = "writeIndex" => edit'[e].list \subseteq Connectors,
         edit'[e].pc = "writeGlobal" => edit'[e].list \subseteq Merchants,
         index' \in [Merchants -> SUBSET Connectors], globals' \subseteq Merchants,
         \A n \in Merchants \ {m} : index'[n] = index[n],
         UNCHANGED <<day, staged, model, fit, fee, pull, muddled>>,
         \/ tangled' = TRUE
         \/ /\ tangled' = tangled
            /\ ~tangled /\ LeftTo(e) =>
                 /\ \A n \in Merchants \ {m} : n \in globals' <=> n \in globals
                 /\ e \in Cost!Editing' => LeftTo(e)'
                 /\ e \notin Cost!Editing' => Agreed(m)'
  PROVE  ServingInv'
<1>1. ServingTypes'
  BY DEF ServingInv, ServingTypes
<1>2. PullsAreDue'
  <2>1. edit[e].pc # "refresh"
    BY DEF Cost!Editing
  <2> QED BY <2>1, PullsStay DEF ServingInv
<1>3. ASSUME NEW n \in Merchants PROVE Fitted(n)'
  BY FitsElsewhere DEF ServingInv, Cost!Fitting, Cost!At, Open, Busy
<1>4. Untangled'
  <2> SUFFICES ASSUME tangled' # TRUE PROVE Untangled'
    BY <1>1 DEF Untangled, ServingTypes
  <2>1. ~tangled /\ tangled' = tangled /\ LeftTo(e) /\ \A f \in Cost!Editing : f = e
    BY DEF ServingInv, ServingTypes, Untangled
  <2>2. \A f \in Cost!Editing' : f = e
    BY <2>1 DEF Cost!Editing
  <2>3. ASSUME NEW n \in Merchants, \A f \in Cost!Editing' : edit'[f].m # n
        PROVE Agreed(n)'
    <3>1. CASE n = m
      BY <2>1, <2>3, <3>1
    <3>2. CASE n # m
      <4>1. Agreed(n)
        BY <2>1, <3>2 DEF ServingInv, Untangled
      <4> QED BY <2>1, <3>2, <4>1 DEF Agreed
    <3> QED BY <3>1, <3>2
  <2>4. \A f \in Cost!Editing' : LeftTo(f)'
    BY <2>1, <2>2
  <2> QED BY <2>2, <2>3, <2>4 DEF Untangled
<1> QED BY <1>1, <1>2, <1>3, <1>4 DEF ServingInv

LEMMA EditFailureKeeps ==
  ASSUME ServingInv, NEW e \in Editors, e \in Cost!Editing, Cost!EditFails(e),
         UNCHANGED <<day, staged, model, fit, fee, index, globals, pull, muddled>>
  PROVE  ServingInv'
<1>1. /\ ServingTypes /\ edit[e] \in Cost!EditRecord
           /\ edit \in [Editors -> Cost!EditRecord]
      /\ edit' = [edit EXCEPT ![e].pc = "done"] /\ tangled' = TRUE
  BY DEF Cost!EditFails, Cost!EditTo, ServingInv, ServingTypes
<1>2. [edit[e] EXCEPT !.pc = "done"] \in Cost!EditRecord
  BY <1>1 DEF Cost!EditRecord, Cost!EditPcs
<1>3. PICK m \in Merchants : edit[e].m = m
  BY <1>1 DEF Cost!EditRecord
<1> QED BY <1>1, <1>2, <1>3, EditKeeps DEF ServingTypes, Cost!EditRecord

LEMMA StartEditStep ==
  ASSUME ServingInv, NEW e \in Editors, Cost!StartEdit(e)
  PROVE  ServingInv'
<1>1. PICK m \in Merchants, k \in Connectors, op \in {"put", "drop"} :
        /\ fee' = [fee EXCEPT ![m] = IF op = "put" THEN @ \cup {k} ELSE @ \ {k}]
        /\ edit' = [edit EXCEPT ![e] = [pc |-> "readIndex", m |-> m, k |-> k, op |-> op,
                                        list |-> {}]]
  BY DEF Cost!StartEdit
<1>2. /\ ServingTypes /\ edit[e].pc = "idle" /\ tangled' = (tangled \/ Cost!Editing # {})
      /\ UNCHANGED <<day, staged, model, fit, index, globals, pull, muddled>>
  BY DEF Cost!StartEdit, ServingInv, Cost!tables
<1>3. PICK new \in Cost!EditRecord :
             new = [pc |-> "readIndex", m |-> m, k |-> k, op |-> op,
                                       list |-> {}]
  BY DEF Cost!EditRecord, Cost!EditPcs
<1>4. /\ edit' \in [Editors -> Cost!EditRecord] /\ edit'[e] = new
      /\ \A f \in Editors \ {e} : edit'[f] = edit[f]
  BY <1>1, <1>2, <1>3 DEF ServingTypes
<1>5. /\ fee' \in [Merchants -> SUBSET Connectors]
      /\ fee'[m] = IF op = "put" THEN fee[m] \cup {k} ELSE fee[m] \ {k}
      /\ \A n \in Merchants \ {m} : fee'[n] = fee[n]
  BY <1>1, <1>2 DEF ServingTypes
<1>6. ServingTypes'
  BY <1>2, <1>3, <1>4, <1>5 DEF ServingTypes
<1>7. PullsAreDue'
  BY <1>2, <1>4, PullsStay DEF ServingInv
<1>8. ASSUME NEW n \in Merchants PROVE Fitted(n)'
  BY <1>2, FitsElsewhere DEF ServingInv, Cost!Fitting, Cost!At, Open, Busy
<1>9. Untangled'
  <2> SUFFICES ASSUME ~tangled, Cost!Editing = {} PROVE Untangled'
    BY <1>2 DEF Untangled
  <2>1. \A n \in Merchants : Agreed(n)
    BY DEF ServingInv, Untangled
  <2>2. Cost!Editing' = {e}
    BY <1>3, <1>4 DEF Cost!Editing
  <2>3. ASSUME NEW n \in Merchants, edit'[e].m # n PROVE Agreed(n)'
    <3>1. n # m
      BY <1>3, <1>4, <2>3
    <3> QED BY <1>2, <1>5, <2>1, <3>1 DEF Agreed
  <2>4. LeftTo(e)'
    <3>1. Agreed(m) /\ edit'[e].pc = "readIndex" /\ edit'[e].m = m /\ edit'[e].k = k
            /\ edit'[e].op = op
      BY <1>3, <1>4, <2>1
    <3> QED BY <1>2, <1>5, <3>1 DEF Agreed, LeftTo
  <2> QED BY <2>2, <2>3, <2>4 DEF Untangled
<1> QED BY <1>6, <1>7, <1>8, <1>9 DEF ServingInv

\* The record of an edit has moved on; the override it is about stays.
Turned(e, at, list) ==
  /\ edit' \in [Editors -> Cost!EditRecord] /\ \A f \in Editors \ {e} : edit'[f] = edit[f]
  /\ edit'[e].pc = at /\ edit'[e].list = list
  /\ edit'[e].m = edit[e].m /\ edit'[e].k = edit[e].k /\ edit'[e].op = edit[e].op

LEMMA EditTurns ==
  ASSUME ServingTypes, NEW e \in Editors, NEW at \in Cost!EditPcs,
         NEW list \in SUBSET (Connectors \cup Merchants),
         \/ edit' = [edit EXCEPT ![e].pc = at, ![e].list = list]
         \/ Cost!EditTo(e, at) /\ list = edit[e].list
  PROVE  Turned(e, at, list)
<1>1. edit \in [Editors -> Cost!EditRecord] /\ edit[e] \in Cost!EditRecord
  BY DEF ServingTypes
<1>2. [edit[e] EXCEPT !.pc = at, !.list = list] \in Cost!EditRecord
  BY <1>1 DEF Cost!EditRecord
<1>3. [edit[e] EXCEPT !.pc = at] \in Cost!EditRecord
  BY <1>1 DEF Cost!EditRecord
<1> QED BY <1>1, <1>2, <1>3 DEF Turned, Cost!EditRecord, Cost!EditTo

\* The actor of an edit, its merchant and its connector.
LEMMA EditActor ==
  ASSUME ServingTypes, NEW e \in Editors
  PROVE  /\ edit[e] \in Cost!EditRecord /\ edit[e].m \in Merchants
              /\ edit[e].k \in Connectors
         /\ edit[e].list \in SUBSET (Connectors \cup Merchants)
         /\ edit[e].op \in {"put", "drop"}
BY DEF ServingTypes, Cost!EditRecord

LEMMA ReadIndexStep ==
  ASSUME ServingInv, NEW e \in Editors, Cost!ReadIndex(e)
  PROVE  ServingInv'
<1>1. PICK m \in Merchants : edit[e].m = m
  BY EditActor DEF ServingInv
<1>2. /\ ServingTypes /\ edit[e].pc = "readIndex" /\ e \in Cost!Editing
      /\ index[m] \in SUBSET Connectors
      /\ UNCHANGED <<day, staged, model, fit, fee, index, globals, pull, muddled>>
  BY DEF Cost!ReadIndex, ServingInv, ServingTypes, Cost!Editing, Cost!tables
<1>3. CASE /\ edit' = [edit EXCEPT ![e].pc = "writeIndex", ![e].list = index[m]]
           /\ UNCHANGED tangled
  <2>1. Turned(e, "writeIndex", index[m])
    BY <1>2, <1>3, EditTurns DEF Cost!EditPcs
  <2>2. LeftTo(e) => LeftTo(e)'
    BY <1>1, <1>2, <2>1 DEF LeftTo, Turned
  <2> QED
    BY <1>1, <1>2, <1>3, <2>1, <2>2, EditKeeps DEF Turned, Cost!Editing, ServingTypes
<1> QED BY <1>1, <1>2, <1>3, EditFailureKeeps DEF Cost!ReadIndex

LEMMA WriteIndexStep ==
  ASSUME ServingInv, NEW e \in Editors, Cost!WriteIndex(e)
  PROVE  ServingInv'
<1>1. PICK m \in Merchants, k \in Connectors, op \in {"put", "drop"} :
        edit[e].m = m /\ edit[e].k = k /\ edit[e].op = op
  BY EditActor DEF ServingInv
<1>2. PICK list : list = edit[e].list
  OBVIOUS
<1>3. /\ ServingTypes /\ edit[e].pc = "writeIndex" /\ e \in Cost!Editing
      /\ list \in SUBSET Connectors
      /\ UNCHANGED <<day, staged, model, fit, fee, globals, pull, muddled>>
  BY <1>2 DEF Cost!WriteIndex, ServingInv, ServingTypes, Cost!Editing, Cost!tables
<1>4. ASSUME NEW at \in {"readGlobal", "prune"},
             at = IF op = "put" THEN "readGlobal" ELSE "prune", Cost!EditTo(e, at),
             UNCHANGED tangled,
             index' = [index EXCEPT ![m] =
               IF op = "drop" THEN list \ {k} ELSE IF k \in list THEN @
                 ELSE list \cup {k}]
      PROVE  ServingInv'
  <2>1. Turned(e, at, list)
    BY <1>2, <1>3, <1>4, EditTurns DEF Cost!EditPcs
  <2>2. /\ index' \in [Merchants -> SUBSET Connectors]
        /\ index'[m] = IF op = "drop" THEN list \ {k}
                       ELSE IF k \in list THEN index[m] ELSE list \cup {k}
        /\ \A n \in Merchants \ {m} : index'[n] = index[n]
    BY <1>3, <1>4 DEF ServingTypes
  <2>3. ASSUME LeftTo(e) PROVE LeftTo(e)'
    <3>1. /\ list = index[m] /\ (m \in globals <=> index[m] # {})
          /\ fee[m] = IF op = "put" THEN index[m] \cup {k} ELSE index[m] \ {k}
      BY <1>1, <1>2, <1>3, <2>3 DEF LeftTo
    <3>2. edit'[e].pc = at /\ edit'[e].m = m /\ edit'[e].k = k /\ edit'[e].op = op
      BY <1>1, <2>1 DEF Turned
    <3>3. CASE op = "put"
      <4>1. index'[m] = fee[m] /\ k \in index'[m] /\ at = "readGlobal"
        BY <1>4, <2>2, <3>1, <3>3
      <4> QED BY <1>3, <3>2, <3>3, <4>1 DEF LeftTo
    <3>4. CASE op = "drop"
      <4>1. /\ index'[m] = fee[m] /\ at = "prune" /\ (index'[m] # {} => m \in globals)
        BY <1>4, <2>2, <3>1, <3>4
      <4> QED BY <1>3, <3>2, <3>4, <4>1 DEF LeftTo
    <3> QED BY <3>3, <3>4
  <2> QED
    BY <1>1, <1>3, <1>4, <2>1, <2>2, <2>3, EditKeeps DEF Turned, Cost!Editing,
       ServingTypes
<1>5. CASE Cost!EditFails(e) /\ UNCHANGED index
  BY <1>3, <1>5, EditFailureKeeps
<1>6. PICK at \in {"readGlobal", "prune"} : at = IF op = "put" THEN "readGlobal"
             ELSE "prune"
  OBVIOUS
<1> QED BY <1>1, <1>2, <1>4, <1>5, <1>6 DEF Cost!WriteIndex

LEMMA PruneGlobalStep ==
  ASSUME ServingInv, NEW e \in Editors, Cost!PruneGlobal(e)
  PROVE  ServingInv'
<1>1. PICK m \in Merchants : edit[e].m = m
  BY EditActor DEF ServingInv
<1>2. /\ ServingTypes /\ edit[e].pc = "prune" /\ e \in Cost!Editing
      /\ UNCHANGED <<day, staged, model, fit, fee, index, globals, pull, muddled>>
  BY DEF Cost!PruneGlobal, ServingInv, Cost!Editing, Cost!tables
<1>3. ASSUME NEW at \in {"readGlobal", "refresh"}, UNCHANGED tangled, Cost!EditTo(e, at),
             at = IF Cost!Prunes(index[m]) THEN "readGlobal" ELSE "refresh"
      PROVE  ServingInv'
  <2>1. Turned(e, at, edit[e].list)
    BY <1>2, <1>3, EditTurns, EditActor DEF Cost!EditPcs
  <2>2. ASSUME LeftTo(e), at = "readGlobal" PROVE LeftTo(e)'
    BY <1>1, <1>2, <1>3, <2>1, <2>2 DEF LeftTo, Turned, Cost!Prunes
  <2>3. ASSUME LeftTo(e), at = "refresh" PROVE Agreed(m)'
    BY <1>1, <1>2, <1>3, <2>1, <2>3 DEF LeftTo, Agreed, Cost!Prunes
  <2> QED
    BY <1>1, <1>2, <1>3, <2>1, <2>2, <2>3, EditKeeps DEF Turned, Cost!Editing,
       ServingTypes
<1>4. PICK at \in {"readGlobal", "refresh"} :
        at = IF Cost!Prunes(index[m]) THEN "readGlobal" ELSE "refresh"
  OBVIOUS
<1> QED BY <1>1, <1>2, <1>3, <1>4, EditFailureKeeps DEF Cost!PruneGlobal

LEMMA ReadGlobalStep ==
  ASSUME ServingInv, NEW e \in Editors, Cost!ReadGlobal(e)
  PROVE  ServingInv'
<1>1. PICK m \in Merchants : edit[e].m = m
  BY EditActor DEF ServingInv
<1>2. /\ ServingTypes /\ edit[e].pc = "readGlobal" /\ e \in Cost!Editing
      /\ globals \in SUBSET Merchants
      /\ UNCHANGED <<day, staged, model, fit, fee, index, globals, pull, muddled>>
  BY DEF Cost!ReadGlobal, ServingInv, ServingTypes, Cost!Editing, Cost!tables
<1>3. CASE /\ edit' = [edit EXCEPT ![e].pc = "writeGlobal", ![e].list = globals]
           /\ UNCHANGED tangled
  <2>1. Turned(e, "writeGlobal", globals)
    BY <1>2, <1>3, EditTurns DEF Cost!EditPcs
  <2>2. LeftTo(e) => LeftTo(e)'
    BY <1>1, <1>2, <2>1 DEF LeftTo, Turned
  <2> QED
    BY <1>1, <1>2, <1>3, <2>1, <2>2, EditKeeps DEF Turned, Cost!Editing, ServingTypes
<1> QED BY <1>1, <1>2, <1>3, EditFailureKeeps DEF Cost!ReadGlobal

LEMMA WriteGlobalStep ==
  ASSUME ServingInv, NEW e \in Editors, Cost!WriteGlobal(e)
  PROVE  ServingInv'
<1>1. PICK m \in Merchants, op \in {"put", "drop"} : edit[e].m = m /\ edit[e].op = op
  BY EditActor DEF ServingInv
<1>2. PICK list : list = edit[e].list
  OBVIOUS
<1>3. /\ ServingTypes /\ edit[e].pc = "writeGlobal" /\ e \in Cost!Editing
      /\ list \in SUBSET Merchants
      /\ UNCHANGED <<day, staged, model, fit, fee, index, pull, muddled>>
  BY <1>2 DEF Cost!WriteGlobal, ServingInv, ServingTypes, Cost!Editing, Cost!tables
<1>4. CASE /\ globals' = IF op = "drop" THEN list \ {m}
                         ELSE IF m \in list THEN globals ELSE list \cup {m}
           /\ edit' = [edit EXCEPT ![e].pc = "refresh", ![e].list = {}]
           /\ UNCHANGED tangled
  <2>1. Turned(e, "refresh", {})
    BY <1>3, <1>4, EditTurns DEF Cost!EditPcs
  <2>2. globals' \subseteq Merchants
    BY <1>3, <1>4 DEF ServingTypes
  <2>3. ASSUME LeftTo(e)
        PROVE  Agreed(m)' /\ \A n \in Merchants \ {m} : n \in globals' <=> n \in globals
    <3>1. list = globals /\ fee[m] = index[m] /\ (index[m] # {} <=> op = "put")
      BY <1>1, <1>2, <1>3, <2>3 DEF LeftTo
    <3>2. m \in globals' <=> index[m] # {}
      BY <1>4, <3>1
    <3>3. \A n \in Merchants \ {m} : n \in globals' <=> n \in globals
      BY <1>4, <3>1
    <3> QED BY <1>3, <3>1, <3>2, <3>3 DEF Agreed
  <2> QED
    BY <1>1, <1>3, <1>4, <2>1, <2>2, <2>3, EditKeeps DEF Turned, Cost!Editing,
       ServingTypes
<1>5. CASE Cost!EditFails(e) /\ UNCHANGED globals
  BY <1>3, <1>5, EditFailureKeeps
<1> QED BY <1>1, <1>2, <1>4, <1>5 DEF Cost!WriteGlobal

-----------------------------------------------------------------------------
LEMMA ServingInit == Cost!Init => ServingInv
<1> SUFFICES ASSUME Cost!Init PROVE ServingInv
  OBVIOUS
<1>1. staged \in [Merchants -> Cost!Rows]
  <2>1. [c \in Clusters |-> Before \X {1}] \in Cost!Rows
    BY DEF Cost!Rows, Cost!Pieces
  <2> QED BY <2>1, RowsTypes DEF Cost!Init
<1>2. model \in [Merchants -> [Cost!Days -> Cost!Rows]]
  BY <1>1, RowsTypes DEF Cost!Init
<1>3. /\ fit \in [Cost!Fitters -> Cost!FitRecord]
      /\ \A t \in Cost!Fitters : fit[t].pc \in {"idle", "done"}
  <2>1. Cost!IdleFit \in Cost!FitRecord /\ Cost!IdleFit.pc = "idle"
    BY RowsTypes DEF Cost!IdleFit, Cost!FitRecord, Cost!FitPcs
  <2>2. PICK done : done = [Cost!IdleFit EXCEPT !.pc = "done"]
    OBVIOUS
  <2>3. done \in Cost!FitRecord /\ done.pc = "done"
    BY <2>1, <2>2 DEF Cost!FitRecord, Cost!FitPcs
  <2>4. fit = [t \in Cost!Fitters |-> IF t \in Before THEN done ELSE Cost!IdleFit]
    BY <2>2 DEF Cost!Init
  <2> QED BY <2>1, <2>3, <2>4
<1>4. edit \in [Editors -> Cost!EditRecord] /\ \A e \in Editors : edit[e].pc = "idle"
  <2>1. Cost!IdleEdit \in Cost!EditRecord /\ Cost!IdleEdit.pc = "idle"
    BY RowsTypes DEF Cost!IdleEdit, Cost!EditRecord, Cost!EditPcs
  <2> QED BY <2>1 DEF Cost!Init
<1>5. ServingTypes
  <2>1. day \in Cost!Days
    <3>1. 1 \in Cost!Days
      BY DEF Cost!Days
    <3> QED BY <3>1 DEF Cost!Init
  <2>2. /\ fee \in [Merchants -> SUBSET Connectors]
        /\ index \in [Merchants -> SUBSET Connectors] /\ globals \subseteq Merchants
        /\ pull = [x \in Cost!Refreshers |-> pull[x]]
        /\ muddled \subseteq Merchants /\ tangled \in BOOLEAN
    BY DEF Cost!Init
  <2> QED BY <1>1, <1>2, <1>3, <1>4, <2>1, <2>2 DEF ServingTypes, Busy
<1>6. PullsAreDue
  BY DEF Cost!Init, Cost!IdlePull, PullsAreDue
<1>7. ASSUME NEW m \in Merchants PROVE Fitted(m)
  <2>1. Cost!Fitting(m) = {}
    BY <1>3 DEF Cost!Fitting, Cost!At
  <2>2. /\ 1 \in Cost!Days /\ muddled = {}
        /\ model[m] = [d \in Cost!Days |-> IF d = 1 THEN staged[m] ELSE Cost!NoRows]
    <3>1. 1 \in Cost!Days
      BY DEF Cost!Days
    <3> QED BY <3>1 DEF Cost!Init
  <2>3. Cost!Latest(model[m]) = model[m][1]
    <3>1. \A e \in Cost!Days : e > 1 => model[m][e] = Cost!NoRows
      BY <2>2 DEF Cost!Days
    <3>2. model[m][1] = Cost!NoRows => \A e \in Cost!Days : model[m][e] = Cost!NoRows
      BY <2>2
    <3> QED BY <2>2, <3>1, <3>2, LatestIs
  <2>4. model[m][1] = staged[m]
    BY <2>2
  <2> QED BY <2>1, <2>3, <2>4 DEF Fitted, Cost!Reflects
<1>8. Untangled
  <2>1. Cost!Editing = {}
    BY <1>4 DEF Cost!Editing
  <2> QED BY <2>1 DEF Untangled, Agreed, Cost!Init
<1> QED BY <1>5, <1>6, <1>7, <1>8 DEF ServingInv

LEMMA ServingNext == ServingInv /\ [Cost!Next]_(Cost!vars) => ServingInv'
<1> SUFFICES ASSUME ServingInv, [Cost!Next]_(Cost!vars) PROVE ServingInv'
  OBVIOUS
<1>1. CASE UNCHANGED Cost!vars
  <2>1. UNCHANGED <<day, staged, model, fit, fee, index, globals, edit, tangled, pull,
        muddled>>
    BY <1>1 DEF Cost!vars, Cost!tables, Cost!overlays
  <2>2. ServingTypes'
    BY <2>1 DEF ServingInv, ServingTypes
  <2>3. PullsAreDue' /\ Untangled'
    BY <2>1, PullsStay, OverlaysStay DEF ServingInv
  <2>4. ASSUME NEW m \in Merchants PROVE Fitted(m)'
    BY <2>1, FitsElsewhere DEF ServingInv, Cost!Fitting, Cost!At, Open, Busy
  <2> QED BY <2>2, <2>3, <2>4 DEF ServingInv
<1>2. ASSUME NEW t \in Cost!Fitters, Cost!FitStep(t) PROVE ServingInv'
  BY <1>2, ClearSnapshotStep, ReadRowsStep, InsertRowsStep, CountRowsStep, PurgeModelStep, TiersStep
     DEF Cost!FitStep
<1>3. ASSUME NEW e \in Editors, Cost!StartEdit(e) \/ Cost!EditStep(e) PROVE ServingInv'
  BY <1>3, StartEditStep, ReadIndexStep, WriteIndexStep, PruneGlobalStep,
     ReadGlobalStep, WriteGlobalStep DEF Cost!EditStep
<1> QED
  BY <1>1, <1>2, <1>3, StartIngestStep, StageChunkStep, EndStagingStep, DeleteRowsStep,
     PullStepKeeps, NextDayStep DEF Cost!Next, Cost!IngestStep

LEMMA ServingHolds == Cost!Spec => []ServingInv
BY ServingInit, ServingNext, PTL DEF Cost!Spec

\* Once a merchant's fits are over, however they and what is staged interleaved, its
\* latest snapshot holds nothing that is not staged, and all that is but for rows of
\* ingestions that still stage or failed to, unless a fit left it wrong in one of the
\* ways SnapshotReflectsStaging excuses (insert_daily_stats, fit_snapshot,
\* delete_ingestion).
THEOREM SnapshotReflects == Cost!Spec => []SnapshotReflectsStaging
<1>1. ServingInv => SnapshotReflectsStaging
  BY DEF ServingInv, Fitted, SnapshotReflectsStaging, Cost!SnapshotReflectsStaging
<1> QED BY <1>1, ServingHolds, PTL

\* An override that is stored is listed by its merchant, and the merchant by the global
\* index, unless edits overlapped or failed (overrides::put, overrides::delete).
THEOREM OverridesListed == Cost!Spec => []OverridesAreListed
<1>1. ServingInv => OverridesAreListed
  <2> SUFFICES ASSUME ServingInv, ~tangled, Cost!Editing = {}
               PROVE  fee = index /\ globals = {m \in Merchants : index[m] # {}}
    BY DEF OverridesAreListed, Cost!OverridesAreListed
  <2>1. \A m \in Merchants : Agreed(m)
    BY DEF ServingInv, Untangled
  <2>2. /\ fee \in [Merchants -> SUBSET Connectors]
             /\ index \in [Merchants -> SUBSET Connectors]
        /\ globals \subseteq Merchants
    BY DEF ServingInv, ServingTypes
  <2> QED BY <2>1, <2>2 DEF Agreed
<1> QED BY <1>1, ServingHolds, PTL
=============================================================================
