----------------------------- MODULE MCRouting ------------------------------
(***************************************************************************)
(* Instances of Routing for TLC.                                           *)
(***************************************************************************)
EXTENDS Routing, TLC

CONSTANTS g1, g2, g3, g4, a1, a2, a3, a4, a5, a6, b1, b2, p1, r1, r2, e1, earlier, absent

\* A behaviour runs the filters or the rules.
VARIABLE part

\* g1 has two accounts that enforce different flows, and one under another
\* reference id.
MCGatewayOf == a1 :> g1 @@ a2 :> g1 @@ a3 :> g2 @@ a4 :> g3 @@ a5 :> g4 @@ a6 :> g1
MCEnforces == a1 :> {} @@ a2 :> {"otm"} @@ a3 :> {"otm", "pix"} @@ a4 :> {} @@ a5 :> {} @@ a6 :> {}

\* g1 serves most methods, g2 UPI only and, by another list, wallets, g3 wallets
\* only; g4 is listed for several methods as the only one.
MCOnly == [x \in Methods |->
  CASE x = "upi" -> {g2} [] x = "wallet" -> {g3}
    [] x \in {"nb", "finance", "reward", "cash", "container"} -> {g4} [] OTHER -> {}]
MCAlso == [x \in Methods |-> IF x = "wallet" THEN {g2} ELSE {g1}]

\* Two algorithms that replace each other, and one of another kind that shares the
\* cache with them.
MCKindOf == [a \in Algorithms |-> IF a = p1 THEN "payout" ELSE "payment"]

ruleVars == <<data, active, cache, req, eval, muddled, doubtful>>
allVars == <<part, vars, ruleVars>>

Filtering == part = "filter" /\ UNCHANGED <<part, ruleVars>>
Ruling == part = "rules" /\ UNCHANGED <<part, vars>>

\* The part that does not run stays as it starts: for a payment like any other, and
\* for a merchant without algorithms.
MCInit ==
  /\ Init /\ Rules!Init /\ part \in {"filter", "rules"}
  /\ part = "rules" => txn = CHOOSE t \in Payments : TRUE
  /\ part = "filter" => \A a \in Algorithms : data[a] = Absent

MCNext == (Filtering /\ Next) \/ (Ruling /\ Rules!Next)

\* Fairness of RoutingRules.
MCFairness ==
  /\ \A r \in Requests : WF_allVars(Ruling /\ Rules!Step(r))
  /\ \A e \in Evaluations : WF_allVars(Ruling /\ (Rules!Fetch(e) \/ Rules!Fill(e)))
  /\ WF_allVars(Ruling /\ Rules!CacheExpire)

MCSpec == MCInit /\ [][MCNext]_allVars /\ MCFairness
=============================================================================
