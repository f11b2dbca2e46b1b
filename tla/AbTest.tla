------------------------------- MODULE AbTest -------------------------------
(***************************************************************************)
(* The in-flight record of one payment in an A/B experiment.  Every        *)
(* routing call stores it (twice on an SR arm: before the decider runs,    *)
(* and again with the gateway and the cost), every outcome reads it, emits *)
(* an event and then marks or deletes it.  Each of these is a GET followed *)
(* by a SET or DEL in a round trip of its own, so calls that overlap work  *)
(* from records that others have replaced.                                 *)
(***************************************************************************)
EXTENDS Integers, FiniteSets

CONSTANTS Decisions,  \* routing calls for the payment: first attempt, retries
          Outcomes,   \* score updates delivered for those attempts
          Gateways,
          Faults      \* Redis may fail

None == "none"

ASSUME FaultsAssumption == Faults \in BOOLEAN
ASSUME NoneAssumption == None \notin Gateways \cup Decisions \cup Outcomes

VARIABLES rec,        \* ab_test_inflight:<payment>, a set of at most one record
          dec,        \* routing calls
          out,        \* score updates
          events,     \* outcome events emitted
          life,       \* ghost: how many times the record came into being
          disturbed   \* ghost: a write replaced a record its writer had not
                      \* read, or a command failed

vars == <<rec, dec, out, events, life, disturbed>>

Record == [gw : Gateways \cup {None}, static : BOOLEAN, cost : BOOLEAN,
           first : BOOLEAN]

DecStates == {"idle", "flag", "store", "route", "costFlag", "cost", "done"}
OutStates == {"idle", "read", "write", "done"}
Statuses == {"success", "failure", "pending"}

IdleDec == [pc |-> "idle", static |-> FALSE, gw |-> None, first |-> FALSE,
            stale |-> FALSE]
IdleOut == [pc |-> "idle", att |-> None, status |-> "pending", ctx |-> {},
            life |-> 0, stale |-> FALSE]

Init ==
  /\ rec = {}
  /\ dec = [d \in Decisions |-> IdleDec]
  /\ out = [o \in Outcomes |-> IdleOut]
  /\ events = {}
  /\ life = 0
  /\ disturbed = FALSE

\* A write by one actor makes what the others have read out of date.
DecAfterWrite(self) ==
  [d \in Decisions |->
     IF d # self /\ dec[d].pc \in {"store", "cost"}
       THEN [dec[d] EXCEPT !.stale = TRUE] ELSE dec[d]]
OutAfterWrite(self) ==
  [o \in Outcomes |->
     IF o # self /\ out[o].pc = "write"
       THEN [out[o] EXCEPT !.stale = TRUE] ELSE out[o]]

-----------------------------------------------------------------------------
(* Routing calls.                                                          *)

\* intercept: the test is off or the static arm cannot be evaluated; a static
\* arm with its gateway; or an SR arm, whose gateway is not known yet.
Intercept(d) ==
  /\ dec[d].pc = "idle"
  /\ \/ dec' = [dec EXCEPT ![d].pc = "done"]
     \/ \E g \in Gateways \cup {None} :
          dec' = [dec EXCEPT ![d] = [IdleDec EXCEPT !.pc = "flag", !.gw = g,
                                                    !.static = (g # None)]]
  /\ UNCHANGED <<rec, out, events, life, disturbed>>

\* existing_first_outcome_emitted.
RecordedFirst == \E r \in rec : r.first

\* Mutant: a routing call always starts with the flag down.
FlagDropped(seen) == FALSE

\* The flag carried over to the record about to be written.
FlagNow(seen) == seen

\* The flag is read ahead of the write; a failed read answers FALSE.
ReadFlag(d, from, to) ==
  /\ dec[d].pc = from
  /\ \E seen \in BOOLEAN :
       /\ seen = RecordedFirst \/ (Faults /\ ~seen)
       /\ dec' = [dec EXCEPT ![d].pc = to, ![d].first = FlagNow(seen),
                             ![d].stale = FALSE]
       /\ disturbed' = (disturbed \/ seen # RecordedFirst)
  /\ UNCHANGED <<rec, out, events, life>>

\* The record written by d, or the SET fails with a warning.
Put(d, r, to) ==
  /\ \/ /\ rec' = {r}
        /\ life' = IF rec = {} THEN life + 1 ELSE life
        /\ dec' = [DecAfterWrite(d) EXCEPT ![d].pc = to]
        /\ out' = OutAfterWrite(None)
        /\ disturbed' = (disturbed \/ dec[d].stale)
     \/ /\ Faults
        /\ dec' = [dec EXCEPT ![d].pc = to]
        /\ disturbed' = TRUE
        /\ UNCHANGED <<rec, out, life>>
  /\ UNCHANGED events

StoreInflight(d) ==
  /\ dec[d].pc = "store"
  /\ Put(d, [gw |-> dec[d].gw, static |-> dec[d].static, cost |-> FALSE,
             first |-> dec[d].first],
         IF dec[d].static THEN "done" ELSE "route")

\* The decider picks a gateway, or fails and leaves the record as it is.
Route(d) ==
  /\ dec[d].pc = "route"
  /\ \/ dec' = [dec EXCEPT ![d].pc = "done"]
     \/ \E g \in Gateways : dec' = [dec EXCEPT ![d].pc = "costFlag", ![d].gw = g]
  /\ UNCHANGED <<rec, out, events, life, disturbed>>

RecordCostOutcome(d) ==
  /\ dec[d].pc = "cost"
  /\ \E c \in BOOLEAN :
       Put(d, [gw |-> dec[d].gw, static |-> FALSE, cost |-> c,
               first |-> dec[d].first], "done")

DecisionStep(d) ==
  \/ Intercept(d) \/ StoreInflight(d) \/ Route(d) \/ RecordCostOutcome(d)
  \/ ReadFlag(d, "flag", "store") \/ ReadFlag(d, "costFlag", "cost")

-----------------------------------------------------------------------------
(* Outcomes.                                                               *)

\* A routed attempt's status is delivered.  It may be pending any number of
\* times, and ends in a success or in a failure that may be delivered again.
Report(o) ==
  /\ out[o].pc = "idle"
  /\ \E d \in Decisions, s \in Statuses :
       /\ dec[d].pc = "done"
       /\ \A p \in Outcomes : out[p].att = d => out[p].status \in {s, "pending"}
                                             \/ s = "pending"
       /\ out' = [out EXCEPT ![o] = [IdleOut EXCEPT !.pc = "read", !.att = d,
                                                   !.status = s]]
  /\ UNCHANGED <<rec, dec, events, life, disturbed>>

\* Without a record, or when the read fails, there is nothing to emit.
ReadContext(o) ==
  /\ out[o].pc = "read"
  /\ \/ /\ rec # {}
        /\ out' = [out EXCEPT ![o].pc = "write", ![o].ctx = rec,
                              ![o].life = life]
     \/ /\ rec = {} \/ Faults
        /\ out' = [out EXCEPT ![o].pc = "done"]
  /\ UNCHANGED <<rec, dec, events, life, disturbed>>

Marked(ctx) == {[r EXCEPT !.first = TRUE] : r \in ctx}

\* Mutants: the key survives a success; a failure leaves the flag down.
KeyKeptOnSuccess(ctx, status) == Marked(ctx)
FlagForgotten(ctx, status) == IF status = "success" THEN {} ELSE ctx

\* The key is deleted on success and marked on anything else, a status that is
\* still pending included: is_transaction_success tells only these two apart.
KeyAfter(ctx, status) == IF status = "success" THEN {} ELSE Marked(ctx)

\* Mark or delete the key, ignoring failures, and emit the event.
Emit(o) ==
  /\ out[o].pc = "write"
  /\ \/ /\ rec' = KeyAfter(out[o].ctx, out[o].status)
        /\ life' = IF rec = {} /\ rec' # {} THEN life + 1 ELSE life
        /\ dec' = DecAfterWrite(None)
        /\ out' = [OutAfterWrite(o) EXCEPT ![o].pc = "done"]
        /\ disturbed' = (disturbed \/ out[o].stale)
     \/ /\ Faults
        /\ out' = [out EXCEPT ![o].pc = "done"]
        /\ disturbed' = TRUE
        /\ UNCHANGED <<rec, dec, life>>
  /\ events' = events \cup
       {[from |-> o, att |-> out[o].att, gw |-> r.gw,
         success |-> out[o].status = "success", first |-> ~r.first,
         life |-> out[o].life] : r \in out[o].ctx}

\* INFLIGHT_TTL_SECS.
Expire ==
  /\ rec # {}
  /\ rec' = {}
  /\ dec' = DecAfterWrite(None) /\ out' = OutAfterWrite(None)
  /\ UNCHANGED <<events, life, disturbed>>

Next ==
  \/ \E d \in Decisions : DecisionStep(d)
  \/ \E o \in Outcomes : Report(o) \/ ReadContext(o) \/ Emit(o)
  \/ Expire

Spec == Init /\ [][Next]_vars

-----------------------------------------------------------------------------
(* Properties.                                                             *)

\* Every variable keeps its type: the key holds one record or none.
TypeOK ==
  /\ rec \subseteq Record /\ Cardinality(rec) <= 1
  /\ dec \in [Decisions -> [pc : DecStates, static : BOOLEAN,
                            gw : Gateways \cup {None}, first : BOOLEAN,
                            stale : BOOLEAN]]
  /\ out \in [Outcomes -> [pc : OutStates, att : Decisions \cup {None},
                           status : Statuses, ctx : SUBSET Record,
                           life : Nat, stale : BOOLEAN]]
  /\ events \subseteq [from : Outcomes, att : Decisions,
                       gw : Gateways \cup {None}, success : BOOLEAN,
                       first : BOOLEAN, life : Nat]
  /\ life \in Nat /\ disturbed \in BOOLEAN

\* While calls do not overlap and Redis answers, one event per life of the
\* record is counted as the first attempt, whatever was routed, retried or
\* delivered again in between (existing_first_outcome_emitted carries the flag
\* across store_inflight and record_cost_outcome).
FirstOnceIfUndisturbed ==
  ~disturbed => \A e, f \in events :
                  e.life = f.life /\ e.first /\ f.first => e = f

\* While calls do not overlap and Redis answers, the record dies with the first
\* success reported from it (emit_if_in_flight).
SuccessEndsLifeIfUndisturbed ==
  ~disturbed => \A e, f \in events :
                  e.life = f.life /\ e.success /\ f.success => e = f

=============================================================================
