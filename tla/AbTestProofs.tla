----------------------------- MODULE AbTestProofs -----------------------------
(***************************************************************************)
(* Proofs about AbTest for any routing calls, outcomes and gateways, with  *)
(* or without Redis faults, and about the account tree for any profiles,   *)
(* merchants, orgs, syncs, sessions and processes.                         *)
(***************************************************************************)
EXTENDS AbTest, AccountTree, FiniteSetTheorems, TLAPS

\* None is no actor and no gateway.
LEMMA NoneApart == None \notin Gateways /\ None \notin Decisions /\ None \notin Outcomes
BY NoneAssumption

USE FaultsAssumption, NoneApart

-----------------------------------------------------------------------------
(* Type correctness, and the records that calls hold.                      *)

DecRecord == [pc : DecStates, static : BOOLEAN, gw : Gateways \cup {None},
              first : BOOLEAN, stale : BOOLEAN]
OutRecord == [pc : OutStates, att : Decisions \cup {None}, status : Statuses,
              ctx : SUBSET Record, life : Nat, stale : BOOLEAN]
EventRecord == [from : Outcomes, att : Decisions, gw : Gateways \cup {None},
                success : BOOLEAN, first : BOOLEAN, life : Nat]

AtMostOne(S) == \A q, r \in S : q = r

\* A static arm has its gateway and no cost; a cost comes with the gateway decided.
Sound(r) == /\ r.static => r.gw # None /\ ~r.cost
            /\ r.cost => r.gw # None

\* A call that stores a static arm has its gateway, and one that has been routed.
Routed(d) == /\ dec[d].pc \in {"flag", "store"} /\ dec[d].static => dec[d].gw # None
             /\ dec[d].pc \in {"costFlag", "cost"} => dec[d].gw # None

\* An outcome holds one record, and has an attempt.
Holds(o) == /\ AtMostOne(out[o].ctx)
            /\ \A r \in out[o].ctx : Sound(r)
            /\ out[o].pc \in {"read", "write"} => out[o].att \in Decisions

TypeInv ==
  /\ rec \subseteq Record /\ AtMostOne(rec) /\ \A r \in rec : Sound(r)
  /\ dec \in [Decisions -> DecRecord] /\ \A d \in Decisions : Routed(d)
  /\ out \in [Outcomes -> OutRecord] /\ \A o \in Outcomes : Holds(o)
  /\ events \subseteq EventRecord
  /\ life \in Nat /\ disturbed \in BOOLEAN

LEMMA OneIsCounted == \A S : AtMostOne(S) => Cardinality(S) <= 1
<1> SUFFICES ASSUME NEW S, AtMostOne(S) PROVE Cardinality(S) <= 1
  OBVIOUS
<1>1. CASE S = {}
  BY <1>1, FS_EmptySet
<1>2. CASE S # {}
  <2>1. PICK r \in S : TRUE
    BY <1>2
  <2>2. S = {r}
    BY <2>1 DEF AtMostOne
  <2>3. Cardinality(S) = 1
    BY <2>2, FS_Singleton, Zenon
  <2> QED
    BY <2>3
<1> QED
  BY <1>1, <1>2

\* Whatever overlaps, a static arm's record names its gateway and carries no
\* cost, and a record enriched with a cost names the gateway that was decided.
RecordConsistent == \A r \in rec : Sound(r)

LEMMA TypeInvGives == TypeInv => TypeOK /\ RecordConsistent
BY OneIsCounted DEF TypeInv, TypeOK, RecordConsistent, Sound, DecRecord, OutRecord,
                    EventRecord

\* A write makes reads stale and changes nothing else of the calls.
LEMMA StaleAfterWrite ==
  ASSUME TypeInv, NEW self
  PROVE  /\ DecAfterWrite(self) \in [Decisions -> DecRecord]
         /\ \A d \in Decisions :
              /\ DecAfterWrite(self)[d].pc = dec[d].pc
              /\ DecAfterWrite(self)[d].static = dec[d].static
              /\ DecAfterWrite(self)[d].gw = dec[d].gw
              /\ DecAfterWrite(self)[d].first = dec[d].first
              /\ dec[d].stale => DecAfterWrite(self)[d].stale
              /\ d # self /\ dec[d].pc \in {"store", "cost"}
                   => DecAfterWrite(self)[d].stale
         /\ OutAfterWrite(self) \in [Outcomes -> OutRecord]
         /\ \A o \in Outcomes :
              /\ OutAfterWrite(self)[o].pc = out[o].pc
              /\ OutAfterWrite(self)[o].att = out[o].att
              /\ OutAfterWrite(self)[o].ctx = out[o].ctx
              /\ OutAfterWrite(self)[o].life = out[o].life
              /\ out[o].stale => OutAfterWrite(self)[o].stale
              /\ o # self /\ out[o].pc = "write" => OutAfterWrite(self)[o].stale
<1>1. \A d \in Decisions : dec[d] \in DecRecord
  BY DEF TypeInv
<1>2. \A d \in Decisions :
        DecAfterWrite(self)[d] \in {dec[d], [dec[d] EXCEPT !.stale = TRUE]}
  BY DEF DecAfterWrite
<1>3. \A o \in Outcomes : out[o] \in OutRecord
  BY DEF TypeInv
<1>4. \A o \in Outcomes :
        OutAfterWrite(self)[o] \in {out[o], [out[o] EXCEPT !.stale = TRUE]}
  BY DEF OutAfterWrite
<1>5. DecAfterWrite(self) \in [Decisions -> DecRecord]
  BY <1>1 DEF DecAfterWrite, DecRecord
<1>6. OutAfterWrite(self) \in [Outcomes -> OutRecord]
  BY <1>3 DEF OutAfterWrite, OutRecord
<1>7. ASSUME NEW d \in Decisions
      PROVE  /\ DecAfterWrite(self)[d].pc = dec[d].pc
             /\ DecAfterWrite(self)[d].static = dec[d].static
             /\ DecAfterWrite(self)[d].gw = dec[d].gw
             /\ DecAfterWrite(self)[d].first = dec[d].first
             /\ dec[d].stale => DecAfterWrite(self)[d].stale
             /\ d # self /\ dec[d].pc \in {"store", "cost"}
                  => DecAfterWrite(self)[d].stale
  BY <1>1 DEF DecAfterWrite, DecRecord
<1>8. ASSUME NEW o \in Outcomes
      PROVE  /\ OutAfterWrite(self)[o].pc = out[o].pc
             /\ OutAfterWrite(self)[o].att = out[o].att
             /\ OutAfterWrite(self)[o].ctx = out[o].ctx
             /\ OutAfterWrite(self)[o].life = out[o].life
             /\ out[o].stale => OutAfterWrite(self)[o].stale
             /\ o # self /\ out[o].pc = "write" => OutAfterWrite(self)[o].stale
  BY <1>3 DEF OutAfterWrite, OutRecord
<1> QED
  BY <1>5, <1>6, <1>7, <1>8

LEMMA InitTypes == Init => TypeInv
<1> SUFFICES ASSUME Init PROVE TypeInv
  OBVIOUS
<1> USE DEF Init
<1>1. IdleDec \in DecRecord /\ IdleOut \in OutRecord
  BY DEF IdleDec, IdleOut, DecRecord, OutRecord, DecStates, OutStates, Statuses
<1>2. dec \in [Decisions -> DecRecord] /\ out \in [Outcomes -> OutRecord]
  BY <1>1
<1>3. \A d \in Decisions : Routed(d)
  BY DEF Routed, IdleDec
<1>4. \A o \in Outcomes : Holds(o)
  BY DEF Holds, IdleOut, AtMostOne
<1> QED
  BY <1>2, <1>3, <1>4 DEF TypeInv, AtMostOne

\* A step that changes one routing call and nothing of the key or the outcomes.
LEMMA CallMoves ==
  ASSUME TypeInv, NEW d \in Decisions, NEW c \in DecRecord,
         dec' = [dec EXCEPT ![d] = c],
         c.pc \in {"flag", "store"} /\ c.static => c.gw # None,
         c.pc \in {"costFlag", "cost"} => c.gw # None,
         rec' = rec, out' = out, events' = events, life' = life,
         disturbed' \in BOOLEAN
  PROVE  TypeInv'
<1>1. \A x \in Decisions : Routed(x)'
  BY DEF TypeInv, Routed
<1>2. \A o \in Outcomes : Holds(o)'
  BY DEF TypeInv, Holds
<1> QED
  BY <1>1, <1>2 DEF TypeInv

LEMMA InterceptTypes ==
  ASSUME TypeInv, NEW d \in Decisions, Intercept(d)
  PROVE  TypeInv'
<1>1. dec[d] \in DecRecord /\ disturbed \in BOOLEAN
  BY DEF TypeInv
<1>2. CASE dec' = [dec EXCEPT ![d].pc = "done"]
  <2> DEFINE c == [dec[d] EXCEPT !.pc = "done"]
  <2>1. c \in DecRecord /\ c.pc = "done"
    BY <1>1 DEF DecRecord, DecStates
  <2>2. dec' = [dec EXCEPT ![d] = c]
    BY <1>2
  <2> QED
    BY <1>1, <2>1, <2>2, CallMoves DEF Intercept
<1>3. ASSUME NEW g \in Gateways \cup {None},
             dec' = [dec EXCEPT ![d] = [IdleDec EXCEPT !.pc = "flag", !.gw = g,
                                                       !.static = (g # None)]]
      PROVE  TypeInv'
  <2> DEFINE c == [IdleDec EXCEPT !.pc = "flag", !.gw = g, !.static = (g # None)]
  <2>1. c \in DecRecord /\ c.pc = "flag" /\ c.static = (g # None) /\ c.gw = g
    BY DEF IdleDec, DecRecord, DecStates
  <2> HIDE DEF c
  <2> QED
    BY <1>1, <1>3, <2>1, CallMoves DEF Intercept, c
<1> QED
  BY <1>2, <1>3 DEF Intercept

LEMMA ReadFlagTypes ==
  ASSUME TypeInv, NEW d \in Decisions, NEW from, NEW to,
         <<from, to>> \in {<<"flag", "store">>, <<"costFlag", "cost">>},
         ReadFlag(d, from, to)
  PROVE  TypeInv'
<1>1. dec[d] \in DecRecord /\ Routed(d)
  BY DEF TypeInv
<1>2. PICK seen \in BOOLEAN :
        /\ dec' = [dec EXCEPT ![d].pc = to, ![d].first = FlagNow(seen),
                              ![d].stale = FALSE]
        /\ disturbed' = (disturbed \/ seen # RecordedFirst)
  BY DEF ReadFlag
<1> DEFINE c == [dec[d] EXCEPT !.pc = to, !.first = seen, !.stale = FALSE]
<1>3. c \in DecRecord /\ c.pc = to /\ c.static = dec[d].static /\ c.gw = dec[d].gw
  BY <1>1 DEF DecRecord, DecStates
<1>4. dec' = [dec EXCEPT ![d] = c]
  BY <1>2 DEF FlagNow
<1>5. disturbed' \in BOOLEAN
  BY <1>2 DEF TypeInv
<1> HIDE DEF c
<1> QED
  BY <1>1, <1>3, <1>4, <1>5, CallMoves DEF ReadFlag, Routed

LEMMA RouteTypes ==
  ASSUME TypeInv, NEW d \in Decisions, Route(d)
  PROVE  TypeInv'
<1>1. dec[d] \in DecRecord /\ disturbed \in BOOLEAN
  BY DEF TypeInv
<1>2. CASE dec' = [dec EXCEPT ![d].pc = "done"]
  <2> DEFINE c == [dec[d] EXCEPT !.pc = "done"]
  <2>1. c \in DecRecord /\ c.pc = "done"
    BY <1>1 DEF DecRecord, DecStates
  <2>2. dec' = [dec EXCEPT ![d] = c]
    BY <1>2
  <2> QED
    BY <1>1, <2>1, <2>2, CallMoves DEF Route
<1>3. ASSUME NEW g \in Gateways,
             dec' = [dec EXCEPT ![d].pc = "costFlag", ![d].gw = g]
      PROVE  TypeInv'
  <2> DEFINE c == [dec[d] EXCEPT !.pc = "costFlag", !.gw = g]
  <2>1. c \in DecRecord /\ c.pc = "costFlag" /\ c.gw # None
    BY <1>1 DEF DecRecord, DecStates
  <2>2. dec' = [dec EXCEPT ![d] = c]
    BY <1>3
  <2> HIDE DEF c
  <2> QED
    BY <1>1, <2>1, <2>2, CallMoves DEF Route
<1> QED
  BY <1>2, <1>3 DEF Route

\* A call that has written or failed to write its record.
LEMMA PutTypes ==
  ASSUME TypeInv, NEW d \in Decisions, NEW r \in Record, Sound(r),
         NEW to \in {"route", "done"}, Put(d, r, to)
  PROVE  TypeInv'
<1>1. CASE Faults /\ dec' = [dec EXCEPT ![d].pc = to] /\ disturbed' = TRUE
           /\ UNCHANGED <<rec, out, life>>
  <2> DEFINE c == [dec[d] EXCEPT !.pc = to]
  <2>1. dec[d] \in DecRecord
    BY DEF TypeInv
  <2>2. c \in DecRecord /\ c.pc = to
    BY <2>1 DEF DecRecord, DecStates
  <2>3. dec' = [dec EXCEPT ![d] = c]
    BY <1>1
  <2> HIDE DEF c
  <2> QED
    BY <1>1, <2>2, <2>3, CallMoves DEF Put
<1>2. CASE /\ rec' = {r}
           /\ life' = IF rec = {} THEN life + 1 ELSE life
           /\ dec' = [DecAfterWrite(d) EXCEPT ![d].pc = to]
           /\ out' = OutAfterWrite(None)
           /\ disturbed' = (disturbed \/ dec[d].stale)
  <2>1. dec' \in [Decisions -> DecRecord]
    <3>1. DecAfterWrite(d) \in [Decisions -> DecRecord]
      BY StaleAfterWrite
    <3> QED
      BY <1>2, <3>1 DEF DecRecord, DecStates
  <2>2. \A x \in Decisions : Routed(x)'
    <3> SUFFICES ASSUME NEW x \in Decisions PROVE Routed(x)'
      OBVIOUS
    <3>1. /\ DecAfterWrite(d) \in [Decisions -> DecRecord]
          /\ DecAfterWrite(d)[x].pc = dec[x].pc
          /\ DecAfterWrite(d)[x].static = dec[x].static
          /\ DecAfterWrite(d)[x].gw = dec[x].gw
      BY StaleAfterWrite
    <3>2. CASE x = d
      <4>1. dec'[x].pc = to
        BY <1>2, <3>1, <3>2 DEF DecRecord
      <4> QED
        BY <4>1 DEF Routed
    <3>3. CASE x # d
      <4>1. dec'[x] = DecAfterWrite(d)[x]
        BY <1>2, <3>1, <3>3
      <4> QED
        BY <3>1, <4>1 DEF Routed, TypeInv
    <3> QED
      BY <3>2, <3>3
  <2>3. out' \in [Outcomes -> OutRecord]
    BY <1>2, StaleAfterWrite
  <2>4. \A o \in Outcomes : Holds(o)'
    <3> SUFFICES ASSUME NEW o \in Outcomes PROVE Holds(o)'
      OBVIOUS
    <3>1. /\ out'[o].pc = out[o].pc
          /\ out'[o].ctx = out[o].ctx
          /\ out'[o].att = out[o].att
      BY <1>2, StaleAfterWrite
    <3> QED
      BY <3>1 DEF Holds, TypeInv
  <2>5. rec' \subseteq Record /\ AtMostOne(rec') /\ \A q \in rec' : Sound(q)
    BY <1>2 DEF AtMostOne
  <2>6. life' \in Nat /\ disturbed' \in BOOLEAN
    <3>1. dec[d].stale \in BOOLEAN /\ life \in Nat /\ disturbed \in BOOLEAN
      BY DEF TypeInv, DecRecord
    <3> QED
      BY <1>2, <3>1
  <2> QED
    BY <2>1, <2>2, <2>3, <2>4, <2>5, <2>6 DEF TypeInv, Put
<1> QED
  BY <1>1, <1>2 DEF Put

LEMMA StoreInflightTypes ==
  ASSUME TypeInv, NEW d \in Decisions, StoreInflight(d)
  PROVE  TypeInv'
<1> DEFINE r == [gw |-> dec[d].gw, static |-> dec[d].static, cost |-> FALSE,
                 first |-> dec[d].first]
           to == IF dec[d].static THEN "done" ELSE "route"
<1>1. dec[d] \in DecRecord /\ Routed(d)
  BY DEF TypeInv
<1>2. r \in Record
  BY <1>1 DEF DecRecord, Record
<1>3. Sound(r)
  BY <1>1 DEF Sound, Routed, StoreInflight
<1>4. to \in {"route", "done"} /\ Put(d, r, to)
  BY DEF StoreInflight
<1> HIDE DEF r, to
<1> QED
  BY <1>2, <1>3, <1>4, PutTypes

LEMMA RecordCostOutcomeTypes ==
  ASSUME TypeInv, NEW d \in Decisions, RecordCostOutcome(d)
  PROVE  TypeInv'
<1> DEFINE r(c) == [gw |-> dec[d].gw, static |-> FALSE, cost |-> c,
                    first |-> dec[d].first]
<1>1. PICK c \in BOOLEAN : Put(d, r(c), "done")
  BY DEF RecordCostOutcome
<1>2. dec[d] \in DecRecord /\ Routed(d)
  BY DEF TypeInv
<1>3. r(c) \in Record
  BY <1>2 DEF DecRecord, Record
<1>4. Sound(r(c))
  BY <1>2 DEF Sound, Routed, RecordCostOutcome
<1> HIDE DEF r
<1> QED
  BY <1>1, <1>3, <1>4, PutTypes

\* A step that changes one outcome and nothing of the key or the routing calls.
LEMMA OutcomeMoves ==
  ASSUME TypeInv, NEW o \in Outcomes, NEW c \in OutRecord,
         out' = [out EXCEPT ![o] = c],
         AtMostOne(c.ctx), \A r \in c.ctx : Sound(r),
         c.pc \in {"read", "write"} => c.att \in Decisions,
         rec' = rec, dec' = dec, events' \subseteq EventRecord, life' = life,
         disturbed' \in BOOLEAN
  PROVE  TypeInv'
<1>1. \A x \in Decisions : Routed(x)'
  BY DEF TypeInv, Routed
<1>2. \A x \in Outcomes : Holds(x)'
  BY DEF TypeInv, Holds
<1>3. out' \in [Outcomes -> OutRecord]
  BY DEF TypeInv
<1> QED
  BY <1>1, <1>2, <1>3 DEF TypeInv

LEMMA ReportTypes ==
  ASSUME TypeInv, NEW o \in Outcomes, Report(o)
  PROVE  TypeInv'
<1> DEFINE c(d, s) == [IdleOut EXCEPT !.pc = "read", !.att = d, !.status = s]
<1>1. PICK d \in Decisions, s \in Statuses : out' = [out EXCEPT ![o] = c(d, s)]
  BY DEF Report
<1>2. c(d, s) \in OutRecord /\ c(d, s).ctx = {} /\ c(d, s).att = d
  BY DEF IdleOut, OutRecord, OutStates
<1> HIDE DEF c
<1> QED
  BY <1>1, <1>2, OutcomeMoves DEF Report, AtMostOne, TypeInv

LEMMA ReadContextTypes ==
  ASSUME TypeInv, NEW o \in Outcomes, ReadContext(o)
  PROVE  TypeInv'
<1>1. out[o] \in OutRecord /\ Holds(o) /\ life \in Nat /\ rec \in SUBSET Record
  BY DEF TypeInv
<1>2. CASE out' = [out EXCEPT ![o].pc = "write", ![o].ctx = rec, ![o].life = life]
  <2> DEFINE c == [out[o] EXCEPT !.pc = "write", !.ctx = rec, !.life = life]
  <2>1. c \in OutRecord /\ c.pc = "write" /\ c.ctx = rec /\ c.att = out[o].att
    BY <1>1 DEF OutRecord, OutStates
  <2>2. out' = [out EXCEPT ![o] = c]
    BY <1>2
  <2>3. c.att \in Decisions
    BY <1>1, <2>1 DEF Holds, ReadContext
  <2> HIDE DEF c
  <2> QED
    BY <2>1, <2>2, <2>3, OutcomeMoves DEF ReadContext, TypeInv
<1>3. CASE out' = [out EXCEPT ![o].pc = "done"]
  <2> DEFINE c == [out[o] EXCEPT !.pc = "done"]
  <2>1. c \in OutRecord /\ c.pc = "done" /\ c.ctx = out[o].ctx
    BY <1>1 DEF OutRecord, OutStates
  <2>2. out' = [out EXCEPT ![o] = c]
    BY <1>3
  <2> HIDE DEF c
  <2> QED
    BY <1>1, <2>1, <2>2, OutcomeMoves DEF ReadContext, TypeInv, Holds
<1> QED
  BY <1>2, <1>3 DEF ReadContext

\* Marking keeps a key a key of one sound record.
LEMMA KeyAfterTypes ==
  ASSUME NEW ctx \in SUBSET Record, AtMostOne(ctx), \A r \in ctx : Sound(r),
         NEW status
  PROVE  /\ KeyAfter(ctx, status) \subseteq Record
         /\ AtMostOne(KeyAfter(ctx, status))
         /\ \A r \in KeyAfter(ctx, status) : Sound(r)
<1>1. \A r \in ctx : /\ [r EXCEPT !.first = TRUE] \in Record
                     /\ Sound([r EXCEPT !.first = TRUE])
  BY DEF Record, Sound
<1> QED
  BY <1>1 DEF KeyAfter, Marked, AtMostOne

\* A write of the key by an outcome, or its expiry, takes nothing from the calls.
LEMMA WriteTypes ==
  ASSUME TypeInv, NEW self, dec' = DecAfterWrite(None)
  PROVE  /\ dec' \in [Decisions -> DecRecord]
         /\ \A d \in Decisions : Routed(d)'
<1>1. dec' \in [Decisions -> DecRecord]
  BY StaleAfterWrite
<1>2. ASSUME NEW d \in Decisions PROVE Routed(d)'
  <2>1. dec'[d].pc = dec[d].pc /\ dec'[d].static = dec[d].static
        /\ dec'[d].gw = dec[d].gw
    BY StaleAfterWrite
  <2> QED
    BY <2>1 DEF Routed, TypeInv
<1> QED
  BY <1>1, <1>2

\* The events of o.
EventsOf(o) ==
  {[from |-> o, att |-> out[o].att, gw |-> r.gw,
    success |-> out[o].status = "success", first |-> ~r.first,
    life |-> out[o].life] : r \in out[o].ctx}

LEMMA EventsTypes ==
  ASSUME TypeInv, NEW o \in Outcomes, out[o].pc = "write"
  PROVE  EventsOf(o) \subseteq EventRecord
<1> DEFINE e(r) == [from |-> o, att |-> out[o].att, gw |-> r.gw,
                    success |-> out[o].status = "success", first |-> ~r.first,
                    life |-> out[o].life]
<1>1. /\ out[o].att \in Decisions /\ out[o].life \in Nat
      /\ out[o].ctx \subseteq Record
  BY DEF TypeInv, Holds, OutRecord
<1>2. ASSUME NEW r \in out[o].ctx PROVE e(r) \in EventRecord
  <2>1. r.gw \in Gateways \cup {None} /\ r.first \in BOOLEAN
    BY <1>1 DEF Record
  <2>2. (~r.first) \in BOOLEAN /\ (out[o].status = "success") \in BOOLEAN
    OBVIOUS
  <2> QED
    BY <1>1, <2>1, <2>2 DEF EventRecord
<1> QED
  BY <1>2 DEF EventsOf

LEMMA EmitTypes ==
  ASSUME TypeInv, NEW o \in Outcomes, Emit(o)
  PROVE  TypeInv'
<1>1. out[o] \in OutRecord /\ Holds(o) /\ disturbed \in BOOLEAN /\ life \in Nat
  BY DEF TypeInv
<1>2. events' \subseteq EventRecord
  <2>1. events' = events \cup EventsOf(o)
    BY DEF Emit, EventsOf
  <2> QED
    BY <2>1, EventsTypes DEF Emit, TypeInv
<1>3. CASE Faults /\ out' = [out EXCEPT ![o].pc = "done"] /\ disturbed' = TRUE
           /\ UNCHANGED <<rec, dec, life>>
  <2> DEFINE c == [out[o] EXCEPT !.pc = "done"]
  <2>1. c \in OutRecord /\ c.pc = "done" /\ c.ctx = out[o].ctx
    BY <1>1 DEF OutRecord, OutStates
  <2>2. out' = [out EXCEPT ![o] = c]
    BY <1>3
  <2> HIDE DEF c
  <2> QED
    BY <1>1, <1>2, <1>3, <2>1, <2>2, OutcomeMoves DEF Holds
<1>4. CASE /\ rec' = KeyAfter(out[o].ctx, out[o].status)
           /\ life' = IF rec = {} /\ rec' # {} THEN life + 1 ELSE life
           /\ dec' = DecAfterWrite(None)
           /\ out' = [OutAfterWrite(o) EXCEPT ![o].pc = "done"]
           /\ disturbed' = (disturbed \/ out[o].stale)
  <2>1. dec' \in [Decisions -> DecRecord] /\ \A d \in Decisions : Routed(d)'
    BY <1>4, WriteTypes
  <2>2. out' \in [Outcomes -> OutRecord]
    <3>1. OutAfterWrite(o) \in [Outcomes -> OutRecord]
      BY StaleAfterWrite
    <3> QED
      BY <1>4, <3>1 DEF OutRecord, OutStates
  <2>3. ASSUME NEW x \in Outcomes PROVE Holds(x)'
    <3>1. /\ OutAfterWrite(o) \in [Outcomes -> OutRecord]
          /\ OutAfterWrite(o)[x].pc = out[x].pc
          /\ OutAfterWrite(o)[x].ctx = out[x].ctx
          /\ OutAfterWrite(o)[x].att = out[x].att
      BY StaleAfterWrite
    <3>2. /\ out'[x].ctx = out[x].ctx /\ out'[x].att = out[x].att
          /\ out'[x].pc \in {out[x].pc, "done"}
      BY <1>4, <3>1 DEF OutRecord
    <3> QED
      BY <3>2 DEF Holds, TypeInv
  <2>4. rec' \subseteq Record /\ AtMostOne(rec') /\ \A q \in rec' : Sound(q)
    BY <1>1, <1>4, KeyAfterTypes DEF Holds, OutRecord
  <2>5. life' \in Nat /\ disturbed' \in BOOLEAN
    BY <1>1, <1>4 DEF OutRecord
  <2> QED
    BY <1>2, <2>1, <2>2, <2>3, <2>4, <2>5 DEF TypeInv
<1> QED
  BY <1>3, <1>4 DEF Emit

LEMMA ExpireTypes ==
  ASSUME TypeInv, Expire
  PROVE  TypeInv'
<1>1. dec' \in [Decisions -> DecRecord] /\ \A d \in Decisions : Routed(d)'
  BY WriteTypes DEF Expire
<1>2. out' \in [Outcomes -> OutRecord]
  BY StaleAfterWrite DEF Expire
<1>3. ASSUME NEW x \in Outcomes PROVE Holds(x)'
  <2>1. out'[x].ctx = out[x].ctx /\ out'[x].att = out[x].att /\ out'[x].pc = out[x].pc
    BY StaleAfterWrite DEF Expire
  <2> QED
    BY <2>1 DEF Holds, TypeInv
<1> QED
  BY <1>1, <1>2, <1>3 DEF TypeInv, Expire, AtMostOne

LEMMA StepTypes == TypeInv /\ [Next]_vars => TypeInv'
<1> SUFFICES ASSUME TypeInv, [Next]_vars PROVE TypeInv'
  OBVIOUS
<1>1. ASSUME NEW d \in Decisions, DecisionStep(d) PROVE TypeInv'
  BY <1>1, InterceptTypes, StoreInflightTypes, RouteTypes, RecordCostOutcomeTypes,
     ReadFlagTypes DEF DecisionStep
<1>2. ASSUME NEW o \in Outcomes, Report(o) \/ ReadContext(o) \/ Emit(o)
      PROVE  TypeInv'
  BY <1>2, ReportTypes, ReadContextTypes, EmitTypes
<1>3. CASE Expire
  BY <1>3, ExpireTypes
<1>4. CASE UNCHANGED vars
  BY <1>4 DEF vars, TypeInv, Routed, Holds
<1> QED
  BY <1>1, <1>2, <1>3, <1>4 DEF Next

LEMMA TypesAlways == Spec => []TypeInv
BY InitTypes, StepTypes, PTL DEF Spec

\* The key holds one well-formed record or none, whatever overlaps or fails.
THEOREM TypesHold == Spec => []TypeOK
BY TypesAlways, TypeInvGives, PTL

\* A static arm's record names its gateway and no cost, and a cost comes with
\* the gateway that was decided.
THEOREM RecordsConsistent == Spec => []RecordConsistent
BY TypesAlways, TypeInvGives, PTL

-----------------------------------------------------------------------------
(* One first event and one success per life of the record.  The key cannot *)
(* tell how often it was marked or deleted, so the invariant relates it to *)
(* the events: as long as nobody has written over a record he had not      *)
(* read, what a call holds is what the key holds, the events of a record   *)
(* that still exists are no successes, and one that was counted first has  *)
(* left its mark.                                                          *)

\* Nothing read or emitted is of a life to come, and what is read is a record.
NoneAhead ==
  /\ \A e \in events : e.life <= life
  /\ \A o \in Outcomes : /\ out[o].life <= life
                         /\ out[o].pc = "write" => out[o].ctx # {}

CallCurrent(d) ==
  dec[d].pc \in {"store", "cost"} /\ ~dec[d].stale => dec[d].first = RecordedFirst

OutcomeCurrent(o) ==
  out[o].pc = "write" /\ ~out[o].stale => out[o].ctx = rec /\ out[o].life = life

EventsShow ==
  \A e \in events : e.life = life /\ rec # {} => /\ ~e.success
                                                 /\ e.first => RecordedFirst

Tidy == ~disturbed => /\ \A d \in Decisions : CallCurrent(d)
                      /\ \A o \in Outcomes : OutcomeCurrent(o)
                      /\ EventsShow

Counts == /\ NoneAhead /\ Tidy
          /\ FirstOnceIfUndisturbed /\ SuccessEndsLifeIfUndisturbed

LEMMA InitCounts == Init => Counts
BY DEF Init, Counts, NoneAhead, Tidy, CallCurrent, OutcomeCurrent, EventsShow, IdleDec,
       IdleOut, FirstOnceIfUndisturbed, SuccessEndsLifeIfUndisturbed

\* A step that leaves the key and the events alone.
LEMMA QuietStep ==
  ASSUME TypeInv, Counts, rec' = rec, events' = events, life' = life,
         ~disturbed' => ~disturbed,
         ~disturbed' => \A d \in Decisions : CallCurrent(d)',
         \A o \in Outcomes : /\ OutcomeCurrent(o)' \/ disturbed'
                             /\ out'[o].life <= life
                             /\ out'[o].pc = "write" => out'[o].ctx # {}
  PROVE  Counts'
<1>1. NoneAhead'
  BY DEF Counts, NoneAhead
<1>2. Tidy'
  BY DEF Counts, Tidy, EventsShow, RecordedFirst
<1>3. FirstOnceIfUndisturbed' /\ SuccessEndsLifeIfUndisturbed'
  BY DEF Counts, FirstOnceIfUndisturbed, SuccessEndsLifeIfUndisturbed
<1> QED
  BY <1>1, <1>2, <1>3 DEF Counts

\* A quiet step of one routing call.
LEMMA QuietCall ==
  ASSUME TypeInv, Counts, NEW d \in Decisions, NEW c, dec' = [dec EXCEPT ![d] = c],
         rec' = rec, out' = out, events' = events, life' = life,
         ~disturbed' => ~disturbed,
         ~disturbed' /\ c.pc \in {"store", "cost"} => c.first = RecordedFirst
  PROVE  Counts'
<1>1. ASSUME ~disturbed', NEW x \in Decisions PROVE CallCurrent(x)'
  <2>1. CallCurrent(x) /\ dec \in [Decisions -> DecRecord]
    BY <1>1 DEF Counts, Tidy, TypeInv
  <2> QED
    BY <1>1, <2>1 DEF CallCurrent, RecordedFirst
<1>2. ASSUME NEW o \in Outcomes
      PROVE  /\ OutcomeCurrent(o)' \/ disturbed'
             /\ out'[o].life <= life
             /\ out'[o].pc = "write" => out'[o].ctx # {}
  BY DEF Counts, Tidy, NoneAhead, OutcomeCurrent
<1> QED
  BY <1>1, <1>2, QuietStep

\* A quiet step of one outcome.
LEMMA QuietOutcome ==
  ASSUME TypeInv, Counts, NEW o \in Outcomes, NEW c, out' = [out EXCEPT ![o] = c],
         rec' = rec, dec' = dec, events' = events, life' = life,
         disturbed' = disturbed, c.life <= life,
         c.pc = "write" => c.ctx # {} /\ c.ctx = rec /\ c.life = life
  PROVE  Counts'
<1>1. ASSUME ~disturbed', NEW x \in Decisions PROVE CallCurrent(x)'
  BY <1>1 DEF Counts, Tidy, CallCurrent, RecordedFirst
<1>2. ASSUME NEW x \in Outcomes
      PROVE  /\ OutcomeCurrent(x)' \/ disturbed'
             /\ out'[x].life <= life
             /\ out'[x].pc = "write" => out'[x].ctx # {}
  BY DEF Counts, Tidy, NoneAhead, OutcomeCurrent, TypeInv
<1> QED
  BY <1>1, <1>2, QuietStep

LEMMA InterceptCounts ==
  ASSUME TypeInv, Counts, NEW d \in Decisions, Intercept(d)
  PROVE  Counts'
<1>1. dec \in [Decisions -> DecRecord]
  BY DEF TypeInv
<1>2. PICK c : dec' = [dec EXCEPT ![d] = c] /\ c.pc \in {"flag", "done"}
  <2>1. CASE dec' = [dec EXCEPT ![d].pc = "done"]
    <3>1. [dec[d] EXCEPT !.pc = "done"].pc = "done"
      BY <1>1 DEF DecRecord
    <3> QED
      BY <2>1, <3>1
  <2>2. ASSUME NEW g \in Gateways \cup {None},
               dec' = [dec EXCEPT ![d] = [IdleDec EXCEPT !.pc = "flag", !.gw = g,
                                                         !.static = (g # None)]]
        PROVE  \E c : dec' = [dec EXCEPT ![d] = c] /\ c.pc \in {"flag", "done"}
    <3>1. [IdleDec EXCEPT !.pc = "flag", !.gw = g, !.static = (g # None)].pc = "flag"
      BY DEF IdleDec
    <3> QED
      BY <2>2, <3>1
  <2> QED
    BY <2>1, <2>2 DEF Intercept
<1> QED
  BY <1>2, QuietCall DEF Intercept

LEMMA ReadFlagCounts ==
  ASSUME TypeInv, Counts, NEW d \in Decisions, NEW from, NEW to, ReadFlag(d, from, to)
  PROVE  Counts'
<1>1. dec[d] \in DecRecord
  BY DEF TypeInv
<1>2. PICK seen \in BOOLEAN :
        /\ dec' = [dec EXCEPT ![d].pc = to, ![d].first = FlagNow(seen),
                              ![d].stale = FALSE]
        /\ disturbed' = (disturbed \/ seen # RecordedFirst)
  BY DEF ReadFlag
<1> DEFINE c == [dec[d] EXCEPT !.pc = to, !.first = seen, !.stale = FALSE]
<1>3. c.first = seen
  BY <1>1 DEF DecRecord
<1>4. dec' = [dec EXCEPT ![d] = c]
  BY <1>2 DEF FlagNow
<1> HIDE DEF c
<1> QED
  BY <1>2, <1>3, <1>4, QuietCall DEF ReadFlag

LEMMA RouteCounts ==
  ASSUME TypeInv, Counts, NEW d \in Decisions, Route(d)
  PROVE  Counts'
<1>1. dec[d] \in DecRecord
  BY DEF TypeInv
<1>2. PICK c : dec' = [dec EXCEPT ![d] = c] /\ c.pc \in {"costFlag", "done"}
  <2>1. CASE dec' = [dec EXCEPT ![d].pc = "done"]
    <3>1. [dec[d] EXCEPT !.pc = "done"].pc = "done"
      BY <1>1 DEF DecRecord
    <3> QED
      BY <2>1, <3>1
  <2>2. ASSUME NEW g \in Gateways,
               dec' = [dec EXCEPT ![d].pc = "costFlag", ![d].gw = g]
        PROVE  \E c : dec' = [dec EXCEPT ![d] = c] /\ c.pc \in {"costFlag", "done"}
    <3>1. [dec[d] EXCEPT !.pc = "costFlag", !.gw = g].pc = "costFlag"
      BY <1>1 DEF DecRecord
    <3> QED
      BY <2>2, <3>1
  <2> QED
    BY <2>1, <2>2 DEF Route
<1> QED
  BY <1>2, QuietCall DEF Route

LEMMA ReportCounts ==
  ASSUME TypeInv, Counts, NEW o \in Outcomes, Report(o)
  PROVE  Counts'
<1> DEFINE c(d, s) == [IdleOut EXCEPT !.pc = "read", !.att = d, !.status = s]
<1>1. PICK d \in Decisions, s \in Statuses : out' = [out EXCEPT ![o] = c(d, s)]
  BY DEF Report
<1>2. c(d, s).pc = "read" /\ c(d, s).life = 0
  BY DEF IdleOut
<1>3. c(d, s).life <= life
  BY <1>2 DEF TypeInv
<1> HIDE DEF c
<1> QED
  BY <1>1, <1>2, <1>3, QuietOutcome DEF Report

LEMMA ReadContextCounts ==
  ASSUME TypeInv, Counts, NEW o \in Outcomes, ReadContext(o)
  PROVE  Counts'
<1>1. out[o] \in OutRecord /\ life \in Nat /\ out[o].life <= life
  BY DEF TypeInv, Counts, NoneAhead
<1>2. CASE rec # {}
           /\ out' = [out EXCEPT ![o].pc = "write", ![o].ctx = rec, ![o].life = life]
  <2> DEFINE c == [out[o] EXCEPT !.pc = "write", !.ctx = rec, !.life = life]
  <2>1. c.pc = "write" /\ c.ctx = rec /\ c.life = life
    BY <1>1 DEF OutRecord
  <2>2. out' = [out EXCEPT ![o] = c]
    BY <1>2
  <2>3. c.ctx # {} /\ c.ctx = rec /\ c.life = life /\ c.life <= life
    BY <1>1, <1>2, <2>1
  <2>4. UNCHANGED <<rec, dec, events, life, disturbed>>
    BY DEF ReadContext
  <2> HIDE DEF c
  <2> QED
    BY <2>2, <2>3, <2>4, QuietOutcome
<1>3. CASE out' = [out EXCEPT ![o].pc = "done"]
  <2> DEFINE c == [out[o] EXCEPT !.pc = "done"]
  <2>1. c.pc = "done" /\ c.life = out[o].life
    BY <1>1 DEF OutRecord
  <2>2. out' = [out EXCEPT ![o] = c]
    BY <1>3
  <2> HIDE DEF c
  <2> QED
    BY <1>1, <2>1, <2>2, QuietOutcome DEF ReadContext
<1> QED
  BY <1>2, <1>3 DEF ReadContext

\* A routing call writes what it read: unless that was out of date, the mark of
\* the record it replaces.
LEMMA PutCounts ==
  ASSUME TypeInv, Counts, NEW d \in Decisions, NEW r \in Record,
         dec[d].pc \in {"store", "cost"}, r.first = dec[d].first,
         NEW to \in {"route", "done"}, Put(d, r, to)
  PROVE  Counts'
<1>0. dec[d] \in DecRecord /\ life \in Nat /\ disturbed \in BOOLEAN
  BY DEF TypeInv
<1>1. CASE Faults /\ dec' = [dec EXCEPT ![d].pc = to] /\ disturbed' = TRUE
           /\ UNCHANGED <<rec, out, life>>
  <2> DEFINE c == [dec[d] EXCEPT !.pc = to]
  <2>1. dec' = [dec EXCEPT ![d] = c]
    BY <1>1
  <2> HIDE DEF c
  <2> QED
    BY <1>1, <2>1, QuietCall DEF Put
<1>2. CASE /\ rec' = {r}
           /\ life' = IF rec = {} THEN life + 1 ELSE life
           /\ dec' = [DecAfterWrite(d) EXCEPT ![d].pc = to]
           /\ out' = OutAfterWrite(None)
           /\ disturbed' = (disturbed \/ dec[d].stale)
  <2>1. events' = events /\ life <= life' /\ (rec = {} => life < life')
    BY <1>0, <1>2 DEF Put
  <2>2. NoneAhead'
    <3>1. ASSUME NEW o \in Outcomes
          PROVE  out'[o].life <= life' /\ (out'[o].pc = "write" => out'[o].ctx # {})
      <4>1. out'[o].life = out[o].life /\ out'[o].pc = out[o].pc
            /\ out'[o].ctx = out[o].ctx
        BY <1>2, StaleAfterWrite
      <4>2. out[o].life \in Nat /\ out[o].life <= life /\ life' \in Nat
        BY <1>0, <1>2 DEF TypeInv, OutRecord, Counts, NoneAhead
      <4> QED
        BY <1>0, <2>1, <4>1, <4>2 DEF Counts, NoneAhead
    <3>2. ASSUME NEW e \in events PROVE e.life <= life'
      <4>1. e.life \in Nat /\ e.life <= life /\ life' \in Nat
        BY <1>0, <1>2 DEF TypeInv, EventRecord, Counts, NoneAhead
      <4> QED
        BY <1>0, <2>1, <4>1
    <3> QED
      BY <2>1, <3>1, <3>2 DEF NoneAhead
  <2>3. Tidy'
    <3> SUFFICES ASSUME ~disturbed'
                 PROVE  (/\ \A x \in Decisions : CallCurrent(x)
                         /\ \A o \in Outcomes : OutcomeCurrent(o)
                         /\ EventsShow)'
      BY DEF Tidy
    <3>1. ~disturbed /\ ~dec[d].stale
      BY <1>2
    <3>2. ASSUME NEW x \in Decisions PROVE CallCurrent(x)'
      <4>1. /\ DecAfterWrite(d) \in [Decisions -> DecRecord]
            /\ DecAfterWrite(d)[x].pc = dec[x].pc
            /\ x # d /\ dec[x].pc \in {"store", "cost"} => DecAfterWrite(d)[x].stale
        BY StaleAfterWrite
      <4>2. CASE x = d
        <5>1. dec'[x].pc = to
          BY <1>2, <4>1, <4>2 DEF DecRecord
        <5> QED
          BY <5>1 DEF CallCurrent
      <4>3. CASE x # d
        <5>1. dec'[x] = DecAfterWrite(d)[x]
          BY <1>2, <4>1, <4>3
        <5> QED
          BY <4>1, <4>3, <5>1 DEF CallCurrent
      <4> QED
        BY <4>2, <4>3
    <3>3. ASSUME NEW o \in Outcomes PROVE OutcomeCurrent(o)'
      <4>1. /\ out'[o].pc = out[o].pc
            /\ out[o].pc = "write" => out'[o].stale
        BY <1>2, StaleAfterWrite
      <4> QED
        BY <4>1 DEF OutcomeCurrent
    <3>4. EventsShow'
      <4>0. r.first \in BOOLEAN
        BY DEF Record
      <4>1. RecordedFirst' = r.first
        <5>1. RecordedFirst' <=> r.first
          BY <1>2 DEF RecordedFirst
        <5> QED
          BY <4>0, <5>1 DEF RecordedFirst
      <4>2. r.first = RecordedFirst
        BY <3>1 DEF Counts, Tidy, CallCurrent
      <4>3. ASSUME NEW e \in events, e.life = life'
            PROVE  ~e.success /\ (e.first => RecordedFirst)
        <5>1. e.life \in Nat /\ e.life <= life
          BY DEF TypeInv, EventRecord, Counts, NoneAhead
        <5>2. rec # {} /\ life' = life
          BY <1>0, <1>2, <2>1, <4>3, <5>1
        <5> QED
          BY <3>1, <4>3, <5>2 DEF Counts, Tidy, EventsShow
      <4> QED
        BY <2>1, <4>1, <4>2, <4>3 DEF EventsShow
    <3> QED
      BY <3>2, <3>3, <3>4
  <2>4. FirstOnceIfUndisturbed' /\ SuccessEndsLifeIfUndisturbed'
    BY <1>2, <2>1 DEF Counts, FirstOnceIfUndisturbed, SuccessEndsLifeIfUndisturbed
  <2> QED
    BY <2>2, <2>3, <2>4 DEF Counts
<1> QED
  BY <1>1, <1>2 DEF Put

LEMMA StoreInflightCounts ==
  ASSUME TypeInv, Counts, NEW d \in Decisions, StoreInflight(d)
  PROVE  Counts'
<1> DEFINE r == [gw |-> dec[d].gw, static |-> dec[d].static, cost |-> FALSE,
                 first |-> dec[d].first]
           to == IF dec[d].static THEN "done" ELSE "route"
<1>1. r \in Record /\ r.first = dec[d].first
  BY DEF TypeInv, DecRecord, Record
<1>2. to \in {"route", "done"} /\ Put(d, r, to) /\ dec[d].pc \in {"store", "cost"}
  BY DEF StoreInflight
<1> HIDE DEF r, to
<1> QED
  BY <1>1, <1>2, PutCounts

LEMMA RecordCostOutcomeCounts ==
  ASSUME TypeInv, Counts, NEW d \in Decisions, RecordCostOutcome(d)
  PROVE  Counts'
<1> DEFINE r(c) == [gw |-> dec[d].gw, static |-> FALSE, cost |-> c,
                    first |-> dec[d].first]
<1>1. PICK c \in BOOLEAN : Put(d, r(c), "done")
  BY DEF RecordCostOutcome
<1>2. r(c) \in Record /\ r(c).first = dec[d].first
  BY DEF TypeInv, DecRecord, Record
<1>3. dec[d].pc \in {"store", "cost"}
  BY DEF RecordCostOutcome
<1> HIDE DEF r
<1> QED
  BY <1>1, <1>2, <1>3, PutCounts

\* After a write nobody else holds a current record.
LEMMA NobodyCurrent ==
  ASSUME TypeInv, NEW o, dec' = DecAfterWrite(None),
         \/ o = None /\ out' = OutAfterWrite(None)
         \/ o \in Outcomes /\ out' = [OutAfterWrite(o) EXCEPT ![o].pc = "done"]
  PROVE  /\ \A d \in Decisions : CallCurrent(d)'
         /\ \A x \in Outcomes :
              /\ OutcomeCurrent(x)'
              /\ out'[x].life = out[x].life
              /\ out'[x].ctx = out[x].ctx
              /\ out'[x].pc \in {out[x].pc, "done"}
<1>1. ASSUME NEW d \in Decisions PROVE CallCurrent(d)'
  <2>1. /\ dec'[d].pc = dec[d].pc
        /\ dec[d].pc \in {"store", "cost"} => dec'[d].stale
    BY StaleAfterWrite
  <2> QED
    BY <2>1 DEF CallCurrent
<1>2. ASSUME NEW x \in Outcomes
      PROVE  /\ OutcomeCurrent(x)'
             /\ out'[x].life = out[x].life
             /\ out'[x].ctx = out[x].ctx
             /\ out'[x].pc \in {out[x].pc, "done"}
  <2>1. /\ OutAfterWrite(o) \in [Outcomes -> OutRecord]
        /\ OutAfterWrite(o)[x].pc = out[x].pc
        /\ OutAfterWrite(o)[x].life = out[x].life
        /\ OutAfterWrite(o)[x].ctx = out[x].ctx
        /\ x # o /\ out[x].pc = "write" => OutAfterWrite(o)[x].stale
    BY StaleAfterWrite
  <2>2. CASE x = o
    <3>1. out' = [OutAfterWrite(o) EXCEPT ![o].pc = "done"]
      BY <2>2
    <3>2. /\ out'[x].pc = "done" /\ out'[x].life = out[x].life
          /\ out'[x].ctx = out[x].ctx
      BY <2>1, <2>2, <3>1 DEF OutRecord
    <3> QED
      BY <3>2 DEF OutcomeCurrent
  <2>3. CASE x # o
    <3>1. out'[x] = OutAfterWrite(o)[x]
      BY <2>1, <2>3
    <3> QED
      BY <2>1, <2>3, <3>1 DEF OutcomeCurrent
  <2> QED
    BY <2>2, <2>3
<1> QED
  BY <1>1, <1>2

LEMMA ExpireCounts ==
  ASSUME TypeInv, Counts, Expire
  PROVE  Counts'
<1> USE DEF Expire
<1>0. dec' = DecAfterWrite(None) /\ out' = OutAfterWrite(None)
  OBVIOUS
<1>1. /\ \A d \in Decisions : CallCurrent(d)'
      /\ \A x \in Outcomes :
           /\ OutcomeCurrent(x)'
           /\ out'[x].life = out[x].life
           /\ out'[x].ctx = out[x].ctx
           /\ out'[x].pc \in {out[x].pc, "done"}
  BY <1>0, NobodyCurrent
<1>2. NoneAhead'
  BY <1>1 DEF Counts, NoneAhead
<1>3. Tidy'
  BY <1>1 DEF Tidy, EventsShow
<1>4. FirstOnceIfUndisturbed' /\ SuccessEndsLifeIfUndisturbed'
  BY DEF Counts, FirstOnceIfUndisturbed, SuccessEndsLifeIfUndisturbed
<1> QED
  BY <1>2, <1>3, <1>4 DEF Counts

\* What an outcome emits is of the life it read.
LEMMA EventsAreRead ==
  ASSUME TypeInv, NEW o \in Outcomes, NEW e \in EventsOf(o)
  PROVE  /\ e.life = out[o].life /\ e.success = (out[o].status = "success")
         /\ \E r \in out[o].ctx :
              e = [from |-> o, att |-> out[o].att, gw |-> r.gw,
                   success |-> out[o].status = "success", first |-> ~r.first,
                   life |-> out[o].life]
         /\ \E r \in out[o].ctx : e.first = ~r.first
BY DEF EventsOf

LEMMA EmitCounts ==
  ASSUME TypeInv, Counts, NEW o \in Outcomes, Emit(o)
  PROVE  Counts'
<1>0. out[o] \in OutRecord /\ life \in Nat /\ disturbed \in BOOLEAN /\ out[o].life <= life
  BY DEF TypeInv, Counts, NoneAhead
<1>1. events' = events \cup EventsOf(o)
  BY DEF Emit, EventsOf
<1>2. \A e \in events' : e.life \in Nat /\ e.life <= life
  <2>1. \A e \in events : e.life \in Nat /\ e.life <= life
    BY DEF TypeInv, EventRecord, Counts, NoneAhead
  <2>2. \A e \in EventsOf(o) : e.life = out[o].life
    BY EventsAreRead
  <2> QED
    BY <1>0, <1>1, <2>1, <2>2 DEF OutRecord
<1>3. CASE Faults /\ out' = [out EXCEPT ![o].pc = "done"] /\ disturbed' = TRUE
           /\ UNCHANGED <<rec, dec, life>>
  <2>1. \A x \in Outcomes : /\ out'[x].life = out[x].life
                            /\ out'[x].ctx = out[x].ctx
                            /\ out'[x].pc \in {out[x].pc, "done"}
    BY <1>0, <1>3 DEF TypeInv, OutRecord
  <2>2. NoneAhead'
    BY <1>2, <1>3, <2>1 DEF Counts, NoneAhead
  <2> QED
    BY <1>3, <2>2 DEF Counts, Tidy, FirstOnceIfUndisturbed, SuccessEndsLifeIfUndisturbed
<1>4. CASE /\ rec' = KeyAfter(out[o].ctx, out[o].status)
           /\ life' = IF rec = {} /\ rec' # {} THEN life + 1 ELSE life
           /\ dec' = DecAfterWrite(None)
           /\ out' = [OutAfterWrite(o) EXCEPT ![o].pc = "done"]
           /\ disturbed' = (disturbed \/ out[o].stale)
  <2>1. life' \in Nat /\ life <= life'
    BY <1>0, <1>4
  <2>2. /\ \A d \in Decisions : CallCurrent(d)'
        /\ \A x \in Outcomes :
             /\ OutcomeCurrent(x)'
             /\ out'[x].life = out[x].life
             /\ out'[x].ctx = out[x].ctx
             /\ out'[x].pc \in {out[x].pc, "done"}
    BY <1>4, NobodyCurrent
  <2>3. NoneAhead'
    <3>1. \A x \in Outcomes : out[x].life \in Nat /\ out[x].life <= life
      BY DEF TypeInv, OutRecord, Counts, NoneAhead
    <3>2. \A x \in Outcomes : out'[x].life <= life'
      BY <1>0, <2>1, <2>2, <3>1
    <3>3. \A e \in events' : e.life <= life'
      BY <1>0, <1>2, <2>1
    <3>4. \A x \in Outcomes : out'[x].pc = "write" => out'[x].ctx # {}
      BY <2>2 DEF Counts, NoneAhead
    <3> QED
      BY <3>2, <3>3, <3>4 DEF NoneAhead
  <2>4. ASSUME ~disturbed'
        PROVE  EventsShow' /\ FirstOnceIfUndisturbed' /\ SuccessEndsLifeIfUndisturbed'
    <3>1. ~disturbed /\ ~out[o].stale
      BY <1>4, <2>4
    <3>2. out[o].ctx = rec /\ out[o].life = life /\ rec # {}
      BY <3>1 DEF Counts, Tidy, OutcomeCurrent, NoneAhead, Emit
    <3>3. PICK r \in rec : rec = {r} /\ r \in Record
      BY <3>2 DEF TypeInv, AtMostOne
    <3>4. life' = life
      BY <1>4, <3>2
    <3>5. r.first \in BOOLEAN /\ (RecordedFirst <=> r.first)
      BY <3>3 DEF Record, RecordedFirst
    <3> DEFINE new == [from |-> o, att |-> out[o].att, gw |-> r.gw,
                       success |-> out[o].status = "success", first |-> ~r.first,
                       life |-> out[o].life]
    <3>6. events' = events \cup {new}
      BY <1>1, <3>2, <3>3 DEF EventsOf
    <3>7. /\ new.life = life /\ new.first = ~r.first
          /\ new.success = (out[o].status = "success")
      BY <3>2
    <3> HIDE DEF new
    <3>8. \A e \in events : e.life = life => ~e.success /\ (e.first => r.first)
      BY <3>1, <3>2, <3>5 DEF Counts, Tidy, EventsShow
    <3>9. EventsShow'
      <4>1. CASE out[o].status = "success"
        <5>1. rec' = {}
          BY <1>4, <4>1 DEF KeyAfter
        <5> QED
          BY <5>1 DEF EventsShow
      <4>2. CASE out[o].status # "success"
        <5>1. rec' = Marked(rec)
          BY <1>4, <3>2, <4>2 DEF KeyAfter
        <5>2. [r EXCEPT !.first = TRUE] \in rec'
          BY <3>3, <5>1 DEF Marked
        <5>3. [r EXCEPT !.first = TRUE].first
          BY <3>3 DEF Record
        <5>4. RecordedFirst'
          BY <5>2, <5>3 DEF RecordedFirst
        <5> QED
          BY <3>4, <3>6, <3>7, <3>8, <4>2, <5>4 DEF EventsShow
      <4> QED
        BY <4>1, <4>2
    <3>10. FirstOnceIfUndisturbed'
      BY <3>1, <3>6, <3>7, <3>8, <3>5 DEF Counts, FirstOnceIfUndisturbed
    <3>11. SuccessEndsLifeIfUndisturbed'
      BY <3>1, <3>6, <3>7, <3>8 DEF Counts, SuccessEndsLifeIfUndisturbed
    <3> QED
      BY <3>9, <3>10, <3>11
  <2> QED
    BY <2>2, <2>3, <2>4
       DEF Counts, Tidy, FirstOnceIfUndisturbed, SuccessEndsLifeIfUndisturbed
<1> QED
  BY <1>3, <1>4 DEF Emit

LEMMA StepCounts == TypeInv /\ Counts /\ [Next]_vars => Counts'
<1> SUFFICES ASSUME TypeInv, Counts, [Next]_vars PROVE Counts'
  OBVIOUS
<1>1. ASSUME NEW d \in Decisions, DecisionStep(d) PROVE Counts'
  BY <1>1, InterceptCounts, StoreInflightCounts, RouteCounts, RecordCostOutcomeCounts,
     ReadFlagCounts DEF DecisionStep
<1>2. ASSUME NEW o \in Outcomes, Report(o) \/ ReadContext(o) \/ Emit(o)
      PROVE  Counts'
  BY <1>2, ReportCounts, ReadContextCounts, EmitCounts
<1>3. CASE Expire
  BY <1>3, ExpireCounts
<1>4. CASE UNCHANGED vars
  BY <1>4 DEF vars, Counts, NoneAhead, Tidy, CallCurrent, OutcomeCurrent, EventsShow,
              RecordedFirst, FirstOnceIfUndisturbed, SuccessEndsLifeIfUndisturbed
<1> QED
  BY <1>1, <1>2, <1>3, <1>4 DEF Next

LEMMA CountsAlways == Spec => []Counts
<1>1. TypeInv /\ Counts /\ [Next]_vars => TypeInv' /\ Counts'
  BY StepTypes, StepCounts
<1> QED
  BY <1>1, InitCounts, InitTypes, TypesAlways, PTL DEF Spec

\* Without overlap and faults one event per life of the record counts as the
\* first attempt.
THEOREM FirstOnce == Spec => []FirstOnceIfUndisturbed
BY CountsAlways, PTL DEF Counts

\* Without overlap and faults the record dies with the first success.
THEOREM SuccessEndsLife == Spec => []SuccessEndsLifeIfUndisturbed
BY CountsAlways, PTL DEF Counts

-----------------------------------------------------------------------------
(* The account tree.  A row that nobody has changed since a process read it *)
(* is what the process remembers; what a sync carries to the table holds    *)
(* what every sync before it has listed there, unless a read that failed or *)
(* is out of date stands between them.                                      *)

USE TreeAssumption DEF Tree!HierarchyAssumption

\* The ids an entry lists are of the level below.
IdsOf(name) == IF name \in HsMerchants THEN Profiles
               ELSE IF name \in Orgs THEN HsMerchants ELSE Orgs

Forward == {"fill", "insert", "update", "evict"}
Reverse == {"look", "add", "replace"}

SyncTypes(s) ==
  /\ sync[s].pc \in Forward \cup {"scopes"} => sync[s].left \subseteq DOMAIN TreeOf[s]
  /\ sync[s].pc \in Forward => sync[s].at \in sync[s].left
  /\ sync[s].pc = "fill" => sync[s].val \in Tree!Ancestries
  /\ sync[s].pc \in Reverse \cup {"entries"} => sync[s].left \subseteq Tree!NamesOf(s)
  /\ sync[s].pc \in Reverse => /\ sync[s].at \in sync[s].left
                               /\ sync[s].val \subseteq IdsOf(sync[s].at)

WalkTypes(w) == walk[w].pc = "fill" => walk[w].at \in Profiles

WalkRecords == [pc : {"idle", "walk", "fill"}, node : Profiles \cup Tree!Names,
                above : SUBSET HsMerchants, left : SUBSET Profiles,
                at : Profiles \cup {Root}, val : Tree!Ancestries, found : SUBSET Profiles]

TreeTypes ==
  /\ rows \in [Profiles -> SUBSET Tree!Ancestries]
  /\ entries = [name \in Tree!Names |-> entries[name]]
  /\ \A name \in Tree!Names : entries[name] \subseteq SUBSET IdsOf(name)
  /\ mem \in [Nodes -> [Profiles -> SUBSET Tree!Ancestries]]
  /\ sync = [s \in Syncs |-> sync[s]] /\ \A s \in Syncs : SyncTypes(s)
  /\ walk \in [Walks -> WalkRecords] /\ \A w \in Walks : WalkTypes(w)
  /\ placedBy \in [Profiles -> SUBSET Syncs]
  /\ wrote \in [Tree!Names -> SUBSET Syncs]
  /\ blind \subseteq Syncs /\ lost \subseteq Syncs
  /\ stale \in [Nodes -> SUBSET Profiles]

\* What a process remembers and is about to remember of a profile that has not
\* changed since is one of its rows.
InMind ==
  \A n \in Nodes : \A p \in Profiles \ stale[n] :
    /\ mem[n][p] \subseteq rows[p]
    /\ \A s \in Syncs : NodeOf[s] = n /\ sync[s].pc = "fill" /\ sync[s].at = p
                          => sync[s].val \in rows[p]
    /\ \A w \in Walks : NodeOf[w] = n /\ walk[w].pc = "fill" /\ walk[w].at = p
                          => walk[w].val \in rows[p]

Placed ==
  \A p \in Profiles, s \in Syncs :
    placedBy[p] = {s} => p \in DOMAIN TreeOf[s] /\ rows[p] = {Tree!Place(s, p)}

Listing(name) ==
  /\ wrote[name] # {} => entries[name] # {}
  /\ \A s \in wrote[name] \ lost : \A ids \in entries[name] :
       Tree!Listed(s, name) \subseteq ids

Carried(t) ==
  LET name == sync[t].at IN
  sync[t].pc \in Reverse =>
    /\ Tree!Listed(t, name) \subseteq sync[t].val
    /\ t \notin blind => \A s \in wrote[name] \ lost :
                          Tree!Listed(s, name) \subseteq sync[t].val
    /\ t \notin blind /\ sync[t].pc = "add" => entries[name] = {}

Wrote(s) ==
  /\ sync[s].pc \in Reverse \cup {"entries"} =>
       \A name \in Tree!NamesOf(s) \ sync[s].left : s \in wrote[name]
  /\ sync[s].pc = "done" => \A name \in Tree!NamesOf(s) : s \in wrote[name]

TreeInv ==
  /\ TreeTypes /\ InMind /\ Placed
  /\ \A name \in Tree!Names : Listing(name)
  /\ \A s \in Syncs : Carried(s) /\ Wrote(s)

-----------------------------------------------------------------------------

LEMMA NamesAreNames ==
  ASSUME NEW s \in Syncs
  PROVE  /\ Tree!NamesOf(s) \subseteq Tree!Names
         /\ \A p \in DOMAIN TreeOf[s] : p \in Profiles
              /\ Tree!Place(s, p) \in Tree!Ancestries
         /\ \A name \in Tree!NamesOf(s) : Tree!Listed(s, name) \subseteq IdsOf(name)
BY DEF Tree!NamesOf, Tree!Names, Tree!Listed, Tree!Place, Tree!Ancestries,
   Tree!Places, IdsOf

LEMMA TurnEffect ==
  ASSUME TreeTypes, NEW s \in Syncs, NEW pc, NEW at, NEW v, Tree!Turn(s, pc, at, v)
  PROVE  /\ sync' = [t \in Syncs |-> sync'[t]]
         /\ \A t \in Syncs \ {s} : sync'[t] = sync[t]
         /\ sync'[s].pc = pc /\ sync'[s].left = sync[s].left
         /\ sync'[s].at = at /\ sync'[s].val = v
BY DEF TreeTypes, Tree!Turn

LEMMA NextScopeEffect ==
  ASSUME TreeTypes, NEW s \in Syncs, NEW p, Tree!NextScope(s, p)
  PROVE  /\ sync' = [t \in Syncs |-> sync'[t]]
         /\ \A t \in Syncs \ {s} : sync'[t] = sync[t]
         /\ \/ sync'[s].pc = "entries" /\ sync'[s].left = Tree!NamesOf(s)
            \/ sync'[s].pc = "scopes" /\ sync'[s].left = sync[s].left \ {p}
BY DEF TreeTypes, Tree!NextScope

LEMMA NextNameEffect ==
  ASSUME TreeTypes, NEW s \in Syncs, Tree!NextName(s)
  PROVE  /\ sync' = [t \in Syncs |-> sync'[t]]
         /\ \A t \in Syncs \ {s} : sync'[t] = sync[t]
         /\ sync'[s].pc = IF sync[s].left \ {sync[s].at} = {} THEN "done" ELSE "entries"
         /\ sync'[s].left = sync[s].left \ {sync[s].at}
BY DEF TreeTypes, Tree!NextName

-----------------------------------------------------------------------------
(* What a step leaves alone.                                               *)

\* The parts of the type invariant a step of a sync may touch.
LEMMA SyncFrame ==
  ASSUME TreeTypes, NEW s \in Syncs, SyncTypes(s)',
         sync' = [t \in Syncs |-> sync'[t]], \A t \in Syncs \ {s} : sync'[t] = sync[t],
         UNCHANGED <<entries, walk, wrote>>,
         rows' \in [Profiles -> SUBSET Tree!Ancestries],
         mem' \in [Nodes -> [Profiles -> SUBSET Tree!Ancestries]],
         placedBy' \in [Profiles -> SUBSET Syncs],
         blind' \subseteq Syncs, lost' \subseteq Syncs,
         stale' \in [Nodes -> SUBSET Profiles]
  PROVE  TreeTypes'
<1>1. ASSUME NEW t \in Syncs PROVE SyncTypes(t)'
  <2>1. CASE t = s
    BY <2>1
  <2>2. CASE t # s
    BY <2>2 DEF TreeTypes, SyncTypes
  <2> QED BY <2>1, <2>2
<1>2. ASSUME NEW w \in Walks PROVE WalkTypes(w)'
  BY DEF TreeTypes, WalkTypes
<1> QED BY <1>1, <1>2 DEF TreeTypes

LEMMA ReverseFrame ==
  ASSUME TreeInv, NEW s \in Syncs, UNCHANGED <<entries, wrote, lost>>,
         \A t \in Syncs \ {s} : sync'[t] = sync[t] /\ (t \in blind' <=> t \in blind),
         sync'[s].pc \notin Reverse \cup {"done"},
         sync'[s].pc = "entries" => sync'[s].left = Tree!NamesOf(s)
  PROVE  /\ \A name \in Tree!Names : Listing(name)'
         /\ \A t \in Syncs : Carried(t)' /\ Wrote(t)'
<1>1. ASSUME NEW name \in Tree!Names PROVE Listing(name)'
  BY DEF TreeInv, Listing
<1>2. ASSUME NEW t \in Syncs \ {s} PROVE Carried(t)' /\ Wrote(t)'
  BY DEF TreeInv, Carried, Wrote
<1>3. Carried(s)' /\ Wrote(s)'
  BY DEF Carried, Wrote, Reverse
<1> QED BY <1>1, <1>2, <1>3

LEMMA ForwardFrame ==
  ASSUME TreeInv, NEW s \in Syncs, UNCHANGED <<rows, mem, walk, placedBy, stale>>,
         \A t \in Syncs \ {s} : sync'[t] = sync[t], sync'[s].pc # "fill"
  PROVE  InMind' /\ Placed'
<1>1. InMind'
  BY DEF TreeInv, InMind
<1>2. Placed'
  BY DEF TreeInv, Placed
<1> QED BY <1>1, <1>2

\* Steps of sessions and operators.
LEMMA OthersFrame ==
  ASSUME TreeInv, UNCHANGED <<entries, sync, wrote, blind, lost>>,
         walk' \in [Walks -> WalkRecords], \A w \in Walks : WalkTypes(w)',
         rows' \in [Profiles -> SUBSET Tree!Ancestries],
         mem' \in [Nodes -> [Profiles -> SUBSET Tree!Ancestries]],
         placedBy' \in [Profiles -> SUBSET Syncs],
         stale' \in [Nodes -> SUBSET Profiles],
         InMind', Placed'
  PROVE  TreeInv'
<1>1. TreeTypes'
  BY DEF TreeInv, TreeTypes, SyncTypes
<1>2. \A name \in Tree!Names : Listing(name)'
  BY DEF TreeInv, Listing
<1>3. \A t \in Syncs : Carried(t)' /\ Wrote(t)'
  BY DEF TreeInv, Carried, Wrote
<1> QED BY <1>1, <1>2, <1>3 DEF TreeInv

-----------------------------------------------------------------------------
(* The forward direction.                                                  *)

\* A place a sync has found or written is marked as its own.
LEMMA PlacedStays ==
  ASSUME TreeInv, NEW s \in Syncs, NEW p \in DOMAIN TreeOf[s], rows' = rows,
         \/ placedBy' = placedBy
         \/ rows[p] = {Tree!Place(s, p)} /\ placedBy' = [placedBy EXCEPT ![p] = {s}]
  PROVE  Placed'
<1>1. placedBy \in [Profiles -> SUBSET Syncs] /\ Placed /\ p \in Profiles
  BY NamesAreNames DEF TreeInv, TreeTypes
<1>2. ASSUME NEW q \in Profiles, NEW t \in Syncs, placedBy'[q] = {t}
      PROVE  q \in DOMAIN TreeOf[t] /\ rows[q] = {Tree!Place(t, q)}
  <2>1. CASE placedBy'[q] = placedBy[q]
    BY <1>1, <1>2, <2>1 DEF Placed
  <2>2. CASE q = p /\ placedBy'[q] = {s} /\ rows[p] = {Tree!Place(s, p)}
    <3>1. t = s
      BY <1>2, <2>2
    <3> QED BY <2>2, <3>1
  <2> QED BY <1>1, <2>1, <2>2
<1> QED BY <1>2 DEF Placed, Tree!Place

LEMMA DecideEffect ==
  ASSUME TreeTypes, NEW s \in Syncs, NEW p \in sync[s].left, NEW v, Tree!Decide(s, p, v),
         sync[s].left \subseteq DOMAIN TreeOf[s]
  PROVE  /\ sync' = [t \in Syncs |-> sync'[t]]
         /\ \A t \in Syncs \ {s} : sync'[t] = sync[t]
         /\ SyncTypes(s)'
         /\ sync'[s].pc \in {"scopes", "entries", "update"}
         /\ sync'[s].pc = "entries" => sync'[s].left = Tree!NamesOf(s)
         /\ \/ placedBy' = placedBy
            \/ rows[p] = {Tree!Place(s, p)} /\ placedBy' = [placedBy EXCEPT ![p] = {s}]
<1>1. CASE v = Tree!Place(s, p)
  <2>1. /\ Tree!NextScope(s, p)
        /\ placedBy' = IF rows[p] = {v} THEN [placedBy EXCEPT ![p] = {s}] ELSE placedBy
    BY <1>1, Zenon DEF Tree!Decide
  <2>2. /\ sync' = [t \in Syncs |-> sync'[t]]
        /\ \A t \in Syncs \ {s} : sync'[t] = sync[t]
        /\ \/ sync'[s].pc = "entries" /\ sync'[s].left = Tree!NamesOf(s)
           \/ sync'[s].pc = "scopes" /\ sync'[s].left = sync[s].left \ {p}
    BY <2>1, NextScopeEffect
  <2> QED BY <1>1, <2>1, <2>2 DEF SyncTypes, Forward, Reverse
<1>2. CASE v # Tree!Place(s, p)
  <2>1. Tree!Turn(s, "update", p, v) /\ placedBy' = placedBy
    BY <1>2 DEF Tree!Decide
  <2>2. /\ sync' = [t \in Syncs |-> sync'[t]]
        /\ \A t \in Syncs \ {s} : sync'[t] = sync[t]
        /\ sync'[s].pc = "update" /\ sync'[s].left = sync[s].left /\ sync'[s].at = p
    BY <2>1, TurnEffect
  <2> QED BY <2>1, <2>2 DEF SyncTypes, Forward, Reverse
<1> QED BY <1>1, <1>2

LEMMA LoadScopeStep ==
  ASSUME TreeInv, NEW s \in Syncs, Tree!LoadScope(s)
  PROVE  TreeInv'
<1> USE DEF Forward, Reverse
<1>1. PICK p \in sync[s].left :
        \/ \E v \in mem[NodeOf[s]][p] : Tree!Decide(s, p, v)
        \/ (\E v \in rows[p] : Tree!Turn(s, "fill", p, v)) /\ placedBy' = placedBy
        \/ Tree!Turn(s, "insert", p, Unplaced) /\ placedBy' = placedBy
  BY DEF Tree!LoadScope
<1>2. /\ TreeTypes /\ sync[s].left \subseteq DOMAIN TreeOf[s] /\ p \in Profiles
      /\ sync[s].pc = "scopes" /\ p \in DOMAIN TreeOf[s]
      /\ UNCHANGED <<rows, entries, mem, walk, wrote, blind, lost, stale>>
  BY NamesAreNames DEF TreeInv, TreeTypes, SyncTypes, Tree!LoadScope, Tree!tables
<1>3. /\ sync' = [t \in Syncs |-> sync'[t]]
      /\ \A t \in Syncs \ {s} : sync'[t] = sync[t]
      /\ SyncTypes(s)'
      /\ sync'[s].pc \notin Reverse \cup {"done"}
      /\ sync'[s].pc = "entries" => sync'[s].left = Tree!NamesOf(s)
      /\ sync'[s].pc = "fill" => sync'[s].at = p /\ sync'[s].val \in rows[p]
      /\ \/ placedBy' = placedBy
         \/ rows[p] = {Tree!Place(s, p)} /\ placedBy' = [placedBy EXCEPT ![p] = {s}]
  <2>1. CASE \E v \in mem[NodeOf[s]][p] : Tree!Decide(s, p, v)
    BY <1>2, <2>1, DecideEffect
  <2>2. CASE (\E v \in rows[p] : Tree!Turn(s, "fill", p, v)) /\ placedBy' = placedBy
    <3>1. PICK v \in rows[p] : Tree!Turn(s, "fill", p, v)
      BY <2>2
    <3>2. /\ sync' = [t \in Syncs |-> sync'[t]]
          /\ \A t \in Syncs \ {s} : sync'[t] = sync[t]
          /\ sync'[s].pc = "fill" /\ sync'[s].left = sync[s].left
          /\ sync'[s].at = p /\ sync'[s].val = v
      BY <1>2, <3>1, TurnEffect
    <3>3. v \in Tree!Ancestries
      BY <1>2 DEF TreeTypes
    <3> QED BY <1>2, <2>2, <3>2, <3>3 DEF SyncTypes
  <2>3. CASE Tree!Turn(s, "insert", p, Unplaced) /\ placedBy' = placedBy
    <3>1. /\ sync' = [t \in Syncs |-> sync'[t]]
          /\ \A t \in Syncs \ {s} : sync'[t] = sync[t]
          /\ sync'[s].pc = "insert" /\ sync'[s].left = sync[s].left /\ sync'[s].at = p
      BY <1>2, <2>3, TurnEffect
    <3> QED BY <1>2, <2>3, <3>1 DEF SyncTypes
  <2> QED BY <1>1, <2>1, <2>2, <2>3
<1>4. TreeTypes'
  <2>1. placedBy' \in [Profiles -> SUBSET Syncs]
    BY <1>2, <1>3 DEF TreeTypes
  <2> QED BY <1>2, <1>3, <2>1, SyncFrame DEF TreeTypes
<1>5. InMind'
  BY <1>2, <1>3 DEF TreeInv, InMind
<1>6. Placed'
  BY <1>2, <1>3, PlacedStays
<1> QED BY <1>2, <1>3, <1>4, <1>5, <1>6, ReverseFrame DEF TreeInv

LEMMA FillScopeStep ==
  ASSUME TreeInv, NEW s \in Syncs, Tree!FillScope(s)
  PROVE  TreeInv'
<1> USE DEF Forward, Reverse
<1> DEFINE p == sync[s].at
           n == NodeOf[s]
<1>1. /\ TreeTypes /\ sync[s].left \subseteq DOMAIN TreeOf[s] /\ p \in sync[s].left
      /\ p \in Profiles /\ n \in Nodes /\ sync[s].val \in Tree!Ancestries
      /\ mem' = [mem EXCEPT ![n][p] = {sync[s].val}] /\ Tree!Decide(s, p, sync[s].val)
      /\ UNCHANGED <<rows, entries, walk, wrote, blind, lost, stale>>
      /\ sync[s].pc = "fill"
  BY NamesAreNames DEF TreeInv, TreeTypes, SyncTypes, Tree!FillScope, Tree!Remember,
     Tree!tables, Tree!Requests
<1>2. /\ sync' = [t \in Syncs |-> sync'[t]]
      /\ \A t \in Syncs \ {s} : sync'[t] = sync[t]
      /\ SyncTypes(s)'
      /\ sync'[s].pc \in {"scopes", "entries", "update"}
      /\ sync'[s].pc = "entries" => sync'[s].left = Tree!NamesOf(s)
      /\ \/ placedBy' = placedBy
         \/ rows[p] = {Tree!Place(s, p)} /\ placedBy' = [placedBy EXCEPT ![p] = {s}]
  BY <1>1, DecideEffect
<1>3. mem' \in [Nodes -> [Profiles -> SUBSET Tree!Ancestries]]
  BY <1>1 DEF TreeTypes
<1>4. TreeTypes'
  <2>1. placedBy' \in [Profiles -> SUBSET Syncs]
    <3>1. placedBy \in [Profiles -> SUBSET Syncs]
      BY <1>1 DEF TreeTypes
    <3> QED BY <1>2, <3>1
  <2> QED BY <1>1, <1>2, <1>3, <2>1, SyncFrame DEF TreeTypes
<1>5. InMind'
  <2>1. ASSUME NEW k \in Nodes, NEW q \in Profiles \ stale[k]
        PROVE  mem'[k][q] \subseteq rows[q]
    <3>1. CASE k = n /\ q = p
      BY <1>1, <2>1, <3>1 DEF TreeInv, InMind, TreeTypes
    <3>2. CASE ~(k = n /\ q = p)
      BY <1>1, <2>1, <3>2 DEF TreeInv, InMind, TreeTypes
    <3> QED BY <3>1, <3>2
  <2> QED BY <1>1, <1>2, <2>1 DEF TreeInv, InMind
<1>6. Placed'
  <2>1. p \in DOMAIN TreeOf[s]
    BY <1>1
  <2> QED BY <1>1, <1>2, <2>1, PlacedStays
<1> QED BY <1>1, <1>2, <1>4, <1>5, <1>6, ReverseFrame DEF TreeInv

LEMMA InsertScopeStep ==
  ASSUME TreeInv, NEW s \in Syncs, Tree!InsertScope(s)
  PROVE  TreeInv'
<1> USE DEF Forward, Reverse
<1> DEFINE p == sync[s].at
<1>1. /\ TreeTypes /\ sync[s].left \subseteq DOMAIN TreeOf[s] /\ p \in sync[s].left
      /\ p \in Profiles /\ Tree!Turn(s, "update", p, Unplaced) /\ Tree!Outdate(p)
      /\ rows' = [rows EXCEPT ![p] = @ \cup {Unplaced}]
      /\ placedBy' = [placedBy EXCEPT ![p] = {}]
      /\ UNCHANGED <<entries, mem, walk, wrote, blind, lost>>
  BY NamesAreNames DEF TreeInv, TreeTypes, SyncTypes, Tree!InsertScope
<1>2. /\ sync' = [t \in Syncs |-> sync'[t]]
      /\ \A t \in Syncs \ {s} : sync'[t] = sync[t]
      /\ sync'[s].pc = "update" /\ sync'[s].left = sync[s].left /\ sync'[s].at = p
  BY <1>1, TurnEffect
<1>3. /\ rows' \in [Profiles -> SUBSET Tree!Ancestries]
      /\ \A q \in Profiles : rows[q] \subseteq rows'[q]
      /\ placedBy' \in [Profiles -> SUBSET Syncs]
  BY <1>1 DEF TreeTypes, Tree!Ancestries
<1>4. /\ stale' \in [Nodes -> SUBSET Profiles]
      /\ \A n \in Nodes : stale[n] \subseteq stale'[n]
  BY <1>1 DEF TreeTypes, Tree!Outdate
<1>5. TreeTypes'
  BY <1>1, <1>2, <1>3, <1>4, SyncFrame DEF TreeTypes, SyncTypes
<1>6. InMind'
  BY <1>1, <1>2, <1>3, <1>4 DEF TreeInv, InMind
<1>7. Placed'
  BY <1>1 DEF TreeInv, Placed, TreeTypes, Tree!Place
<1> QED BY <1>1, <1>2, <1>5, <1>6, <1>7, ReverseFrame DEF TreeInv

LEMMA UpdateScopeStep ==
  ASSUME TreeInv, NEW s \in Syncs, Tree!UpdateScope(s)
  PROVE  TreeInv'
<1> USE DEF Forward, Reverse
<1> DEFINE p == sync[s].at
<1>1. /\ TreeTypes /\ sync[s].left \subseteq DOMAIN TreeOf[s] /\ p \in sync[s].left
      /\ p \in DOMAIN TreeOf[s] /\ p \in Profiles /\ Tree!Place(s, p) \in Tree!Ancestries
      /\ UNCHANGED <<entries, mem, walk, wrote, blind, lost>>
  BY NamesAreNames DEF TreeInv, TreeTypes, SyncTypes, Tree!UpdateScope
<1>2. CASE rows[p] = {}
  <2>1. Tree!Turn(s, "failed", Root, Unplaced) /\ UNCHANGED <<rows, placedBy, stale>>
    BY <1>2 DEF Tree!UpdateScope
  <2>2. /\ sync' = [t \in Syncs |-> sync'[t]]
        /\ \A t \in Syncs \ {s} : sync'[t] = sync[t]
        /\ sync'[s].pc = "failed"
    BY <1>1, <2>1, TurnEffect
  <2>3. SyncTypes(s)'
    BY <2>2 DEF SyncTypes
  <2>4. TreeTypes'
    BY <1>1, <2>1, <2>2, <2>3, SyncFrame DEF TreeTypes
  <2> QED BY <1>1, <2>1, <2>2, <2>4, ReverseFrame, ForwardFrame DEF TreeInv
<1>3. CASE rows[p] # {}
  <2>1. /\ rows' = [rows EXCEPT ![p] = {Tree!Place(s, p)}]
        /\ placedBy' = [placedBy EXCEPT ![p] = {s}]
        /\ Tree!Turn(s, "evict", p, Unplaced) /\ Tree!Outdate(p)
    BY <1>3 DEF Tree!UpdateScope
  <2>2. /\ sync' = [t \in Syncs |-> sync'[t]]
        /\ \A t \in Syncs \ {s} : sync'[t] = sync[t]
        /\ sync'[s].pc = "evict" /\ sync'[s].left = sync[s].left /\ sync'[s].at = p
    BY <1>1, <2>1, TurnEffect
  <2>3. /\ rows' \in [Profiles -> SUBSET Tree!Ancestries]
        /\ placedBy' \in [Profiles -> SUBSET Syncs]
        /\ stale' \in [Nodes -> SUBSET Profiles]
    BY <1>1, <2>1 DEF TreeTypes, Tree!Outdate
  <2>4. SyncTypes(s)'
    BY <1>1, <2>2 DEF SyncTypes
  <2>5. TreeTypes'
    BY <1>1, <2>2, <2>3, <2>4, SyncFrame DEF TreeTypes
  <2>6. InMind'
    <3>1. ASSUME NEW n \in Nodes, NEW q \in Profiles \ stale'[n]
          PROVE  /\ q \notin stale[n]
                 /\ q = p => mem[n][p] = {} /\ ~Tree!Filling(n, p)
                 /\ q # p => rows'[q] = rows[q]
      BY <1>1, <2>1 DEF TreeTypes, Tree!Outdate
    <3> QED BY <1>1, <2>2, <3>1 DEF TreeInv, InMind, Tree!Filling
  <2>7. Placed'
    <3>1. ASSUME NEW q \in Profiles, NEW t \in Syncs, placedBy'[q] = {t}
          PROVE  q \in DOMAIN TreeOf[t] /\ rows'[q] = {Tree!Place(t, q)}
      <4>1. CASE q # p
        BY <1>1, <2>1, <3>1, <4>1 DEF TreeInv, Placed, TreeTypes
      <4>2. CASE q = p
        <5>1. t = s
          BY <1>1, <2>1, <3>1, <4>2 DEF TreeTypes
        <5> QED BY <1>1, <2>1, <4>2, <5>1 DEF TreeTypes
      <4> QED BY <4>1, <4>2
    <3> QED BY <3>1 DEF Placed, Tree!Place
  <2> QED BY <1>1, <2>2, <2>5, <2>6, <2>7, ReverseFrame DEF TreeInv
<1> QED BY <1>2, <1>3

\* What a process forgets, it reads again.
LEMMA EvictEffect ==
  ASSUME TreeTypes, InMind, NEW n \in Nodes, NEW p \in Profiles, Tree!Evict(n, p)
  PROVE  /\ mem' \in [Nodes -> [Profiles -> SUBSET Tree!Ancestries]]
         /\ stale' \in [Nodes -> SUBSET Profiles]
         /\ \A k \in Nodes, q \in Profiles : q \notin stale'[k] =>
              /\ mem'[k][q] \subseteq mem[k][q]
              /\ q \notin stale[k]
                   \/ (k = n /\ q = p /\ mem'[k][q] = {} /\ ~Tree!Filling(n, p))
BY DEF TreeTypes, Tree!Evict, Tree!Forgotten

LEMMA EvictScopeStep ==
  ASSUME TreeInv, NEW s \in Syncs, Tree!EvictScope(s)
  PROVE  TreeInv'
<1> USE DEF Forward, Reverse
<1> DEFINE p == sync[s].at
           n == NodeOf[s]
<1>1. /\ TreeTypes /\ sync[s].left \subseteq DOMAIN TreeOf[s] /\ p \in sync[s].left
      /\ p \in Profiles /\ n \in Nodes /\ Tree!Evict(n, p) /\ Tree!NextScope(s, p)
           /\ InMind
      /\ UNCHANGED <<rows, entries, walk, placedBy, wrote, blind, lost>>
  BY NamesAreNames DEF TreeInv, TreeTypes, SyncTypes, Tree!EvictScope, Tree!tables,
     Tree!ghosts, Tree!Requests
<1>2. /\ sync' = [t \in Syncs |-> sync'[t]]
      /\ \A t \in Syncs \ {s} : sync'[t] = sync[t]
      /\ \/ sync'[s].pc = "entries" /\ sync'[s].left = Tree!NamesOf(s)
         \/ sync'[s].pc = "scopes" /\ sync'[s].left = sync[s].left \ {p}
  BY <1>1, NextScopeEffect
<1>3. SyncTypes(s)'
  BY <1>1, <1>2 DEF SyncTypes
<1>4. TreeTypes'
  BY <1>1, <1>2, <1>3, EvictEffect, SyncFrame DEF TreeTypes
<1>5. InMind'
  <2>1. ASSUME NEW k \in Nodes, NEW q \in Profiles \ stale'[k]
        PROVE  /\ mem'[k][q] \subseteq rows[q]
               /\ \A t \in Syncs : NodeOf[t] = k /\ sync[t].pc = "fill" /\ sync[t].at = q
                                     => sync[t].val \in rows[q]
               /\ \A w \in Walks : NodeOf[w] = k /\ walk[w].pc = "fill" /\ walk[w].at = q
                                     => walk[w].val \in rows[q]
    <3>1. CASE q \notin stale[k]
      BY <1>1, <2>1, <3>1, EvictEffect DEF InMind
    <3>2. CASE k = n /\ q = p /\ mem'[k][q] = {} /\ ~Tree!Filling(n, p)
      BY <3>2 DEF Tree!Filling
    <3> QED BY <1>1, <2>1, <3>1, <3>2, EvictEffect
  <2> QED BY <1>1, <1>2, <2>1 DEF InMind
<1>6. Placed'
  BY <1>1 DEF TreeInv, Placed
<1> QED BY <1>1, <1>2, <1>4, <1>5, <1>6, ReverseFrame DEF TreeInv

LEMMA FailSyncStep ==
  ASSUME TreeInv, NEW s \in Syncs, Tree!FailSync(s)
  PROVE  TreeInv'
<1>1. /\ TreeTypes /\ Tree!Turn(s, "failed", Root, Unplaced) /\ blind' = blind \ {s}
      /\ UNCHANGED <<rows, entries, mem, walk, placedBy, wrote, lost, stale>>
  BY DEF TreeInv, Tree!FailSync, Tree!tables
<1>2. /\ sync' = [t \in Syncs |-> sync'[t]]
      /\ \A t \in Syncs \ {s} : sync'[t] = sync[t]
      /\ sync'[s].pc = "failed"
  BY <1>1, TurnEffect
<1>3. SyncTypes(s)'
  BY <1>2 DEF SyncTypes, Forward, Reverse
<1>4. TreeTypes'
  BY <1>1, <1>2, <1>3, SyncFrame DEF TreeTypes
<1>5. InMind' /\ Placed'
  BY <1>1, <1>2, ForwardFrame
<1>6. sync'[s].pc \notin Reverse \cup {"done"} /\ sync'[s].pc # "entries"
  BY <1>2 DEF Reverse
<1> QED BY <1>1, <1>2, <1>4, <1>5, <1>6, ReverseFrame DEF TreeInv

-----------------------------------------------------------------------------
(* The reverse direction.                                                  *)

\* What a reader of a name has is not less than what the name lists.
LEMMA ReadEntryStep ==
  ASSUME TreeInv, NEW s \in Syncs, Tree!ReadEntry(s)
  PROVE  TreeInv'
<1> USE DEF Reverse
<1>1. PICK name \in sync[s].left :
        \/ /\ \E ids \in Tree!Entry(name) :
                Tree!Turn(s, "look", name, Tree!Merged(ids, Tree!Listed(s, name)))
           /\ blind' = blind
        \/ blind' = blind \cup {s} /\ Tree!Turn(s, "look", name, Tree!Listed(s, name))
  BY DEF Tree!ReadEntry, Tree!Ready
<1>2. /\ TreeTypes /\ sync[s].left \subseteq Tree!NamesOf(s) /\ name \in Tree!Names
      /\ Tree!Listed(s, name) \subseteq IdsOf(name) /\ sync[s].pc = "entries"
      /\ UNCHANGED <<rows, entries, mem, walk, placedBy, wrote, lost, stale>>
  BY NamesAreNames DEF TreeInv, TreeTypes, SyncTypes, Tree!ReadEntry, Tree!tables
<1>3. /\ sync' = [t \in Syncs |-> sync'[t]]
      /\ \A t \in Syncs \ {s} : sync'[t] = sync[t]
      /\ sync'[s].pc = "look" /\ sync'[s].left = sync[s].left /\ sync'[s].at = name
      /\ sync'[s].val \subseteq IdsOf(name) /\ Tree!Listed(s, name) \subseteq sync'[s].val
      /\ \A t \in Syncs \ {s} : t \in blind' <=> t \in blind
      /\ blind' \subseteq Syncs
      /\ s \notin blind' => \A t \in wrote[name] \ lost :
           Tree!Listed(t, name) \subseteq sync'[s].val
  <2>1. CASE blind' = blind \cup {s} /\ Tree!Turn(s, "look", name, Tree!Listed(s, name))
    <3>1. /\ sync' = [t \in Syncs |-> sync'[t]]
          /\ \A t \in Syncs \ {s} : sync'[t] = sync[t]
          /\ sync'[s].pc = "look" /\ sync'[s].left = sync[s].left
          /\ sync'[s].at = name /\ sync'[s].val = Tree!Listed(s, name)
      BY <1>2, <2>1, TurnEffect
    <3> QED BY <1>2, <2>1, <3>1 DEF TreeTypes
  <2>2. ASSUME NEW ids \in Tree!Entry(name), blind' = blind,
               Tree!Turn(s, "look", name, Tree!Merged(ids, Tree!Listed(s, name)))
        PROVE  <1>3
    <3>1. /\ sync' = [t \in Syncs |-> sync'[t]]
          /\ \A t \in Syncs \ {s} : sync'[t] = sync[t]
          /\ sync'[s].pc = "look" /\ sync'[s].left = sync[s].left
          /\ sync'[s].at = name /\ sync'[s].val = Tree!Merged(ids, Tree!Listed(s, name))
      BY <1>2, <2>2, TurnEffect
    <3>2. ids \subseteq IdsOf(name)
      BY <1>2 DEF TreeTypes, Tree!Entry
    <3>3. \A t \in wrote[name] \ lost : Tree!Listed(t, name) \subseteq ids
      BY <1>2 DEF TreeInv, Listing, Tree!Entry
    <3> QED BY <1>2, <2>2, <3>1, <3>2, <3>3 DEF Tree!Merged, TreeTypes
  <2> QED BY <1>1, <2>1, <2>2
<1>4. TreeTypes'
  <2>1. SyncTypes(s)'
    BY <1>2, <1>3 DEF SyncTypes, Forward, IdsOf, Tree!NamesOf, Tree!Listed
  <2> QED BY <1>2, <1>3, <2>1, SyncFrame DEF TreeTypes
<1>5. InMind' /\ Placed'
  BY <1>2, <1>3, ForwardFrame
<1>6. \A m \in Tree!Names : Listing(m)'
  BY <1>2 DEF TreeInv, Listing
<1>7. ASSUME NEW t \in Syncs \ {s} PROVE Carried(t)' /\ Wrote(t)'
  BY <1>2, <1>3 DEF TreeInv, Carried, Wrote
<1>8. Carried(s)'
  BY <1>2, <1>3 DEF Carried, Tree!Listed
<1>9. Wrote(s)'
  <2>1. Wrote(s)
    BY DEF TreeInv
  <2> QED BY <1>2, <1>3, <2>1 DEF Wrote, Tree!NamesOf, Tree!Listed
<1> QED BY <1>4, <1>5, <1>6, <1>7, <1>8, <1>9 DEF TreeInv

LEMMA LookEntryStep ==
  ASSUME TreeInv, NEW s \in Syncs, Tree!LookEntry(s)
  PROVE  TreeInv'
<1> USE DEF Reverse
<1> DEFINE name == sync[s].at
<1>1. /\ TreeTypes /\ sync[s].left \subseteq Tree!NamesOf(s) /\ name \in sync[s].left
      /\ name \in Tree!Names /\ sync[s].pc = "look" /\ sync[s].val \subseteq IdsOf(name)
      /\ Carried(s) /\ Wrote(s)
      /\ UNCHANGED <<rows, entries, mem, walk, placedBy, wrote, lost, stale>>
  BY NamesAreNames DEF TreeInv, TreeTypes, SyncTypes, Tree!LookEntry, Tree!tables
<1>2. PICK pc \in {"add", "replace"} :
        /\ Tree!Turn(s, pc, name, sync[s].val)
        /\ \/ blind' = blind /\ (pc = "add" => entries[name] = {})
           \/ blind' = blind \cup {s}
  BY DEF Tree!LookEntry
<1>3. /\ sync' = [t \in Syncs |-> sync'[t]]
      /\ \A t \in Syncs \ {s} : sync'[t] = sync[t]
      /\ sync'[s].pc = pc /\ sync'[s].left = sync[s].left
      /\ sync'[s].at = name /\ sync'[s].val = sync[s].val
  BY <1>1, <1>2, TurnEffect
<1>4. TreeTypes'
  <2>1. SyncTypes(s)'
    BY <1>1, <1>3 DEF SyncTypes, Forward, IdsOf, Tree!NamesOf, Tree!Listed
  <2> QED BY <1>1, <1>2, <1>3, <2>1, SyncFrame DEF TreeTypes
<1>5. InMind' /\ Placed'
  BY <1>1, <1>3, ForwardFrame
<1>6. \A m \in Tree!Names : Listing(m)'
  BY <1>1 DEF TreeInv, Listing
<1>7. ASSUME NEW t \in Syncs \ {s} PROVE Carried(t)' /\ Wrote(t)'
  BY <1>1, <1>2, <1>3 DEF TreeInv, Carried, Wrote
<1>8. Carried(s)'
  BY <1>1, <1>2, <1>3 DEF Carried, Tree!Listed
<1>9. Wrote(s)'
  BY <1>1, <1>3 DEF Wrote, Tree!NamesOf, Tree!Listed
<1> QED BY <1>4, <1>5, <1>6, <1>7, <1>8, <1>9 DEF TreeInv

LEMMA WriteEntryStep ==
  ASSUME TreeInv, NEW s \in Syncs, Tree!WriteEntry(s)
  PROVE  TreeInv'
<1> USE DEF Reverse
<1>0. PICK name \in Tree!Names : name = sync[s].at
  BY NamesAreNames DEF TreeInv, TreeTypes, SyncTypes, Tree!WriteEntry
<1> DEFINE adds == sync[s].pc = "add"
           reading == {t \in Syncs \ {s} : sync[t].pc \in {"look", "add", "replace"}
                                             /\ sync[t].at = name}
<1>1. /\ TreeTypes /\ sync[s].left \subseteq Tree!NamesOf(s) /\ name \in sync[s].left
      /\ name \in Tree!Names /\ sync[s].pc \in {"add", "replace"}
      /\ sync[s].val \subseteq IdsOf(name)
      /\ Carried(s) /\ Wrote(s) /\ Listing(name)
      /\ UNCHANGED <<rows, mem, walk, placedBy, stale>>
  BY <1>0, NamesAreNames DEF TreeInv, TreeTypes, SyncTypes, Tree!WriteEntry
<1>2. /\ entries' = [entries EXCEPT ![name] = IF adds THEN @ \cup {sync[s].val}
                                              ELSE {sync[s].val}]
      /\ wrote' = [wrote EXCEPT ![name] = @ \cup {s}]
      /\ blind' = (blind \ {s}) \cup reading
      /\ lost' = IF s \notin blind THEN lost
                 ELSE lost \cup (wrote[name] \ {s}) \cup (IF adds THEN {s} ELSE {})
      /\ Tree!NextName(s)
  BY <1>0 DEF Tree!WriteEntry
<1> HIDE DEF reading
<1>3. /\ sync' = [t \in Syncs |-> sync'[t]]
      /\ \A t \in Syncs \ {s} : sync'[t] = sync[t]
      /\ sync'[s].pc = IF sync[s].left \ {name} = {} THEN "done" ELSE "entries"
      /\ sync'[s].left = sync[s].left \ {name}
  BY <1>0, <1>1, <1>2, NextNameEffect
<1>4. /\ wrote \in [Tree!Names -> SUBSET Syncs] /\ wrote' \in [Tree!Names -> SUBSET Syncs]
      /\ blind' \subseteq Syncs /\ lost' \subseteq Syncs /\ lost \subseteq lost'
      /\ wrote'[name] = wrote[name] \cup {s}
      /\ \A m \in Tree!Names \ {name} : wrote'[m] = wrote[m] /\ entries'[m] = entries[m]
      /\ entries' = [m \in Tree!Names |-> entries'[m]]
      /\ entries'[name] = IF adds THEN entries[name] \cup {sync[s].val} ELSE {sync[s].val}
  BY <1>1, <1>2 DEF TreeTypes, reading
<1>5. TreeTypes'
  <2>1. SyncTypes(s)'
    BY <1>1, <1>3 DEF SyncTypes, Forward, Tree!NamesOf, Tree!Listed
  <2>2. ASSUME NEW t \in Syncs PROVE SyncTypes(t)'
    <3>1. CASE t # s
      BY <1>1, <1>3, <3>1 DEF TreeTypes, SyncTypes, Tree!NamesOf, Tree!Listed, IdsOf
    <3> QED BY <2>1, <3>1
  <2>3. ASSUME NEW m \in Tree!Names PROVE entries'[m] \subseteq SUBSET IdsOf(m)
    <3>1. entries[m] \subseteq SUBSET IdsOf(m) /\ sync[s].val \subseteq IdsOf(name)
      BY <1>1 DEF TreeTypes
    <3>2. CASE m = name
      BY <1>4, <3>1, <3>2
    <3>3. CASE m # name
      BY <1>4, <3>1, <3>3
    <3> QED BY <3>2, <3>3
  <2>4. ASSUME NEW w \in Walks PROVE WalkTypes(w)'
    BY <1>1 DEF TreeTypes, WalkTypes
  <2> QED BY <1>1, <1>3, <1>4, <2>2, <2>3, <2>4 DEF TreeTypes, IdsOf
<1>6. InMind' /\ Placed'
  BY <1>1, <1>3, ForwardFrame
<1>7. Listing(name)'
  <2>1. Tree!Listed(s, name) \subseteq sync[s].val
    BY <1>0, <1>1 DEF Carried
  <2>2. CASE s \notin blind
    <3>1. /\ lost' = lost /\ (adds => entries[name] = {})
          /\ \A t \in wrote[name] \ lost : Tree!Listed(t, name) \subseteq sync[s].val
      BY <1>0, <1>1, <1>2, <2>2 DEF Carried
    <3>2. entries'[name] = {sync[s].val}
      BY <1>4, <3>1
    <3> QED BY <1>4, <2>1, <3>1, <3>2 DEF Listing, Tree!Listed
  <2>3. CASE s \in blind /\ adds
    BY <1>2, <1>4, <2>3 DEF Listing
  <2>4. CASE s \in blind /\ ~adds
    <3>1. wrote'[name] \ lost' \subseteq {s} /\ entries'[name] = {sync[s].val}
      BY <1>2, <1>4, <2>4
    <3> QED BY <2>1, <3>1 DEF Listing, Tree!Listed
  <2> QED BY <2>2, <2>3, <2>4
<1>8. ASSUME NEW m \in Tree!Names \ {name} PROVE Listing(m)'
  BY <1>4 DEF TreeInv, Listing, Tree!Listed
<1>9. ASSUME NEW t \in Syncs \ {s} PROVE Carried(t)' /\ Wrote(t)'
  <2>1. Wrote(t)'
    <3>1. \A m \in Tree!Names : wrote[m] \subseteq wrote'[m]
      BY <1>4
    <3>2. Tree!NamesOf(t) \subseteq Tree!Names
      BY NamesAreNames
    <3> QED BY <1>3, <3>1, <3>2 DEF TreeInv, Wrote, Tree!NamesOf, Tree!Listed
  <2>2. CASE t \in reading
    <3>1. Carried(t) /\ t \in blind' /\ sync'[t] = sync[t]
      BY <1>2, <1>3, <2>2 DEF TreeInv
    <3> QED BY <2>1, <3>1 DEF Carried
  <2>3. CASE t \notin reading /\ sync[t].pc \in Reverse
    <3>1. sync[t].at # name /\ (t \in blind' <=> t \in blind)
      BY <1>2, <2>3 DEF reading
    <3>2. sync[t].at \in Tree!Names /\ Carried(t)
      BY <2>3, NamesAreNames DEF TreeInv, TreeTypes, SyncTypes
    <3>3. /\ entries'[sync[t].at] = entries[sync[t].at]
          /\ wrote'[sync[t].at] = wrote[sync[t].at]
          /\ sync'[t] = sync[t] /\ lost \subseteq lost'
      BY <1>3, <1>4, <3>1, <3>2
    <3> QED BY <2>1, <3>1, <3>2, <3>3 DEF Carried
  <2>4. CASE sync[t].pc \notin Reverse
    BY <1>3, <2>1, <2>4 DEF Carried
  <2> QED BY <2>2, <2>3, <2>4
<1>10. Carried(s)'
  BY <1>3 DEF Carried
<1>11. Wrote(s)'
  <2>1. \A m \in Tree!NamesOf(s) \ (sync[s].left \ {name}) : s \in wrote'[m]
    BY <1>1, <1>4, NamesAreNames DEF Wrote
  <2> QED BY <1>3, <2>1 DEF Wrote, Tree!NamesOf, Tree!Listed
<1> QED BY <1>5, <1>6, <1>7, <1>8, <1>9, <1>10, <1>11 DEF TreeInv

-----------------------------------------------------------------------------
(* Sessions and operators.                                                 *)

LEMMA BeginStep ==
  ASSUME TreeInv, NEW w \in Walks, Tree!Begin(w)
  PROVE  TreeInv'
<1>1. /\ TreeTypes /\ walk[w] \in WalkRecords /\ InMind /\ Placed
      /\ UNCHANGED <<rows, entries, mem, sync, placedBy, wrote, blind, lost, stale>>
  BY DEF TreeInv, TreeTypes, Tree!Begin, Tree!tables, Tree!ghosts
<1>2. PICK node \in Profiles \cup HsMerchants \cup Orgs :
        \/ \E above \in IF node \in Orgs THEN Tree!Entry(node)
             ELSE {{node} \cap HsMerchants} :
             walk' = [walk EXCEPT ![w].pc = "walk", ![w].node = node,
                                  ![w].above = above, ![w].left = {node} \cap Profiles]
        \/ node \in Orgs /\ walk' = [walk EXCEPT ![w].pc = "walk", ![w].node = node]
  BY DEF Tree!Begin
<1>3. /\ walk' \in [Walks -> WalkRecords] /\ walk'[w].pc = "walk"
      /\ \A v \in Walks \ {w} : walk'[v] = walk[v]
  <2>1. CASE node \in Orgs /\ walk' = [walk EXCEPT ![w].pc = "walk", ![w].node = node]
    BY <1>1, <2>1 DEF TreeTypes, WalkRecords, Tree!Names
  <2>2. ASSUME NEW above \in SUBSET HsMerchants,
               walk' = [walk EXCEPT ![w].pc = "walk", ![w].node = node,
                                    ![w].above = above, ![w].left = {node} \cap Profiles]
        PROVE  <1>3
    BY <1>1, <2>2 DEF TreeTypes, WalkRecords, Tree!Names
  <2>3. node \in Orgs => Tree!Entry(node) \subseteq SUBSET HsMerchants
    BY <1>1 DEF TreeTypes, Tree!Entry, IdsOf, Tree!Names
  <2> QED BY <1>2, <2>1, <2>2, <2>3
<1>4. InMind'
  BY <1>1, <1>3 DEF InMind
<1>5. Placed'
  BY <1>1 DEF Placed
<1>6. \A v \in Walks : WalkTypes(v)'
  BY <1>1, <1>3 DEF TreeTypes, WalkTypes
<1> QED BY <1>1, <1>3, <1>4, <1>5, <1>6, OthersFrame DEF TreeTypes

LEMMA OpenMerchantStep ==
  ASSUME TreeInv, NEW w \in Walks, Tree!OpenMerchant(w)
  PROVE  TreeInv'
<1>1. /\ TreeTypes /\ walk[w] \in WalkRecords /\ InMind /\ Placed /\ walk[w].pc = "walk"
      /\ UNCHANGED <<rows, entries, mem, sync, placedBy, wrote, blind, lost, stale>>
  BY DEF TreeInv, TreeTypes, Tree!OpenMerchant, Tree!tables, Tree!ghosts
<1>2. PICK m \in walk[w].above :
        \/ \E ids \in Tree!Entry(m) :
             walk' = [walk EXCEPT ![w].above = @ \ {m}, ![w].left = ids]
        \/ walk' = [walk EXCEPT ![w].above = @ \ {m}]
  BY DEF Tree!OpenMerchant
<1>3. /\ walk' \in [Walks -> WalkRecords] /\ walk'[w].pc = "walk"
      /\ \A v \in Walks \ {w} : walk'[v] = walk[v]
  <2>1. CASE walk' = [walk EXCEPT ![w].above = @ \ {m}]
    BY <1>1, <2>1 DEF TreeTypes, WalkRecords
  <2>2. ASSUME NEW ids \in Tree!Entry(m),
               walk' = [walk EXCEPT ![w].above = @ \ {m}, ![w].left = ids]
        PROVE  <1>3
    <3>1. m \in HsMerchants
      BY <1>1 DEF WalkRecords
    <3>2. ids \in SUBSET Profiles
      BY <1>1, <3>1 DEF TreeTypes, Tree!Entry, IdsOf, Tree!Names
    <3> QED BY <1>1, <2>2, <3>2 DEF TreeTypes, WalkRecords
  <2> QED BY <1>2, <2>1, <2>2
<1>4. InMind'
  BY <1>1, <1>3 DEF InMind
<1>5. Placed'
  BY <1>1 DEF Placed
<1>6. \A v \in Walks : WalkTypes(v)'
  BY <1>1, <1>3 DEF TreeTypes, WalkTypes
<1> QED BY <1>1, <1>3, <1>4, <1>5, <1>6, OthersFrame DEF TreeTypes

LEMMA OfferEffect ==
  ASSUME TreeTypes, NEW w \in Walks, NEW p \in Profiles, NEW v, Tree!Offer(w, p, v)
  PROVE  /\ walk' \in [Walks -> WalkRecords] /\ walk'[w].pc = "walk"
         /\ \A u \in Walks \ {w} : walk'[u] = walk[u]
         /\ walk'[w].found \subseteq walk[w].found
              \cup (IF Tree!Confirmed(p, v, walk[w].node) THEN {p} ELSE {})
<1>1. /\ walk[w] \in WalkRecords /\ Unplaced \in Tree!Ancestries
      /\ walk \in [Walks -> WalkRecords]
  BY DEF TreeTypes, Tree!Ancestries
<1>2. PICK found \in {walk[w].found, walk[w].found \cup {p}} :
        /\ found = IF Tree!Confirmed(p, v, walk[w].node) THEN walk[w].found \cup {p}
                   ELSE walk[w].found
        /\ walk' = [walk EXCEPT ![w].pc = "walk", ![w].left = @ \ {p}, ![w].at = Root,
                                ![w].val = Unplaced, ![w].found = found]
  BY DEF Tree!Offer
<1>3. found \in SUBSET Profiles /\ walk[w].left \ {p} \in SUBSET Profiles
  BY <1>1, <1>2 DEF WalkRecords
<1> QED BY <1>1, <1>2, <1>3 DEF WalkRecords

LEMMA LoadCandidateStep ==
  ASSUME TreeInv, NEW w \in Walks, Tree!LoadCandidate(w)
  PROVE  TreeInv'
<1>1. /\ TreeTypes /\ walk[w] \in WalkRecords /\ InMind /\ Placed /\ walk[w].pc = "walk"
      /\ UNCHANGED <<rows, entries, mem, sync, placedBy, wrote, blind, lost, stale>>
  BY DEF TreeInv, TreeTypes, Tree!LoadCandidate, Tree!tables, Tree!ghosts
<1>2. PICK p \in walk[w].left :
        \/ \E v \in mem[NodeOf[w]][p] : Tree!Offer(w, p, v)
        \/ walk' = [walk EXCEPT ![w].left = @ \ {p}]
        \/ \E v \in rows[p] :
             walk' = [walk EXCEPT ![w].pc = "fill", ![w].at = p, ![w].val = v]
  BY DEF Tree!LoadCandidate
<1>3. p \in Profiles
  BY <1>1 DEF WalkRecords
<1>4. /\ walk' \in [Walks -> WalkRecords]
      /\ \A u \in Walks \ {w} : walk'[u] = walk[u]
      /\ walk'[w].pc = "fill" => walk'[w].at = p /\ walk'[w].val \in rows[p]
  <2>1. CASE \E v \in mem[NodeOf[w]][p] : Tree!Offer(w, p, v)
    BY <1>1, <1>3, <2>1, OfferEffect
  <2>2. CASE walk' = [walk EXCEPT ![w].left = @ \ {p}]
    BY <1>1, <2>2 DEF TreeTypes, WalkRecords
  <2>3. ASSUME NEW v \in rows[p],
               walk' = [walk EXCEPT ![w].pc = "fill", ![w].at = p, ![w].val = v]
        PROVE  <1>4
    <3>1. v \in Tree!Ancestries
      BY <1>1, <1>3 DEF TreeTypes
    <3> QED BY <1>1, <1>3, <2>3, <3>1 DEF TreeTypes, WalkRecords
  <2> QED BY <1>2, <2>1, <2>2, <2>3
<1>5. InMind'
  BY <1>1, <1>4 DEF InMind
<1>6. Placed'
  BY <1>1 DEF Placed
<1>7. \A v \in Walks : WalkTypes(v)'
  BY <1>1, <1>3, <1>4 DEF TreeTypes, WalkTypes
<1> QED BY <1>1, <1>4, <1>5, <1>6, <1>7, OthersFrame DEF TreeTypes

LEMMA FillCandidateStep ==
  ASSUME TreeInv, NEW w \in Walks, Tree!FillCandidate(w)
  PROVE  TreeInv'
<1> DEFINE p == walk[w].at
           n == NodeOf[w]
<1>1. /\ TreeTypes /\ walk[w] \in WalkRecords /\ InMind /\ Placed /\ walk[w].pc = "fill"
      /\ p \in Profiles /\ n \in Nodes /\ walk[w].val \in Tree!Ancestries
      /\ mem' = [mem EXCEPT ![n][p] = {walk[w].val}] /\ Tree!Offer(w, p, walk[w].val)
      /\ UNCHANGED <<rows, entries, sync, placedBy, wrote, blind, lost, stale>>
  BY DEF TreeInv, TreeTypes, Tree!FillCandidate, Tree!tables, Tree!ghosts,
     Tree!Remember, Tree!Requests, WalkTypes, WalkRecords
<1>2. /\ walk' \in [Walks -> WalkRecords] /\ walk'[w].pc = "walk"
      /\ \A u \in Walks \ {w} : walk'[u] = walk[u]
  BY <1>1, OfferEffect
<1>3. mem' \in [Nodes -> [Profiles -> SUBSET Tree!Ancestries]]
  BY <1>1 DEF TreeTypes
<1>4. InMind'
  <2>1. ASSUME NEW k \in Nodes, NEW q \in Profiles \ stale[k]
        PROVE  mem'[k][q] \subseteq rows[q]
    <3>1. CASE k = n /\ q = p
      BY <1>1, <2>1, <3>1 DEF InMind, TreeTypes
    <3>2. CASE ~(k = n /\ q = p)
      BY <1>1, <2>1, <3>2 DEF InMind, TreeTypes
    <3> QED BY <3>1, <3>2
  <2> QED BY <1>1, <1>2, <2>1 DEF InMind
<1>5. Placed'
  BY <1>1 DEF Placed
<1>6. \A v \in Walks : WalkTypes(v)'
  BY <1>1, <1>2 DEF TreeTypes, WalkTypes
<1> QED BY <1>1, <1>2, <1>3, <1>4, <1>5, <1>6, OthersFrame DEF TreeTypes

LEMMA ForgetStep ==
  ASSUME TreeInv, NEW n \in Nodes, NEW p \in Profiles, Tree!Forget(n, p)
  PROVE  TreeInv'
<1>1. /\ TreeTypes /\ InMind /\ Placed /\ Tree!Evict(n, p)
      /\ UNCHANGED <<rows, entries, sync, walk, placedBy, wrote, blind, lost>>
  BY DEF TreeInv, Tree!Forget, Tree!tables, Tree!ghosts
<1>2. InMind'
  <2>1. ASSUME NEW k \in Nodes, NEW q \in Profiles \ stale'[k]
        PROVE  /\ mem'[k][q] \subseteq rows[q]
               /\ \A t \in Syncs : NodeOf[t] = k /\ sync[t].pc = "fill" /\ sync[t].at = q
                                     => sync[t].val \in rows[q]
               /\ \A w \in Walks : NodeOf[w] = k /\ walk[w].pc = "fill" /\ walk[w].at = q
                                     => walk[w].val \in rows[q]
    <3>1. CASE q \notin stale[k]
      BY <1>1, <2>1, <3>1, EvictEffect DEF InMind
    <3>2. CASE k = n /\ q = p /\ mem'[k][q] = {} /\ ~Tree!Filling(n, p)
      BY <3>2 DEF Tree!Filling
    <3> QED BY <1>1, <2>1, <3>1, <3>2, EvictEffect
  <2> QED BY <1>1, <2>1 DEF InMind
<1>3. Placed'
  BY <1>1 DEF Placed
<1>4. \A w \in Walks : WalkTypes(w)'
  BY <1>1 DEF TreeTypes, WalkTypes
<1> QED BY <1>1, <1>2, <1>3, <1>4, EvictEffect, OthersFrame DEF TreeTypes

LEMMA DeleteAccountStep ==
  ASSUME TreeInv, NEW n \in Nodes, NEW p \in Profiles, Tree!DeleteAccount(n, p)
  PROVE  TreeInv'
<1>1. /\ TreeTypes /\ InMind /\ Placed
      /\ rows' = [rows EXCEPT ![p] = {}] /\ placedBy' = [placedBy EXCEPT ![p] = {}]
      /\ mem' = [mem EXCEPT ![n][p] = {}]
      /\ UNCHANGED <<entries, sync, walk, wrote, blind, lost>>
  BY DEF TreeInv, Tree!DeleteAccount, Tree!Forgotten
<1>2. /\ rows' \in [Profiles -> SUBSET Tree!Ancestries]
      /\ mem' \in [Nodes -> [Profiles -> SUBSET Tree!Ancestries]]
      /\ placedBy' \in [Profiles -> SUBSET Syncs]
      /\ stale' \in [Nodes -> SUBSET Profiles]
  BY <1>1 DEF TreeTypes, Tree!DeleteAccount
<1>3. ASSUME NEW k \in Nodes, NEW q \in Profiles \ stale'[k]
      PROVE  /\ mem'[k][q] \subseteq mem[k][q]
             /\ q = p => mem'[k][q] = {} /\ ~Tree!Filling(k, p)
             /\ q # p => rows'[q] = rows[q] /\ q \notin stale[k]
  BY <1>1, <1>3 DEF TreeTypes, Tree!DeleteAccount
<1>4. InMind'
  BY <1>1, <1>3 DEF InMind, Tree!Filling
<1>5. Placed'
  <2>1. ASSUME NEW q \in Profiles, NEW t \in Syncs, placedBy'[q] = {t}
        PROVE  q \in DOMAIN TreeOf[t] /\ rows'[q] = {Tree!Place(t, q)}
    BY <1>1, <2>1 DEF Placed, TreeTypes
  <2> QED BY <2>1 DEF Placed, Tree!Place
<1>6. \A w \in Walks : WalkTypes(w)'
  BY <1>1 DEF TreeTypes, WalkTypes
<1> QED BY <1>1, <1>2, <1>4, <1>5, <1>6, OthersFrame DEF TreeTypes

-----------------------------------------------------------------------------
LEMMA TreeInit == Tree!Init => TreeInv
<1> SUFFICES ASSUME Tree!Init PROVE TreeInv
  OBVIOUS
<1>1. TreeTypes
  <2>1. rows \in [Profiles -> SUBSET Tree!Ancestries]
    BY DEF Tree!Init, Tree!Ancestries
  <2>2. walk \in [Walks -> WalkRecords] /\ \A w \in Walks : WalkTypes(w)
    BY DEF Tree!Init, WalkRecords, WalkTypes, Tree!Names, Tree!Ancestries
  <2>3. \A s \in Syncs : SyncTypes(s)
    BY DEF Tree!Init, SyncTypes, Forward, Reverse
  <2> QED BY <2>1, <2>2, <2>3 DEF Tree!Init, TreeTypes
<1>2. InMind
  BY DEF Tree!Init, InMind
<1>3. Placed
  BY DEF Tree!Init, Placed
<1>4. \A name \in Tree!Names : Listing(name)
  BY DEF Tree!Init, Listing
<1>5. \A s \in Syncs : Carried(s) /\ Wrote(s)
  BY DEF Tree!Init, Carried, Wrote, Reverse
<1> QED BY <1>1, <1>2, <1>3, <1>4, <1>5 DEF TreeInv

LEMMA TreeNext == TreeInv /\ [Tree!Next]_(Tree!vars) => TreeInv'
<1> SUFFICES ASSUME TreeInv, [Tree!Next]_(Tree!vars) PROVE TreeInv'
  OBVIOUS
<1>1. CASE UNCHANGED Tree!vars
  <2>1. TreeTypes'
    BY <1>1 DEF TreeInv, Tree!vars, TreeTypes, SyncTypes, WalkTypes
  <2>2. InMind' /\ Placed'
    BY <1>1 DEF TreeInv, Tree!vars, InMind, Placed
  <2>3. /\ \A name \in Tree!Names : Listing(name)'
        /\ \A s \in Syncs : Carried(s)' /\ Wrote(s)'
    BY <1>1 DEF TreeInv, Tree!vars, Listing, Carried, Wrote
  <2> QED BY <2>1, <2>2, <2>3 DEF TreeInv
<1>2. ASSUME NEW s \in Syncs, Tree!WriteForward(s) \/ Tree!WriteReverse(s)
               \/ Tree!FailSync(s)
      PROVE  TreeInv'
  BY <1>2, LoadScopeStep, FillScopeStep, InsertScopeStep, UpdateScopeStep,
     EvictScopeStep, ReadEntryStep, LookEntryStep, WriteEntryStep, FailSyncStep DEF
     Tree!WriteForward, Tree!WriteReverse
<1>3. ASSUME NEW w \in Walks, Tree!Expand(w) PROVE TreeInv'
  BY <1>3, BeginStep, OpenMerchantStep, LoadCandidateStep, FillCandidateStep DEF
     Tree!Expand
<1> QED BY <1>1, <1>2, <1>3, ForgetStep, DeleteAccountStep DEF Tree!Next

LEMMA TreeHolds == Tree!Spec => []TreeInv
BY TreeInit, TreeNext, PTL DEF Tree!Spec

\* A profile that a completed sync placed can be reached from above, unless another sync
\* wrote an entry from a read that failed or was out of date (write_reverse_indexes).
THEOREM SyncedReachable == Tree!Spec => []SyncedIsReachable
<1>1. TreeInv => SyncedIsReachable
  <2> SUFFICES ASSUME TreeInv, NEW s \in Syncs \ lost, sync[s].pc = "done",
                      NEW p \in DOMAIN TreeOf[s], placedBy[p] = {s}
               PROVE  Tree!Reachable(p, Tree!Place(s, p))
    BY DEF SyncedIsReachable, Tree!SyncedIsReachable
  <2> DEFINE m == TreeOf[s][p]
  <2>1. /\ m \in HsMerchants /\ OrgOf[s] \in Orgs
        /\ Tree!Place(s, p)[1] = m /\ Tree!Place(s, p)[2] = OrgOf[s]
    BY DEF Tree!Place
  <2>2. /\ Tree!Listed(s, OrgOf[s]) = {TreeOf[s][q] : q \in DOMAIN TreeOf[s]}
        /\ Tree!Listed(s, Root) = {OrgOf[s]} /\ p \in Tree!Listed(s, m)
    BY <2>1 DEF Tree!Listed
  <2>3. /\ m \in Tree!NamesOf(s) /\ OrgOf[s] \in Tree!NamesOf(s)
             /\ Root \in Tree!NamesOf(s)
    BY <2>2 DEF Tree!NamesOf
  <2>4. ASSUME NEW name \in Tree!NamesOf(s)
        PROVE  \A ids \in Tree!Entry(name) : Tree!Listed(s, name) \subseteq ids
    <3>1. s \in wrote[name]
      BY DEF TreeInv, Wrote
    <3> QED BY <3>1, NamesAreNames DEF TreeInv, Listing, Tree!Entry
  <2>5. rows[p] = {Tree!Place(s, p)}
    BY NamesAreNames DEF TreeInv, Placed
  <2> QED BY <2>1, <2>2, <2>3, <2>4, <2>5 DEF Tree!Reachable
<1> QED BY <1>1, TreeHolds, PTL

\* A session is offered only profiles that are under its node, as the process it runs in
\* knows them, also when an entry still names one that has moved (granted_profile).
THEOREM GrantsFollow == Tree!Spec => GrantsFollowTree
<1> DEFINE Follow == \A w \in Walks : \A p \in walk'[w].found \ walk[w].found :
       \/ p \in stale[NodeOf[w]] \/ p = walk[w].node
       \/ \E v \in Tree!Evidence(w, p) : Tree!Under(v, walk[w].node)
<1>1. TreeInv /\ [Tree!Next]_(Tree!vars) => [Follow]_(Tree!vars)
  <2> SUFFICES ASSUME TreeInv, Tree!Next, NEW w \in Walks,
                      NEW p \in walk'[w].found \ walk[w].found,
                      p \notin stale[NodeOf[w]], p # walk[w].node
               PROVE  \E v \in Tree!Evidence(w, p) : Tree!Under(v, walk[w].node)
    OBVIOUS
  <2>1. TreeTypes /\ InMind /\ NodeOf[w] \in Nodes /\ walk[w] \in WalkRecords
    BY DEF TreeInv, TreeTypes, Tree!Requests
  <2>2. walk' # walk
    OBVIOUS
  <2>3. PICK u \in Walks : Tree!Expand(u)
    BY <2>2 DEF Tree!Next, Tree!WriteForward, Tree!WriteReverse, Tree!LoadScope,
       Tree!FillScope, Tree!InsertScope, Tree!UpdateScope, Tree!EvictScope,
       Tree!ReadEntry, Tree!LookEntry, Tree!WriteEntry, Tree!FailSync, Tree!Forget,
       Tree!DeleteAccount
  <2>4. u = w
    <3>1. walk \in [Walks -> WalkRecords]
      BY <2>1 DEF TreeTypes
    <3>2. CASE Tree!Begin(u) \/ Tree!OpenMerchant(u)
      BY <3>1, <3>2 DEF Tree!Begin, Tree!OpenMerchant
    <3>3. CASE Tree!LoadCandidate(u) \/ Tree!FillCandidate(u)
      BY <3>1, <3>3 DEF Tree!LoadCandidate, Tree!FillCandidate, Tree!Offer
    <3> QED BY <2>3, <3>2, <3>3 DEF Tree!Expand
  <2>5. CASE Tree!LoadCandidate(w)
    <3>0. PICK q \in walk[w].left : \E v \in mem[NodeOf[w]][q] : Tree!Offer(w, q, v)
      BY <2>1, <2>5 DEF Tree!LoadCandidate, TreeTypes, WalkRecords
    <3>1. PICK v \in mem[NodeOf[w]][q] : Tree!Offer(w, q, v)
      BY <3>0
    <3>2. q \in Profiles
      BY <2>1 DEF WalkRecords
    <3>3. q = p /\ Tree!Confirmed(p, v, walk[w].node)
      BY <2>1, <3>1, <3>2, OfferEffect
    <3>4. Tree!Under(v, walk[w].node) /\ v \in rows[p] /\ walk[w].pc = "walk"
      BY <2>1, <2>5, <3>1, <3>2, <3>3 DEF Tree!Confirmed, InMind, Tree!LoadCandidate
    <3> QED BY <3>4 DEF Tree!Evidence
  <2>6. CASE Tree!FillCandidate(w)
    <3>1. /\ walk[w].pc = "fill" /\ Tree!Offer(w, walk[w].at, walk[w].val)
          /\ walk[w].at \in Profiles
      BY <2>1, <2>6 DEF Tree!FillCandidate, TreeTypes, WalkTypes
    <3>2. walk[w].at = p /\ Tree!Confirmed(p, walk[w].val, walk[w].node)
      BY <2>1, <3>1, OfferEffect
    <3> QED BY <3>1, <3>2 DEF Tree!Confirmed, Tree!Evidence
  <2>7. CASE Tree!Begin(w) \/ Tree!OpenMerchant(w)
    <3>1. walk \in [Walks -> WalkRecords]
      BY <2>1 DEF TreeTypes
    <3>2. ASSUME NEW node, NEW above, NEW left,
                 walk' = [walk EXCEPT ![w].pc = "walk", ![w].node = node,
                                      ![w].above = above, ![w].left = left]
          PROVE  walk'[w].found = walk[w].found
      BY <3>1, <3>2 DEF WalkRecords
    <3>3. ASSUME NEW node, walk' = [walk EXCEPT ![w].pc = "walk", ![w].node = node]
          PROVE  walk'[w].found = walk[w].found
      BY <3>1, <3>3 DEF WalkRecords
    <3>4. ASSUME NEW above, NEW left,
                 walk' = [walk EXCEPT ![w].above = above, ![w].left = left]
          PROVE  walk'[w].found = walk[w].found
      BY <3>1, <3>4 DEF WalkRecords
    <3>5. ASSUME NEW above, walk' = [walk EXCEPT ![w].above = above]
          PROVE  walk'[w].found = walk[w].found
      BY <3>1, <3>5 DEF WalkRecords
    <3> QED BY <2>7, <3>2, <3>3, <3>4, <3>5 DEF Tree!Begin, Tree!OpenMerchant
  <2> QED BY <2>3, <2>4, <2>5, <2>6, <2>7 DEF Tree!Expand
<1> QED BY <1>1, TreeHolds, PTL DEF GrantsFollowTree, Tree!GrantsFollowTree, Tree!Spec
=============================================================================
