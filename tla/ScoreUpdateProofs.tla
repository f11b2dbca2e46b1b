------------------------- MODULE ScoreUpdateProofs --------------------------
(***************************************************************************)
(* Proofs about ScoreUpdate for any number of deliveries, gateways and     *)
(* elimination keys, with or without faults and shutdowns.                 *)
(***************************************************************************)
EXTENDS ScoreUpdate, TLAPS

USE SwitchesAssumption, SomeGateway, StatusesAssumption

-----------------------------------------------------------------------------
(* Tasks.                                                                  *)

LEMMA CallType ==
  ASSUME NEW pc \in PcStates, NEW s \in Statuses, NEW g \in Gateways,
         NEW e \in BOOLEAN
  PROVE  Call(pc, s, g, e) \in TaskRecord
BY DEF Call, TaskRecord, Types

\* A task that moves on keeps its payload and what it has decided.
LEMMA GotoMoves ==
  ASSUME task \in [Deliveries -> TaskRecord], NEW d \in Deliveries,
         NEW pc \in PcStates, Goto(d, pc)
  PROVE  /\ task' \in [Deliveries -> TaskRecord]
         /\ task'[d].pc = pc
         /\ task'[d].type = task[d].type /\ task'[d].gw = task[d].gw
         /\ \A e \in Deliveries \ {d} : task'[e] = task[e]
BY DEF Goto, TaskRecord

\* A task that is over keeps its payload, too.
LEMMA OverKeeps ==
  ASSUME NEW t \in TaskRecord, NEW pc \in PcStates
  PROVE  /\ Over(t, pc) \in TaskRecord
         /\ Over(t, pc).pc = pc
         /\ Over(t, pc).type = t.type /\ Over(t, pc).gw = t.gw
BY DEF Over, TaskRecord

LEMMA ScoringTypeType ==
  ASSUME NEW s \in Statuses, NEW e \in BOOLEAN, NEW l \in BOOLEAN
  PROVE  ScoringType(s, e, l) \in Types
BY DEF ScoringType, Types

LEMMA LockKeyType ==
  ASSUME task \in [Deliveries -> TaskRecord], NEW d \in Deliveries
  PROVE  LockKey(d) \in LockKeys
BY DEF LockKey, LockKeys, TaskRecord

-----------------------------------------------------------------------------
(* Type correctness.                                                       *)

LEMMA InitTypeOK == Init => TypeOK
<1> SUFFICES ASSUME Init PROVE TypeOK
  OBVIOUS
<1>1. IdleTask \in TaskRecord
  <2>1. (CHOOSE s \in Statuses : TRUE) \in Statuses
        /\ (CHOOSE g \in Gateways : TRUE) \in Gateways
    OBVIOUS
  <2>2. "idle" \in PcStates
    BY DEF PcStates
  <2> QED
    BY <2>1, <2>2, CallType DEF IdleTask
<1> QED
  BY <1>1 DEF Init, TypeOK

LEMMA TaskStepTypeOK ==
  ASSUME TypeOK, NEW d \in Deliveries, Receive(d) \/ TaskStep(d)
  PROVE  TypeOK'
<1> USE DEF PcStates
<1>0. /\ task \in [Deliveries -> TaskRecord] /\ task[d] \in TaskRecord
      /\ task[d].status \in Statuses /\ task[d].enforce \in BOOLEAN
      /\ task[d].type \in Types /\ task[d].gw \in Gateways
      /\ overdue \in BOOLEAN /\ LockKey(d) \in LockKeys
  BY LockKeyType DEF TypeOK, TaskRecord
<1>1. CASE Receive(d)
  <2>1. task' \in [Deliveries -> TaskRecord]
    BY <1>0, <1>1, CallType DEF Receive
  <2> QED
    BY <1>1, <2>1 DEF Receive, TypeOK
<1>2. CASE GsmFilter(d)
  <2>1. task' \in [Deliveries -> TaskRecord]
    BY <1>0, <1>2, GotoMoves DEF GsmFilter
  <2> QED
    BY <1>2, <2>1 DEF GsmFilter, TypeOK
<1>3. CASE FetchScoringData(d)
  <2>1. task' \in [Deliveries -> TaskRecord]
    BY <1>0, <1>3, GotoMoves DEF FetchScoringData
  <2> QED
    BY <1>3, <2>1 DEF FetchScoringData, TypeOK
<1>4. CASE Classify(d)
  <2>1. PICK t \in Types : task' = [task EXCEPT ![d].pc = "lock", ![d].type = t]
    BY <1>0, <1>4, ScoringTypeType DEF Classify
  <2>2. task' \in [Deliveries -> TaskRecord]
    BY <1>0, <2>1 DEF TaskRecord
  <2> QED
    BY <1>4, <2>2 DEF Classify, TypeOK
<1>5. CASE TakeLock(d)
  <2>1. PICK acquired \in BOOLEAN :
          /\ locks' \in {locks, locks \cup {LockKey(d)}}
          /\ Goto(d, IF MayUpdate(acquired) THEN "load" ELSE "skipped")
          /\ winners' = IF MayUpdate(acquired)
                          THEN [winners EXCEPT ![LockKey(d)] = @ \cup {d}]
                          ELSE winners
    BY <1>5 DEF TakeLock
  <2>2. task' \in [Deliveries -> TaskRecord]
    BY <1>0, <2>1, GotoMoves
  <2>3. winners' \in [LockKeys -> SUBSET Deliveries]
    BY <1>0, <2>1 DEF TypeOK
  <2> QED
    BY <1>0, <1>5, <2>1, <2>2, <2>3 DEF TakeLock, TypeOK
<1>6. CASE LoadMerchant(d)
  <2>1. CASE Goto(d, "panicked")
    BY <1>0, <1>6, <2>1, GotoMoves DEF LoadMerchant, TypeOK
  <2>2. ASSUME NEW c \in BOOLEAN,
               task' = [task EXCEPT ![d].pc = "read",
                                    ![d].counts = c /\ FeedsSr(task[d].type)]
        PROVE  TypeOK'
    <3>1. PICK b \in BOOLEAN : task' = [task EXCEPT ![d].pc = "read",
                                                    ![d].counts = b]
      BY <2>2 DEF FeedsSr
    <3>2. task' \in [Deliveries -> TaskRecord]
      BY <1>0, <3>1 DEF TaskRecord
    <3> QED
      BY <1>6, <3>2 DEF LoadMerchant, TypeOK
  <2> QED
    BY <1>6, <2>1, <2>2 DEF LoadMerchant
<1>7. CASE ReadForElimination(d)
  <2>1. PICK w \in BOOLEAN, b \in BOOLEAN :
          task' = [task EXCEPT ![d].pc = "sr", ![d].open = w, ![d].seen = b]
    BY <1>0, <1>7 DEF ReadForElimination, FeedsElimination, TypeOK
  <2>2. task' \in [Deliveries -> TaskRecord]
    BY <1>0, <2>1 DEF TaskRecord
  <2> QED
    BY <1>7, <2>2 DEF ReadForElimination, TypeOK
<1>8. CASE FeedSr(d)
  <2>1. task' \in [Deliveries -> TaskRecord]
    BY <1>0, <1>8, GotoMoves DEF FeedSr
  <2>2. written' \subseteq [from : Deliveries, type : Types, gw : Gateways,
                            keyed : BOOLEAN]
    <3> DEFINE w(keyed) == [from |-> d, type |-> task[d].type, gw |-> task[d].gw,
                            keyed |-> keyed]
    <3>1. written' = written
          \/ \E keyed \in BOOLEAN : written' = written \cup {w(keyed)}
      BY <1>8 DEF FeedSr, TypeOK
    <3>2. \A keyed \in BOOLEAN : w(keyed) \in [from : Deliveries, type : Types,
                                              gw : Gateways, keyed : BOOLEAN]
      BY <1>0
    <3> HIDE DEF w
    <3> QED
      BY <3>1, <3>2 DEF TypeOK
  <2> QED
    BY <1>8, <2>1, <2>2 DEF FeedSr, TypeOK
<1>9. CASE SpawnElimination(d)
  <2>1. task' \in [Deliveries -> TaskRecord]
    BY <1>0, <1>9, OverKeeps DEF SpawnElimination
  <2>2. detached' \subseteq Deliveries \X ElimKeys
    BY <1>9 DEF SpawnElimination, TypeOK
  <2> QED
    BY <1>9, <2>1, <2>2 DEF SpawnElimination, TypeOK
<1> QED
  BY <1>1, <1>2, <1>3, <1>4, <1>5, <1>6, <1>7, <1>8, <1>9 DEF TaskStep

LEMMA EnvironmentTypeOK == ASSUME TypeOK, Environment PROVE TypeOK'
<1>1. ASSUME NEW clean \in BOOLEAN, Exit(clean) PROVE TypeOK'
  <2>1. task' \in [Deliveries -> TaskRecord]
    <3> SUFFICES ASSUME NEW d \in Deliveries
                 PROVE  Over(task[d], "dropped") \in TaskRecord
      BY <1>1 DEF Exit, TypeOK
    <3>1. task[d] \in TaskRecord
      BY DEF TypeOK
    <3> QED
      BY <3>1, OverKeeps DEF PcStates
  <2> QED
    BY <1>1, <2>1 DEF Exit, TypeOK
<1>2. CASE PassThreshold
  BY <1>2 DEF PassThreshold, TypeOK
<1>3. CASE ExpireData
  BY <1>3 DEF ExpireData, TypeOK
<1>4. CASE Sigterm
  BY <1>4 DEF Sigterm, TypeOK
<1>5. CASE Restart
  BY <1>5 DEF Restart, TypeOK
<1>6. ASSUME NEW k \in LockKeys, ExpireLock(k) PROVE TypeOK'
  BY <1>6 DEF ExpireLock, TypeOK
<1> QED
  BY <1>1, <1>2, <1>3, <1>4, <1>5, <1>6 DEF Environment

LEMMA NextTypeOK == TypeOK /\ [Next]_vars => TypeOK'
<1> SUFFICES ASSUME TypeOK, [Next]_vars PROVE TypeOK'
  OBVIOUS
<1>1. ASSUME NEW d \in Deliveries, NEW k \in ElimKeys, EliminationUpdate(d, k)
      PROVE  TypeOK'
  BY <1>1 DEF EliminationUpdate, TypeOK
<1>2. CASE UNCHANGED vars
  BY <1>2 DEF vars, TypeOK
<1> QED
  BY <1>1, <1>2, TaskStepTypeOK, EnvironmentTypeOK DEF Next

\* The handler, its tasks and the environment keep every variable well formed
\* (update_gateway_score).
THEOREM TypeInvariant == Spec => []TypeOK
BY InitTypeOK, NextTypeOK, PTL DEF Spec

-----------------------------------------------------------------------------
(* One entry per class and gateway.                                        *)

Holding == {"load", "read", "sr", "eliminate"}

\* Where the lock is honoured and has not expired it admitted one delivery,
\* and is still there.
LockAdmitsOne ==
  LockEnabled =>
    \A k \in LockKeys \ expired :
      /\ winners[k] # {} => k \in locks
      /\ \A d, e \in winners[k] : d = e

\* Only admitted deliveries get past the lock, and only they write.
OnlyWinnersProceed ==
  /\ \A d \in Deliveries : task[d].pc \in Holding => d \in winners[LockKey(d)]
  /\ \A w \in written : w.from \in winners[<<w.type, w.gw>>]

\* The inductive invariant behind OneEntryPerClass.
LockInv == LockAdmitsOne /\ OnlyWinnersProceed

LEMMA LockInvImplies == TypeOK /\ LockInv => OneEntryPerClass
<1> SUFFICES ASSUME TypeOK, LockInv, LockEnabled,
                    NEW w \in written, NEW x \in written,
                    w.type = x.type, w.gw = x.gw, <<w.type, w.gw>> \notin expired
             PROVE  w.from = x.from
  BY DEF OneEntryPerClass
<1>1. <<w.type, w.gw>> \in LockKeys
  BY DEF TypeOK, LockKeys
<1>2. w.from \in winners[<<w.type, w.gw>>] /\ x.from \in winners[<<w.type, w.gw>>]
  BY DEF LockInv, OnlyWinnersProceed
<1> QED
  BY <1>1, <1>2 DEF LockInv, LockAdmitsOne

\* A step that moves one task, and neither writes, locks nor admits.
LEMMA QuietStep ==
  ASSUME TypeOK, LockInv, NEW d \in Deliveries,
         UNCHANGED <<locks, written, expired, winners>>,
         \A e \in Deliveries \ {d} : task'[e] = task[e],
         \/ task'[d].pc \notin Holding
         \/ task[d].pc \in Holding /\ task'[d].type = task[d].type
              /\ task'[d].gw = task[d].gw
  PROVE  LockInv'
<1>1. LockAdmitsOne'
  BY DEF LockInv, LockAdmitsOne
<1>2. \A e \in Deliveries : task'[e].pc \in Holding =>
        e \in winners[<<task'[e].type, task'[e].gw>>]
  BY DEF LockInv, OnlyWinnersProceed, LockKey
<1> QED
  BY <1>1, <1>2 DEF LockInv, OnlyWinnersProceed, LockKey

LEMMA StepKeepsLockInv == TypeOK /\ LockInv /\ [Next]_vars => LockInv'
<1> SUFFICES ASSUME TypeOK, LockInv, [Next]_vars PROVE LockInv'
  OBVIOUS
<1> USE DEF PcStates
<1>0. task \in [Deliveries -> TaskRecord] /\ expired \subseteq LockKeys
      /\ winners \in [LockKeys -> SUBSET Deliveries]
  BY DEF TypeOK
<1>1. ASSUME NEW d \in Deliveries, Receive(d) \/ TaskStep(d) PROVE LockInv'
  <2>0. LockKey(d) \in LockKeys
    BY <1>0, LockKeyType
  <2>1. CASE Receive(d)
    <3>1. PICK s \in Statuses, g \in Gateways, e \in BOOLEAN :
            task' = [task EXCEPT ![d] = Call("spawned", s, g, e)]
      BY <2>1 DEF Receive
    <3>2. Call("spawned", s, g, e).pc = "spawned"
      BY DEF Call
    <3>3. task'[d].pc \notin Holding
          /\ \A f \in Deliveries \ {d} : task'[f] = task[f]
      BY <1>0, <3>1, <3>2 DEF Holding
    <3> QED
      BY <2>1, <3>3, QuietStep DEF Receive
  <2>2. CASE GsmFilter(d)
    <3>1. task'[d].pc \notin Holding
          /\ \A f \in Deliveries \ {d} : task'[f] = task[f]
      BY <1>0, <2>2, GotoMoves DEF GsmFilter, Holding
    <3> QED
      BY <2>2, <3>1, QuietStep DEF GsmFilter
  <2>3. CASE FetchScoringData(d)
    <3>1. task'[d].pc \notin Holding
          /\ \A f \in Deliveries \ {d} : task'[f] = task[f]
      BY <1>0, <2>3, GotoMoves DEF FetchScoringData, Holding
    <3> QED
      BY <2>3, <3>1, QuietStep DEF FetchScoringData
  <2>4. CASE Classify(d)
    <3>1. task'[d].pc \notin Holding
          /\ \A f \in Deliveries \ {d} : task'[f] = task[f]
      BY <1>0, <2>4 DEF Classify, TaskRecord, Holding
    <3> QED
      BY <2>4, <3>1, QuietStep DEF Classify
  <2>5. CASE TakeLock(d)
    <3> DEFINE k == LockKey(d)
    <3>1. PICK acquired \in BOOLEAN :
            /\ locks' \in {locks, locks \cup {k}}
            /\ acquired => k \notin locks /\ locks' = locks \cup {k}
            /\ Goto(d, IF MayUpdate(acquired) THEN "load" ELSE "skipped")
            /\ winners' = IF MayUpdate(acquired)
                            THEN [winners EXCEPT ![k] = @ \cup {d}] ELSE winners
      BY <2>5 DEF TakeLock
    <3>2. UNCHANGED <<written, expired>>
      BY <2>5 DEF TakeLock
    <3>3. /\ task'[d].pc = IF MayUpdate(acquired) THEN "load" ELSE "skipped"
          /\ task'[d].type = task[d].type /\ task'[d].gw = task[d].gw
          /\ \A e \in Deliveries \ {d} : task'[e] = task[e]
      BY <1>0, <3>1, GotoMoves
    <3>4. k = <<task[d].type, task[d].gw>>
      BY DEF LockKey
    <3> HIDE DEF k
    <3>5. \A j \in LockKeys : winners[j] \subseteq winners'[j]
      BY <1>0, <2>0, <3>1
    <3>6. MayUpdate(acquired) => d \in winners'[k]
      BY <1>0, <2>0, <3>1 DEF k
    <3>7. LockAdmitsOne'
      <4> SUFFICES ASSUME LockEnabled, NEW j \in LockKeys \ expired
                   PROVE  /\ winners'[j] # {} => j \in locks'
                          /\ \A e, f \in winners'[j] : e = f
        BY <3>2 DEF LockAdmitsOne
      <4>1. CASE acquired /\ j = k
        <5>1. winners[k] = {}
          BY <3>1, <4>1 DEF LockInv, LockAdmitsOne
        <5>2. winners'[k] \subseteq {d}
          BY <1>0, <2>0, <3>1, <5>1 DEF k
        <5>3. k \in locks'
          BY <3>1, <4>1
        <5> QED
          BY <4>1, <5>2, <5>3
      <4>2. CASE ~(acquired /\ j = k)
        <5>1. winners'[j] = winners[j]
          BY <1>0, <2>0, <3>1, <4>2 DEF MayUpdate, k
        <5> QED
          BY <3>1, <5>1 DEF LockInv, LockAdmitsOne
      <4> QED
        BY <4>1, <4>2
    <3>8. \A e \in Deliveries : task'[e].pc \in Holding =>
            e \in winners'[<<task'[e].type, task'[e].gw>>]
      <4> SUFFICES ASSUME NEW e \in Deliveries, task'[e].pc \in Holding
                   PROVE  e \in winners'[<<task'[e].type, task'[e].gw>>]
        OBVIOUS
      <4>1. CASE e = d
        BY <3>3, <3>4, <3>6, <4>1 DEF Holding
      <4>2. CASE e # d
        <5>1. task'[e] = task[e] /\ e \in winners[LockKey(e)]
          BY <3>3, <4>2 DEF LockInv, OnlyWinnersProceed
        <5>2. LockKey(e) \in LockKeys
          BY <1>0, LockKeyType
        <5> QED
          BY <3>5, <5>1, <5>2 DEF LockKey
      <4> QED
        BY <4>1, <4>2
    <3>9. \A w \in written : w.from \in winners'[<<w.type, w.gw>>]
      <4> TAKE w \in written
      <4>1. <<w.type, w.gw>> \in LockKeys
        BY DEF TypeOK, LockKeys
      <4>2. w.from \in winners[<<w.type, w.gw>>]
        BY DEF LockInv, OnlyWinnersProceed
      <4> QED
        BY <3>5, <4>1, <4>2
    <3> QED
      BY <3>2, <3>7, <3>8, <3>9 DEF LockInv, OnlyWinnersProceed, LockKey
  <2>6. CASE LoadMerchant(d)
    <3>1. CASE Goto(d, "panicked")
      <4>1. task'[d].pc \notin Holding
            /\ \A f \in Deliveries \ {d} : task'[f] = task[f]
        BY <1>0, <3>1, GotoMoves DEF Holding
      <4> QED
        BY <2>6, <4>1, QuietStep DEF LoadMerchant
    <3>2. ASSUME NEW c, task' = [task EXCEPT ![d].pc = "read", ![d].counts = c]
          PROVE  LockInv'
      <4>1. task[d].pc \in Holding /\ task'[d].type = task[d].type
            /\ task'[d].gw = task[d].gw
            /\ \A f \in Deliveries \ {d} : task'[f] = task[f]
        BY <1>0, <2>6, <3>2 DEF LoadMerchant, TaskRecord, Holding
      <4> QED
        BY <2>6, <4>1, QuietStep DEF LoadMerchant
    <3> QED
      BY <2>6, <3>1, <3>2 DEF LoadMerchant
  <2>7. CASE ReadForElimination(d)
    <3>1. PICK w, b :
            task' = [task EXCEPT ![d].pc = "sr", ![d].open = w, ![d].seen = b]
      BY <2>7 DEF ReadForElimination
    <3>2. task[d].pc \in Holding /\ task'[d].type = task[d].type
          /\ task'[d].gw = task[d].gw
          /\ \A f \in Deliveries \ {d} : task'[f] = task[f]
      BY <1>0, <2>7, <3>1 DEF ReadForElimination, TaskRecord, Holding
    <3> QED
      BY <2>7, <3>2, QuietStep DEF ReadForElimination
  <2>8. CASE FeedSr(d)
    <3>1. task[d].pc \in Holding /\ task'[d].type = task[d].type
          /\ task'[d].gw = task[d].gw
          /\ \A f \in Deliveries \ {d} : task'[f] = task[f]
      BY <1>0, <2>8, GotoMoves DEF FeedSr, Holding
    <3>2. \A e \in Deliveries : task'[e].pc \in Holding =>
            e \in winners[<<task'[e].type, task'[e].gw>>]
      BY <3>1 DEF LockInv, OnlyWinnersProceed, LockKey
    <3>3. d \in winners[<<task[d].type, task[d].gw>>]
      BY <3>1 DEF LockInv, OnlyWinnersProceed, LockKey
    <3>4. \A w \in written' \ written :
            w.from = d /\ w.type = task[d].type /\ w.gw = task[d].gw
      BY <2>8 DEF FeedSr
    <3>5. \A w \in written' : w.from \in winners[<<w.type, w.gw>>]
      BY <3>3, <3>4 DEF LockInv, OnlyWinnersProceed
    <3>6. UNCHANGED <<locks, expired, winners>>
      BY <2>8 DEF FeedSr
    <3> QED
      BY <3>2, <3>5, <3>6 DEF LockInv, LockAdmitsOne, OnlyWinnersProceed, LockKey
  <2>9. CASE SpawnElimination(d)
    <3>1. task'[d].pc \notin Holding
          /\ \A f \in Deliveries \ {d} : task'[f] = task[f]
      BY <1>0, <2>9, OverKeeps DEF SpawnElimination, Holding
    <3> QED
      BY <2>9, <3>1, QuietStep DEF SpawnElimination
  <2> QED
    BY <1>1, <2>1, <2>2, <2>3, <2>4, <2>5, <2>6, <2>7, <2>8, <2>9 DEF TaskStep
<1>2. ASSUME NEW d \in Deliveries, NEW k \in ElimKeys, EliminationUpdate(d, k)
      PROVE  LockInv'
  BY <1>2 DEF EliminationUpdate, LockInv, LockAdmitsOne, OnlyWinnersProceed, LockKey
<1>3. CASE Environment
  <2>1. ASSUME NEW clean \in BOOLEAN, Exit(clean) PROVE LockInv'
    <3>1. \A d \in Deliveries : task'[d] = task[d] \/ task'[d].pc \notin Holding
      <4> SUFFICES ASSUME NEW d \in Deliveries, task'[d] # task[d]
                   PROVE  task'[d].pc \notin Holding
        OBVIOUS
      <4>1. task'[d] = Over(task[d], "dropped") /\ task[d] \in TaskRecord
        BY <1>0, <2>1 DEF Exit
      <4>2. task'[d].pc = "dropped"
        BY <4>1, OverKeeps
      <4> QED
        BY <4>2 DEF Holding
    <3>2. UNCHANGED <<locks, written, expired, winners>>
      BY <2>1 DEF Exit
    <3> QED
      BY <3>1, <3>2 DEF LockInv, LockAdmitsOne, OnlyWinnersProceed, LockKey
  <2>2. CASE PassThreshold \/ ExpireData \/ Sigterm \/ Restart
    BY <2>2 DEF PassThreshold, ExpireData, Sigterm, Restart, LockInv,
                LockAdmitsOne, OnlyWinnersProceed, LockKey
  <2>3. ASSUME NEW k \in LockKeys, ExpireLock(k) PROVE LockInv'
    <3>1. OnlyWinnersProceed'
      BY <2>3 DEF ExpireLock, LockInv, OnlyWinnersProceed, LockKey
    <3>2. LockAdmitsOne'
      BY <2>3 DEF ExpireLock, LockInv, LockAdmitsOne
    <3> QED
      BY <3>1, <3>2 DEF LockInv
  <2> QED
    BY <1>3, <2>1, <2>2, <2>3 DEF Environment
<1>4. CASE UNCHANGED vars
  BY <1>4 DEF vars, LockInv, LockAdmitsOne, OnlyWinnersProceed, LockKey
<1> QED
  BY <1>1, <1>2, <1>3, <1>4 DEF Next

\* Duplicated, reordered and concurrent deliveries, faults, crashes and
\* restarts included, an outcome class enters the window of a gateway once
\* per lock lifetime (check_and_update_gateway_score).
THEOREM OneEntryPerClassHolds == Spec => []OneEntryPerClass
<1>1. Init => LockInv
  <2> SUFFICES ASSUME Init PROVE LockInv
    OBVIOUS
  <2>1. \A d \in Deliveries : task[d].pc = "idle"
    BY DEF Init, IdleTask, Call
  <2>2. \A k \in LockKeys : winners[k] = {}
    BY DEF Init
  <2> QED
    BY <2>1, <2>2 DEF Init, LockInv, LockAdmitsOne, OnlyWinnersProceed, Holding
<1> QED
  BY <1>1, TypeInvariant, StepKeepsLockInv, LockInvImplies, PTL DEF Spec

-----------------------------------------------------------------------------
(* What a lock stands for.                                                 *)

Unclassified == {"idle", "spawned", "fetch", "classify", "lock", "rejected"}

\* A step that takes no lock and lets no classified task back.
LEMMA KeepsClassified ==
  ASSUME LockMeansClassified, locks' \subseteq locks,
         \A d \in Deliveries : task[d].pc \notin Unclassified =>
           /\ task'[d].pc \notin Unclassified
           /\ task'[d].type = task[d].type /\ task'[d].gw = task[d].gw
  PROVE  LockMeansClassified'
BY DEF LockMeansClassified, LockKey, Unclassified

LEMMA StepKeepsClassified ==
  ASSUME TypeOK, LockMeansClassified, [Next]_vars PROVE LockMeansClassified'
<1> USE DEF PcStates
<1>0. task \in [Deliveries -> TaskRecord]
  BY DEF TypeOK
<1>1. ASSUME NEW d \in Deliveries, Receive(d) \/ TaskStep(d)
      PROVE  LockMeansClassified'
  <2>0. LockKey(d) \in LockKeys
    BY <1>0, LockKeyType
  <2>1. CASE Receive(d)
    <3>1. PICK c : task' = [task EXCEPT ![d] = c]
      BY <2>1 DEF Receive
    <3>2. task[d].pc \in Unclassified
          /\ \A e \in Deliveries \ {d} : task'[e] = task[e]
      BY <1>0, <2>1, <3>1 DEF Receive, Unclassified
    <3> QED
      BY <2>1, <3>2, KeepsClassified DEF Receive
  <2>2. CASE GsmFilter(d) \/ FetchScoringData(d) \/ FeedSr(d)
    <3>1. PICK pc \in PcStates : Goto(d, pc)
      BY <2>2 DEF GsmFilter, FetchScoringData, FeedSr
    <3>2. task[d].pc \notin Unclassified => pc \notin Unclassified
      BY <1>0, <2>2, <3>1, GotoMoves
         DEF GsmFilter, FetchScoringData, FeedSr, Unclassified
    <3>3. locks' = locks
      BY <2>2 DEF GsmFilter, FetchScoringData, FeedSr
    <3> QED
      BY <1>0, <3>1, <3>2, <3>3, GotoMoves, KeepsClassified
  <2>3. CASE Classify(d)
    <3>1. task[d].pc \in Unclassified
          /\ \A e \in Deliveries \ {d} : task'[e] = task[e]
      BY <1>0, <2>3 DEF Classify, Unclassified
    <3> QED
      BY <2>3, <3>1, KeepsClassified DEF Classify
  <2>4. CASE TakeLock(d)
    <3>1. PICK pc \in {"load", "skipped"} : Goto(d, pc)
      BY <2>4 DEF TakeLock
    <3>2. locks' \subseteq locks \cup {LockKey(d)} /\ task[d].pc = "lock"
      BY <2>4 DEF TakeLock
    <3>3. /\ task'[d].pc \notin Unclassified
          /\ task'[d].type = task[d].type /\ task'[d].gw = task[d].gw
          /\ \A e \in Deliveries \ {d} : task'[e] = task[e]
      BY <1>0, <3>1, GotoMoves DEF Unclassified
    <3> QED
      BY <3>2, <3>3 DEF LockMeansClassified, LockKey, Unclassified
  <2>5. CASE LoadMerchant(d) \/ ReadForElimination(d) \/ SpawnElimination(d)
    <3>1. /\ task'[d].pc \notin Unclassified
          /\ task'[d].type = task[d].type /\ task'[d].gw = task[d].gw
          /\ \A e \in Deliveries \ {d} : task'[e] = task[e]
      <4>1. CASE LoadMerchant(d)
        BY <1>0, <4>1, GotoMoves DEF LoadMerchant, TaskRecord, Unclassified, Goto
      <4>2. CASE ReadForElimination(d)
        BY <1>0, <4>2 DEF ReadForElimination, TaskRecord, Unclassified
      <4>3. CASE SpawnElimination(d)
        BY <1>0, <4>3, OverKeeps DEF SpawnElimination, Unclassified
      <4> QED
        BY <2>5, <4>1, <4>2, <4>3
    <3>2. locks' = locks
      BY <2>5 DEF LoadMerchant, ReadForElimination, SpawnElimination
    <3> QED
      BY <3>1, <3>2, KeepsClassified
  <2> QED
    BY <1>1, <2>1, <2>2, <2>3, <2>4, <2>5 DEF TaskStep
<1>2. CASE Environment
  <2>1. ASSUME NEW clean \in BOOLEAN, Exit(clean) PROVE LockMeansClassified'
    <3>1. ASSUME NEW d \in Deliveries, task[d].pc \notin Unclassified
          PROVE  /\ task'[d].pc \notin Unclassified
                 /\ task'[d].type = task[d].type /\ task'[d].gw = task[d].gw
      <4>1. task'[d] = task[d] \/ task'[d] = Over(task[d], "dropped")
        BY <2>1 DEF Exit
      <4> QED
        BY <1>0, <3>1, <4>1, OverKeeps DEF Unclassified
    <3> QED
      BY <2>1, <3>1, KeepsClassified DEF Exit
  <2>2. CASE PassThreshold \/ ExpireData \/ Sigterm \/ Restart
    BY <2>2, KeepsClassified DEF PassThreshold, ExpireData, Sigterm, Restart
  <2>3. ASSUME NEW k \in LockKeys, ExpireLock(k) PROVE LockMeansClassified'
    BY <2>3, KeepsClassified DEF ExpireLock
  <2> QED
    BY <1>2, <2>1, <2>2, <2>3 DEF Environment
<1>3. ASSUME NEW d \in Deliveries, NEW k \in ElimKeys, EliminationUpdate(d, k)
      PROVE  LockMeansClassified'
  BY <1>3, KeepsClassified DEF EliminationUpdate
<1>4. CASE UNCHANGED vars
  BY <1>4, KeepsClassified DEF vars
<1> QED
  BY <1>1, <1>2, <1>3, <1>4 DEF Next

\* A lock key, also one that an error or a stop left behind, stands for a delivery
\* that was classified: a rejected one locks nobody out
\* (check_and_update_gateway_score_).
THEOREM LockMeansClassifiedHolds == Spec => []LockMeansClassified
<1>1. Init => LockMeansClassified
  BY DEF Init, LockMeansClassified
<1> QED
  BY <1>1, TypeInvariant, StepKeepsClassified, PTL DEF Spec
=============================================================================
