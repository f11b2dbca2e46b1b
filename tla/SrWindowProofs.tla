--------------------------- MODULE SrWindowProofs ---------------------------
(***************************************************************************)
(* Proofs about SrWindow for every set of gateways, tasks and bucket sizes *)
(* and with or without Redis faults.                                       *)
(***************************************************************************)
EXTENDS SrWindow, SequenceTheorems, FiniteSetTheorems, TLAPS

USE GatewaysAssumption, SizesAssumption, FaultsAssumption

-----------------------------------------------------------------------------
(* The operators the keys are written with.                                *)

\* A function on 1..n with values in S is a sequence of length n (every list
\* written to Redis is built this way).
LEMMA FunctionIsSeq ==
  ASSUME NEW S, NEW n \in Nat, NEW f \in [1..n -> S]
  PROVE  f \in Seq(S) /\ Len(f) = n
<1>1. f \in Seq(S)
  BY SeqDef
<1>2. DOMAIN f = 1..n
  OBVIOUS
<1>3. Len(f) \in Nat /\ DOMAIN f = 1..Len(f)
  BY <1>1, LenProperties
<1> QED
  BY <1>1, <1>2, <1>3, SMT

\* LPUSH and LTRIM leave the newest entries, at most as many as the bucket
\* holds, with the pushed outcome in front (updateQueue).
LEMMA PushTrimProperties ==
  ASSUME NEW v \in Outcomes, NEW q \in Seq(Outcomes), NEW b \in Nat \ {0}
  PROVE  /\ PushTrim(v, q, b) \in Seq(Outcomes)
         /\ Len(PushTrim(v, q, b)) = MinOf(b, Len(q) + 1)
         /\ \A i \in 1..Len(PushTrim(v, q, b)) :
              PushTrim(v, q, b)[i] = IF i = 1 THEN v ELSE q[i - 1]
<1> DEFINE n == MinOf(b, Len(q) + 1)
<1>1. n \in Nat /\ n <= Len(q) + 1
  BY LenProperties DEF MinOf
<1>2. \A i \in 1..n : (IF i = 1 THEN v ELSE q[i - 1]) \in Outcomes
  <2> SUFFICES ASSUME NEW i \in 1..n, i # 1 PROVE q[i - 1] \in Outcomes
    OBVIOUS
  <2>1. i - 1 \in 1..Len(q)
    BY <1>1, LenProperties DEF MinOf
  <2> QED
    BY <2>1, ElementOfSeq
<1>3. PushTrim(v, q, b) \in [1..n -> Outcomes]
  BY <1>2 DEF PushTrim
<1> HIDE DEF n
<1>4. PushTrim(v, q, b) \in Seq(Outcomes) /\ Len(PushTrim(v, q, b)) = n
  BY <1>1, <1>3, FunctionIsSeq
<1>5. PushTrim(v, q, b) = [i \in 1..n |-> IF i = 1 THEN v ELSE q[i - 1]]
  BY DEF PushTrim, n
<1> QED
  BY <1>4, <1>5 DEF n

\* A success pushed to a list of successes.
LEMMA PushTrimSuccess ==
  ASSUME NEW q \in Seq(Outcomes), NEW b \in Nat \ {0},
         \A i \in 1..Len(q) : q[i] = 1
  PROVE  \A i \in 1..Len(PushTrim(1, q, b)) : PushTrim(1, q, b)[i] = 1
<1> DEFINE p == PushTrim(1, q, b)
<1>1. /\ Len(p) = MinOf(b, Len(q) + 1)
      /\ \A i \in 1..Len(p) : p[i] = IF i = 1 THEN 1 ELSE q[i - 1]
  BY PushTrimProperties DEF Outcomes
<1> HIDE DEF p
<1>2. \A i \in 1..Len(p) : i # 1 => i - 1 \in 1..Len(q)
  BY <1>1, LenProperties DEF MinOf
<1>3. \A i \in 1..Len(p) : p[i] = 1
  BY <1>1, <1>2
<1> QED
  BY <1>3 DEF p

\* Prepending an outcome to the history shifts it by one.
LEMMA PrependProperties ==
  ASSUME NEW v \in Outcomes, NEW h \in Seq(Outcomes)
  PROVE  /\ <<v>> \o h \in Seq(Outcomes)
         /\ Len(<<v>> \o h) = Len(h) + 1
         /\ \A i \in 1..(Len(h) + 1) :
              (<<v>> \o h)[i] = IF i = 1 THEN v ELSE h[i - 1]
<1>1. <<v>> \in Seq(Outcomes) /\ Len(<<v>>) = 1 /\ <<v>>[1] = v
  OBVIOUS
<1> DEFINE s == <<v>>
<1>2. s \in Seq(Outcomes) /\ Len(s) = 1 /\ s[1] = v
  BY <1>1
<1> HIDE DEF s
<1>3. /\ s \o h \in Seq(Outcomes)
      /\ Len(s \o h) = Len(s) + Len(h)
      /\ \A i \in 1..(Len(s) + Len(h)) :
           (s \o h)[i] = IF i <= Len(s) THEN s[i] ELSE h[i - Len(s)]
  BY <1>2, ConcatProperties
<1>4. Len(h) \in Nat
  BY LenProperties
<1>5. /\ s \o h \in Seq(Outcomes)
      /\ Len(s \o h) = Len(h) + 1
      /\ \A i \in 1..(Len(h) + 1) :
           (s \o h)[i] = IF i = 1 THEN v ELSE h[i - 1]
  BY <1>2, <1>3, <1>4
<1> QED
  BY <1>5 DEF s

\* The seed of a fresh window is a full bucket of successes.
LEMMA OnesProperties ==
  ASSUME NEW n \in Nat
  PROVE  /\ Ones(n) \in Seq(Outcomes) /\ Len(Ones(n)) = n
         /\ \A i \in 1..n : Ones(n)[i] = 1
<1>1. Ones(n) \in [1..n -> Outcomes]
  BY DEF Ones, Outcomes
<1> QED
  BY <1>1, FunctionIsSeq DEF Ones

\* A reset installs a full bucket of outcomes.
LEMMA ResetListProperties ==
  ASSUME NEW b \in Nat, NEW z \in Nat
  PROVE  ResetList(b, z) \in Seq(Outcomes) /\ Len(ResetList(b, z)) = b
<1>1. ResetList(b, z) \in [1..b -> Outcomes]
  BY DEF ResetList, Outcomes
<1> QED
  BY <1>1, FunctionIsSeq

\* Counting successes yields a natural number.
LEMMA SuccessesType ==
  ASSUME NEW q, NEW n \in Nat
  PROVE  Successes(q, n) \in Nat
<1>1. IsFiniteSet(1..n)
  BY FS_Interval
<1>2. IsFiniteSet({i \in 1..n : q[i] = 1})
  BY <1>1, FS_Subset
<1> QED
  BY <1>2, FS_CardinalityType DEF Successes

\* Every score read from the keys is a fraction of naturals.
LEMMA ScoresFromRedisType ==
  ASSUME TypeOK, NEW g \in Gateways, NEW b \in Sizes
  PROVE  ScoresFromRedis(g, b) \subseteq Score
<1> DEFINE n == MinOf(b, Len(queue[g]))
<1>1. b \in Nat
  OBVIOUS
<1>2. queue[g] # <<>> => <<Successes(queue[g], n), n>> \in Score
  <2>1. Len(queue[g]) \in Nat
    BY LenProperties DEF TypeOK
  <2>2. n \in Nat
    BY <1>1, <2>1 DEF MinOf
  <2>3. Successes(queue[g], n) \in Nat
    BY <2>2, SuccessesType
  <2> QED
    BY <2>2, <2>3 DEF Score
<1>3. score[g] # NoKey => <<MinOf(score[g], b), b>> \in Score
  <2>1. SUFFICES ASSUME score[g] # NoKey PROVE MinOf(score[g], b) \in Nat
    BY <1>1 DEF Score
  <2>2. score[g] \in Nat
    BY <2>1 DEF TypeOK
  <2> QED
    BY <1>1, <2>2 DEF MinOf
<1>4. <<b, b>> \in Score
  BY <1>1 DEF Score
<1> QED
  BY <1>2, <1>3, <1>4 DEF ScoresFromRedis

-----------------------------------------------------------------------------
(* Type correctness.                                                       *)

LEMMA DecisionType ==
  ASSUME NEW pc \in DecStates, NEW b \in Sizes
  PROVE  Decision(pc, b) \in DecRecord /\ Decision(pc, b).zeros <= Decision(pc, b).size
<1>1. [g \in Gateways |-> NoScore] \in [Gateways -> Score]
  BY DEF NoScore, Score
<1>2. Decision(pc, b) \in DecRecord
  BY <1>1 DEF Decision, DecRecord
<1>3. Decision(pc, b).zeros = 0 /\ Decision(pc, b).size = b /\ b \in Nat
  BY DEF Decision
<1> QED
  BY <1>2, <1>3

LEMMA IdleTypes ==
  IdleFb \in FbRecord /\ IdleDec \in DecRecord /\ IdleDec.zeros <= IdleDec.size
<1>1. (CHOOSE g \in Gateways : TRUE) \in Gateways
  OBVIOUS
<1>2. (CHOOSE b \in Sizes : TRUE) \in Sizes
  OBVIOUS
<1>3. IdleFb \in FbRecord
  BY <1>1, <1>2 DEF IdleFb, FbRecord, FbStates, Outcomes
<1>4. IdleDec \in DecRecord /\ IdleDec.zeros <= IdleDec.size
  BY <1>2, DecisionType DEF IdleDec, DecStates
<1> QED
  BY <1>3, <1>4

LEMMA InitTypeOK == Init => TypeOK
<1> SUFFICES ASSUME Init PROVE TypeOK
  OBVIOUS
<1> USE DEF Init
<1>1. queue \in [Gateways -> Seq(Outcomes)] /\ hist \in [Gateways -> Seq(Outcomes)]
  BY EmptySeq
<1>2. score \in [Gateways -> Nat \cup {NoKey}] /\ pushed \in [Gateways -> Nat]
  OBVIOUS
<1>3. /\ fb \in [Feedbacks -> FbRecord] /\ dec \in [Deciders -> DecRecord]
      /\ \A d \in Deciders : dec[d].zeros <= dec[d].size
  BY IdleTypes
<1>4. cache \in [Gateways \X Sizes -> Score]
  BY DEF NoScore, Score
<1> QED
  BY <1>1, <1>2, <1>3, <1>4 DEF TypeOK

\* The MULTI block that creates a window keeps the types of what it writes.
LEMMA CreateTypes ==
  ASSUME TypeOK, NEW g \in Gateways, NEW list \in Seq(Outcomes), NEW n \in Nat,
         CreateMovingWindowAndScore(g, list, n)
  PROVE  /\ queue' \in [Gateways -> Seq(Outcomes)]
         /\ score' \in [Gateways -> Nat \cup {NoKey}]
         /\ hist' \in [Gateways -> Seq(Outcomes)]
         /\ pushed' \in [Gateways -> Nat]
BY DEF TypeOK, CreateMovingWindowAndScore

LEMMA WaitingType ==
  ASSUME NEW g, NEW except PROVE Waiting(g, except) \subseteq Feedbacks
BY DEF Waiting

\* A task that moves on keeps its record.
LEMMA FbMove ==
  ASSUME TypeOK, NEW t \in Feedbacks, NEW pc \in FbStates,
         fb' = [fb EXCEPT ![t].pc = pc]
  PROVE  fb' \in [Feedbacks -> FbRecord]
<1>1. fb \in [Feedbacks -> FbRecord]
  BY DEF TypeOK
<1> QED
  BY <1>1 DEF FbRecord

LEMMA FeedbackTypeOK ==
  ASSUME TypeOK, NEW t \in Feedbacks, FeedbackStep(t)
  PROVE  TypeOK'
<1>0. /\ fb[t] \in FbRecord /\ fb[t].gw \in Gateways /\ fb[t].out \in Outcomes
      /\ fb[t].size \in Sizes /\ fb[t].size \in Nat \ {0}
  BY DEF TypeOK, FbRecord
<1> "done" \in FbStates /\ "push" \in FbStates
  BY DEF FbStates
<1>1. CASE StartFeedback(t)
  <2>1. CASE fb' = [fb EXCEPT ![t].pc = "done"]
    <3>1. fb' \in [Feedbacks -> FbRecord]
      BY <2>1, FbMove
    <3> QED
      BY <1>1, <3>1 DEF StartFeedback, TypeOK
  <2>2. CASE \E g \in Gateways, v \in Outcomes :
               fb' = [fb EXCEPT ![t] = [pc |-> "sized", gw |-> g, out |-> v,
                                        size |-> bucket, queueSeen |-> FALSE]]
    <3>1. fb' \in [Feedbacks -> FbRecord]
      BY <2>2 DEF TypeOK, FbRecord, FbStates
    <3> QED
      BY <1>1, <3>1 DEF StartFeedback, TypeOK
  <2> QED
    BY <1>1, <2>1, <2>2 DEF StartFeedback
<1>2. CASE AskQueue(t)
  <2>1. PICK a \in BOOLEAN :
          /\ fb' = [fb EXCEPT ![t].pc = "queueAsked", ![t].queueSeen = a]
          /\ misled' \in {misled, misled \cup {t}}
    BY <1>2 DEF AskQueue
  <2>2. fb' \in [Feedbacks -> FbRecord]
    <3>1. [fb[t] EXCEPT !.pc = "queueAsked", !.queueSeen = a] \in FbRecord
      BY <1>0 DEF FbRecord, FbStates
    <3>2. fb' = [fb EXCEPT ![t] =
                   [fb[t] EXCEPT !.pc = "queueAsked", !.queueSeen = a]]
      BY <2>1
    <3>3. fb \in [Feedbacks -> FbRecord]
      BY DEF TypeOK
    <3> QED
      BY <3>1, <3>2, <3>3
  <2> QED
    BY <1>2, <2>1, <2>2 DEF AskQueue, TypeOK
<1>3. CASE AskScore(t)
  <2>1. PICK pc \in {"create", "push"} :
          /\ fb' = [fb EXCEPT ![t].pc = pc]
          /\ misled' \in {misled, misled \cup {t}}
    BY <1>3 DEF AskScore
  <2>2. fb' \in [Feedbacks -> FbRecord]
    BY <2>1, FbMove DEF FbStates
  <2> QED
    BY <1>3, <2>1, <2>2 DEF AskScore, TypeOK
<1>4. CASE CreateKeys(t)
  <2>1. fb' \in [Feedbacks -> FbRecord]
    BY <1>4, FbMove DEF CreateKeys
  <2>2. CASE CreateMovingWindowAndScore(fb[t].gw, Ones(fb[t].size), fb[t].size)
             /\ misled' = misled \cup Waiting(fb[t].gw, {t})
    <3>1. Ones(fb[t].size) \in Seq(Outcomes)
      BY <1>0, OnesProperties
    <3>2. /\ queue' \in [Gateways -> Seq(Outcomes)]
          /\ score' \in [Gateways -> Nat \cup {NoKey}]
          /\ hist' \in [Gateways -> Seq(Outcomes)]
          /\ pushed' \in [Gateways -> Nat]
      BY <1>0, <2>2, <3>1, CreateTypes
    <3>3. misled' \subseteq Feedbacks
      BY <2>2, WaitingType DEF TypeOK
    <3> QED
      BY <1>4, <2>1, <3>2, <3>3 DEF CreateKeys, TypeOK
  <2>3. CASE UNCHANGED <<queue, score, hist, pushed, misled>>
    BY <1>4, <2>1, <2>3 DEF CreateKeys, TypeOK
  <2> QED
    BY <1>4, <2>2, <2>3 DEF CreateKeys
<1>5. CASE UpdateQueue(t)
  <2> DEFINE g == fb[t].gw
  <2>1. fb' \in [Feedbacks -> FbRecord]
    BY <1>5, FbMove DEF UpdateQueue
  <2>2. CASE UNCHANGED <<queue, hist, pushed, blamed, misled>>
    BY <1>5, <2>1, <2>2 DEF UpdateQueue, TypeOK
  <2>3. CASE /\ queue' = [queue EXCEPT ![g] = PushTrim(fb[t].out, @, fb[t].size)]
             /\ hist' = [hist EXCEPT ![g] = <<fb[t].out>> \o @]
             /\ pushed' = [pushed EXCEPT ![g] = @ + 1]
             /\ blamed' = IF fb[t].out = 0 THEN blamed \cup {g} ELSE blamed
             /\ misled' = misled \cup Waiting(g, {t})
    <3>1. queue[g] \in Seq(Outcomes) /\ hist[g] \in Seq(Outcomes)
      BY <1>0 DEF TypeOK
    <3>2. PushTrim(fb[t].out, queue[g], fb[t].size) \in Seq(Outcomes)
      BY <1>0, <3>1, PushTrimProperties
    <3>3. <<fb[t].out>> \o hist[g] \in Seq(Outcomes)
      BY <1>0, <3>1, PrependProperties
    <3>4. /\ queue' \in [Gateways -> Seq(Outcomes)]
          /\ hist' \in [Gateways -> Seq(Outcomes)]
      BY <2>3, <3>2, <3>3 DEF TypeOK
    <3>5. pushed' \in [Gateways -> Nat]
      <4>1. pushed' = [pushed EXCEPT ![g] = @ + 1] /\ g \in Gateways
        BY <1>0, <2>3
      <4>2. pushed \in [Gateways -> Nat]
        BY DEF TypeOK
      <4> QED
        BY <4>1, <4>2
    <3>6. blamed' \subseteq Gateways /\ misled' \subseteq Feedbacks
      BY <1>0, <2>3, WaitingType DEF TypeOK
    <3> QED
      BY <1>5, <2>1, <3>4, <3>5, <3>6 DEF UpdateQueue, TypeOK
  <2> QED
    BY <1>5, <2>2, <2>3 DEF UpdateQueue
<1> QED
  BY <1>1, <1>2, <1>3, <1>4, <1>5 DEF FeedbackStep

\* The deciders' records, and the bound on the zeros a reset installs.
DecTypeOK ==
  /\ dec \in [Deciders -> DecRecord]
  /\ \A d \in Deciders : dec[d].zeros <= dec[d].size

\* Replacing one decider's record by another well-formed one.
LEMMA DecMove ==
  ASSUME DecTypeOK, NEW d \in Deciders, NEW r \in DecRecord, r.zeros <= r.size,
         dec' = [dec EXCEPT ![d] = r]
  PROVE  DecTypeOK'
BY DEF DecTypeOK

LEMMA DeciderTypeOK ==
  ASSUME TypeOK, NEW d \in Deciders, DeciderStep(d)
  PROVE  TypeOK'
<1>0. dec[d] \in DecRecord /\ dec[d].size \in Sizes /\ dec[d].zeros \in Nat
      /\ dec[d].size \in Nat /\ dec[d].zeros <= dec[d].size
  BY DEF TypeOK, DecRecord
<1> DecTypeOK
  BY DEF TypeOK, DecTypeOK
<1>1. CASE StartDecision(d)
  <2> DEFINE r == Decision("reading", bucket)
  <2>1. r \in DecRecord /\ r.zeros <= r.size
    BY DecisionType DEF TypeOK, DecStates
  <2>2. dec' = [dec EXCEPT ![d] = r]
    BY <1>1 DEF StartDecision
  <2> HIDE DEF r
  <2>3. DecTypeOK'
    BY <2>1, <2>2, DecMove
  <2> QED
    BY <1>1, <2>3 DEF StartDecision, TypeOK, DecTypeOK
<1>2. ASSUME NEW g \in Gateways, ReadScore(d, g) PROVE TypeOK'
  <2> DEFINE e == <<g, dec[d].size>>
  <2>1. e \in Gateways \X Sizes /\ ScoresFromRedis(g, dec[d].size) \subseteq Score
    BY <1>0, ScoresFromRedisType
  <2>2. cache[e] \in Score
    BY <2>1 DEF TypeOK
  <2>3. PICK s \in Score : /\ dec' = [dec EXCEPT ![d].read[g] = s]
                           /\ cache' \in {cache, [cache EXCEPT ![e] = s]}
    BY <1>2, <2>1, <2>2 DEF ReadScore
  <2>4. DecTypeOK'
    BY <2>3 DEF DecTypeOK, DecRecord
  <2> HIDE DEF e
  <2>5. cache' \in [Gateways \X Sizes -> Score]
    BY <2>1, <2>3 DEF TypeOK
  <2> QED
    BY <1>2, <2>4, <2>5 DEF ReadScore, TypeOK, DecTypeOK
<1>3. ASSUME NEW g \in Gateways, ResetGateway(d, g) PROVE TypeOK'
  <2>1. DecTypeOK'
    <3>1. CASE dec' = [dec EXCEPT ![d] = IdleDec]
      BY <3>1, IdleTypes, DecMove
    <3>2. ASSUME NEW set \in SUBSET Gateways, dec' = [dec EXCEPT ![d].todo = set]
          PROVE  DecTypeOK'
      <4>1. dec' \in [Deciders -> DecRecord]
        BY <3>2 DEF DecTypeOK, DecRecord
      <4>2. \A e \in Deciders : dec'[e].zeros = dec[e].zeros
                               /\ dec'[e].size = dec[e].size
        BY <3>2 DEF DecTypeOK, DecRecord
      <4> QED
        BY <4>1, <4>2 DEF DecTypeOK
    <3>3. dec[d].todo \ {g} \in SUBSET Gateways
      BY DEF DecTypeOK, DecRecord
    <3> QED
      BY <1>3, <3>1, <3>2, <3>3 DEF ResetGateway
  <2>2. CASE UNCHANGED <<queue, score, hist, pushed, blamed, misled>>
    BY <1>3, <2>1, <2>2 DEF ResetGateway, TypeOK, DecTypeOK
  <2>3. CASE /\ CreateMovingWindowAndScore(g,
                  ResetList(dec[d].size, dec[d].zeros), dec[d].size - dec[d].zeros)
             /\ blamed' = blamed \cup {g}
             /\ misled' = misled \cup Waiting(g, {})
    <3>1. ResetList(dec[d].size, dec[d].zeros) \in Seq(Outcomes)
      BY <1>0, ResetListProperties
    <3>2. dec[d].size - dec[d].zeros \in Nat
      BY <1>0
    <3>3. /\ queue' \in [Gateways -> Seq(Outcomes)]
          /\ score' \in [Gateways -> Nat \cup {NoKey}]
          /\ hist' \in [Gateways -> Seq(Outcomes)]
          /\ pushed' \in [Gateways -> Nat]
      BY <2>3, <3>1, <3>2, CreateTypes
    <3>4. blamed' \subseteq Gateways /\ misled' \subseteq Feedbacks
      BY <2>3, WaitingType DEF TypeOK
    <3> QED
      BY <1>3, <2>1, <3>3, <3>4 DEF ResetGateway, TypeOK, DecTypeOK
  <2> QED
    BY <1>3, <2>2, <2>3 DEF ResetGateway
<1>4. ASSUME NEW enabled \in BOOLEAN, ChooseReset(d, enabled) PROVE TypeOK'
  <2>1. CASE dec' = [dec EXCEPT ![d] = IdleDec]
    <3>1. DecTypeOK'
      BY <2>1, IdleTypes, DecMove
    <3> QED
      BY <1>4, <3>1 DEF ChooseReset, TypeOK, DecTypeOK
  <2>2. CASE dec' = [dec EXCEPT ![d].pc = "panicked"]
    <3>1. DecTypeOK'
      BY <2>2 DEF DecTypeOK, DecRecord, DecStates
    <3> QED
      BY <1>4, <3>1 DEF ChooseReset, TypeOK, DecTypeOK
  <2>3. ASSUME NEW set \in SUBSET Gateways, NEW z \in ZeroCounts(dec[d].size),
               dec' = [dec EXCEPT ![d].pc = "resetting", ![d].todo = set,
                                  ![d].zeros = z]
        PROVE  TypeOK'
    <3>1. z \in Nat /\ z <= dec[d].size
      BY <1>0 DEF ZeroCounts
    <3>2. dec' \in [Deciders -> DecRecord]
      <4>1. dec[d] \in DecRecord
        BY DEF DecTypeOK
      <4>2. [dec[d] EXCEPT !.pc = "resetting", !.todo = set, !.zeros = z] \in DecRecord
        BY <3>1, <4>1 DEF DecRecord, DecStates
      <4>3. dec' = [dec EXCEPT ![d] =
                      [dec[d] EXCEPT !.pc = "resetting", !.todo = set, !.zeros = z]]
        BY <2>3
      <4> QED
        BY <4>2, <4>3 DEF DecTypeOK
    <3>3. \A e \in Deciders : dec'[e].size = dec[e].size
                             /\ dec'[e].zeros = IF e = d THEN z ELSE dec[e].zeros
      BY <2>3 DEF DecTypeOK, DecRecord
    <3>4. DecTypeOK'
      BY <3>1, <3>2, <3>3 DEF DecTypeOK
    <3> QED
      BY <1>4, <3>4 DEF ChooseReset, TypeOK, DecTypeOK
  <2> QED
    BY <1>4, <2>1, <2>2, <2>3 DEF ChooseReset
<1>5. CASE DropPanicked(d)
  <2>1. DecTypeOK'
    BY <1>5, IdleTypes, DecMove DEF DropPanicked
  <2> QED
    BY <1>5, <2>1 DEF DropPanicked, TypeOK, DecTypeOK
<1> QED
  BY <1>1, <1>2, <1>3, <1>4, <1>5 DEF DeciderStep

LEMMA EnvironmentTypeOK ==
  ASSUME TypeOK,
         \/ \E g \in Gateways, b \in Sizes : CacheExpire(g, b)
         \/ \E b \in Sizes : Resize(b)
         \/ StartFlush
         \/ \E g \in Gateways, kind \in {"queue", "score"} : FlushKey(g, kind)
  PROVE  TypeOK'
<1>1. ASSUME NEW g \in Gateways, NEW b \in Sizes, CacheExpire(g, b) PROVE TypeOK'
  <2>1. NoScore \in Score
    BY DEF NoScore, Score
  <2> QED
    BY <1>1, <2>1 DEF CacheExpire, TypeOK
<1>2. ASSUME NEW b \in Sizes, Resize(b) PROVE TypeOK'
  BY <1>2 DEF Resize, TypeOK
<1>3. CASE StartFlush
  <2>1. flush' \subseteq Gateways \X {"queue", "score"}
    BY <1>3 DEF StartFlush
  <2> QED
    BY <1>3, <2>1 DEF StartFlush, TypeOK
<1>4. ASSUME NEW g \in Gateways, NEW kind \in {"queue", "score"},
             FlushKey(g, kind)
      PROVE  TypeOK'
  <2>1. misled' \subseteq Feedbacks
    BY <1>4, WaitingType DEF FlushKey, TypeOK
  <2>2. queue' \in [Gateways -> Seq(Outcomes)]
        /\ hist' \in [Gateways -> Seq(Outcomes)]
        /\ pushed' \in [Gateways -> Nat]
    <3> DEFINE e == <<>>
    <3>1. e \in Seq(Outcomes)
      BY EmptySeq
    <3>2. \/ UNCHANGED <<queue, hist, pushed>>
          \/ /\ queue' = [queue EXCEPT ![g] = e]
             /\ hist' = [hist EXCEPT ![g] = e]
             /\ pushed' = [pushed EXCEPT ![g] = 0]
      BY <1>4 DEF FlushKey
    <3> HIDE DEF e
    <3>3. /\ queue \in [Gateways -> Seq(Outcomes)]
          /\ hist \in [Gateways -> Seq(Outcomes)]
          /\ pushed \in [Gateways -> Nat]
      BY DEF TypeOK
    <3>4. CASE UNCHANGED <<queue, hist, pushed>>
      BY <3>3, <3>4
    <3>5. CASE /\ queue' = [queue EXCEPT ![g] = e]
               /\ hist' = [hist EXCEPT ![g] = e]
               /\ pushed' = [pushed EXCEPT ![g] = 0]
      BY <3>1, <3>3, <3>5
    <3> QED
      BY <3>2, <3>4, <3>5
  <2>3. score' \in [Gateways -> Nat \cup {NoKey}]
    <3>1. score' \in {score, [score EXCEPT ![g] = NoKey]}
      BY <1>4 DEF FlushKey
    <3> QED
      BY <3>1 DEF TypeOK
  <2> QED
    BY <1>4, <2>1, <2>2, <2>3 DEF FlushKey, TypeOK
<1> QED
  BY <1>1, <1>2, <1>3, <1>4

LEMMA NextTypeOK == TypeOK /\ [Next]_vars => TypeOK'
<1> SUFFICES ASSUME TypeOK, [Next]_vars PROVE TypeOK'
  OBVIOUS
<1>1. CASE UNCHANGED vars
  BY <1>1 DEF vars, TypeOK
<1>2. CASE Next
  BY <1>2, FeedbackTypeOK, DeciderTypeOK, EnvironmentTypeOK DEF Next
<1> QED
  BY <1>1, <1>2

\* Whatever the tasks, deciders and the operator interleave, every key holds a
\* list of 0/1 outcomes or a natural count (flow.rs, gw_scoring.rs).
THEOREM TypeInvariant == Spec => []TypeOK
BY InitTypeOK, NextTypeOK, PTL DEF Spec

-----------------------------------------------------------------------------
(* The keys keep the window contract.                                      *)

ContractStep == [Contract!Next]_<<queue, hist, blamed>>

\* A trimmed push shows the newest part of the extended list, and of any
\* history the list is the newest part of.
LEMMA PushTrimIsPrefix ==
  ASSUME NEW v \in Outcomes, NEW q \in Seq(Outcomes), NEW h \in Seq(Outcomes),
         NEW b \in Nat \ {0}, Len(q) <= Len(h), \A i \in 1..Len(q) : q[i] = h[i]
  PROVE  \E n \in 1..(Len(q) + 1) :
           PushTrim(v, q, b) = SubSeq(<<v>> \o h, 1, n)
<1> DEFINE n == MinOf(b, Len(q) + 1)
           p == PushTrim(v, q, b)
           x == <<v>> \o h
<1>1. Len(q) \in Nat /\ Len(h) \in Nat
  BY LenProperties
<1>2. n \in 1..(Len(q) + 1)
  BY <1>1 DEF MinOf
<1>3. /\ p \in Seq(Outcomes) /\ Len(p) = n
      /\ \A i \in 1..n : p[i] = IF i = 1 THEN v ELSE q[i - 1]
  BY PushTrimProperties
<1>4. /\ x \in Seq(Outcomes) /\ Len(x) = Len(h) + 1
      /\ \A i \in 1..(Len(h) + 1) : x[i] = IF i = 1 THEN v ELSE h[i - 1]
  BY PrependProperties
<1> HIDE DEF n, p, x
<1>5. \A i \in 1..n : x[i] \in Outcomes
  <2> TAKE i \in 1..n
  <2>1. i \in 1..Len(x)
    BY <1>1, <1>2, <1>4
  <2> QED
    BY <1>4, <2>1, ElementOfSeq
<1>6. n \in Int /\ 1 <= n
  BY <1>1, <1>2
<1>7. /\ SubSeq(x, 1, n) \in Seq(Outcomes) /\ Len(SubSeq(x, 1, n)) = n
      /\ \A i \in 1..n : SubSeq(x, 1, n)[i] = x[i]
  BY <1>5, <1>6, SubSeqProperties
<1>8. \A i \in 1..n : p[i] = x[i]
  <2> SUFFICES ASSUME NEW i \in 1..n PROVE p[i] = x[i]
    OBVIOUS
  <2>1. i # 1 => i - 1 \in 1..Len(q)
    BY <1>1, <1>2
  <2>2. i \in 1..(Len(h) + 1)
    BY <1>1, <1>2
  <2> QED
    BY <1>3, <1>4, <2>1, <2>2
<1>9. p = SubSeq(x, 1, n)
  BY <1>3, <1>7, <1>8, SeqEqual
<1> QED
  BY <1>2, <1>9 DEF p, x

\* What a step does to the window of one gateway when it installs a list,
\* pushes an outcome or leaves the keys alone.
InstallsList(g, list, b) ==
  /\ queue' = [queue EXCEPT ![g] = list]
  /\ hist' = [hist EXCEPT ![g] = list]
  /\ list \in [1..b -> Outcomes]
  /\ \/ list = Ones(b) /\ UNCHANGED blamed
     \/ blamed' = blamed \cup {g}

PushesOutcome(g, v, b) ==
  /\ queue' = [queue EXCEPT ![g] = PushTrim(v, @, b)]
  /\ hist' = [hist EXCEPT ![g] = <<v>> \o @]
  /\ blamed' = IF v = 0 THEN blamed \cup {g} ELSE blamed

ForgetsList(g) ==
  /\ queue' = [queue EXCEPT ![g] = <<>>]
  /\ hist' = [hist EXCEPT ![g] = <<>>]
  /\ UNCHANGED blamed

\* Every step of every actor does one of four things to the windows.
WindowStep ==
  \/ UNCHANGED <<queue, hist, blamed>>
  \/ \E g \in Gateways, b \in Sizes :
       \/ \E list \in Seq(Outcomes) : InstallsList(g, list, b)
       \/ \E v \in Outcomes : PushesOutcome(g, v, b)
  \/ \E g \in Gateways : ForgetsList(g)

LEMMA StepsOnWindows ==
  ASSUME TypeOK, [Next]_vars
  PROVE  WindowStep
<1>1. ASSUME NEW t \in Feedbacks, FeedbackStep(t) PROVE WindowStep
  <2>0. fb[t].gw \in Gateways /\ fb[t].out \in Outcomes /\ fb[t].size \in Sizes
    BY DEF TypeOK, FbRecord
  <2>1. CASE StartFeedback(t) \/ AskQueue(t) \/ AskScore(t)
    BY <2>1 DEF StartFeedback, AskQueue, AskScore, WindowStep
  <2>2. CASE CreateKeys(t)
    <3> DEFINE list == Ones(fb[t].size)
    <3>1. list \in [1..fb[t].size -> Outcomes]
      BY DEF Ones, Outcomes
    <3>2. list \in Seq(Outcomes)
      BY <2>0, OnesProperties
    <3>3. \/ UNCHANGED <<queue, hist, blamed>>
          \/ InstallsList(fb[t].gw, list, fb[t].size)
      BY <2>2, <3>1 DEF CreateKeys, CreateMovingWindowAndScore, InstallsList
    <3> HIDE DEF list
    <3> QED
      BY <2>0, <3>2, <3>3 DEF WindowStep
  <2>3. CASE UpdateQueue(t)
    <3>1. \/ UNCHANGED <<queue, hist, blamed>>
          \/ PushesOutcome(fb[t].gw, fb[t].out, fb[t].size)
      BY <2>3 DEF UpdateQueue, PushesOutcome
    <3> QED
      BY <2>0, <3>1 DEF WindowStep
  <2> QED
    BY <1>1, <2>1, <2>2, <2>3 DEF FeedbackStep
<1>2. ASSUME NEW d \in Deciders, DeciderStep(d) PROVE WindowStep
  <2>0. dec[d].size \in Sizes /\ dec[d].zeros \in Nat
    BY DEF TypeOK, DecRecord
  <2>1. CASE StartDecision(d) \/ DropPanicked(d)
    BY <2>1 DEF StartDecision, DropPanicked, WindowStep
  <2>2. ASSUME NEW enabled \in BOOLEAN, ChooseReset(d, enabled) PROVE WindowStep
    BY <2>2 DEF ChooseReset, WindowStep
  <2>3. ASSUME NEW g \in Gateways, ReadScore(d, g) PROVE WindowStep
    BY <2>3 DEF ReadScore, WindowStep
  <2>4. ASSUME NEW g \in Gateways, ResetGateway(d, g) PROVE WindowStep
    <3> DEFINE list == ResetList(dec[d].size, dec[d].zeros)
    <3>1. list \in [1..dec[d].size -> Outcomes]
      BY DEF ResetList, Outcomes
    <3>2. list \in Seq(Outcomes)
      BY <2>0, ResetListProperties
    <3>3. \/ UNCHANGED <<queue, hist, blamed>>
          \/ InstallsList(g, list, dec[d].size)
      BY <2>4, <3>1 DEF ResetGateway, CreateMovingWindowAndScore, InstallsList
    <3> HIDE DEF list
    <3> QED
      BY <2>0, <3>2, <3>3 DEF WindowStep
  <2> QED
    BY <1>2, <2>1, <2>2, <2>3, <2>4 DEF DeciderStep
<1>3. ASSUME NEW g \in Gateways, NEW b \in Sizes, CacheExpire(g, b) PROVE WindowStep
  BY <1>3 DEF CacheExpire, WindowStep
<1>4. ASSUME NEW b \in Sizes, Resize(b) PROVE WindowStep
  BY <1>4 DEF Resize, WindowStep
<1>5. CASE StartFlush
  BY <1>5 DEF StartFlush, WindowStep
<1>6. ASSUME NEW g \in Gateways, NEW kind \in {"queue", "score"}, FlushKey(g, kind)
      PROVE  WindowStep
  BY <1>6 DEF FlushKey, ForgetsList, WindowStep
<1>7. CASE UNCHANGED vars
  BY <1>7 DEF vars, WindowStep
<1> QED
  BY <1>1, <1>2, <1>3, <1>4, <1>5, <1>6, <1>7 DEF Next

\* A list is the newest part of itself, and stays the newest part of a history
\* when both take the same outcome.
LEMMA NewestPartSame ==
  ASSUME NEW q \in Seq(Outcomes) PROVE NewestPart(q, q)
<1>1. Len(q) \in Nat
  BY LenProperties
<1> QED
  BY <1>1 DEF NewestPart, MinOf

LEMMA NewestPartPush ==
  ASSUME NEW v \in Outcomes, NEW q \in Seq(Outcomes), NEW h \in Seq(Outcomes),
         NEW b \in Sizes, NewestPart(q, h)
  PROVE  NewestPart(PushTrim(v, q, b), <<v>> \o h)
<1> DEFINE p == PushTrim(v, q, b)
           x == <<v>> \o h
<1>1. Len(q) \in Nat /\ Len(h) \in Nat /\ b \in Nat \ {0} /\ Len(q) <= Len(h)
  BY LenProperties DEF NewestPart
<1>2. /\ Len(p) = MinOf(b, Len(q) + 1)
      /\ \A i \in 1..Len(p) : p[i] = IF i = 1 THEN v ELSE q[i - 1]
  BY <1>1, PushTrimProperties
<1>3. /\ Len(x) = Len(h) + 1
      /\ \A i \in 1..(Len(h) + 1) : x[i] = IF i = 1 THEN v ELSE h[i - 1]
  BY PrependProperties
<1> HIDE DEF p, x
<1>4. Len(p) \in Nat /\ Len(p) <= Len(q) + 1 /\ Len(p) <= b
      /\ (Len(p) = b \/ Len(p) = Len(q) + 1)
  BY <1>1, <1>2 DEF MinOf
<1>5. \A i \in 1..Len(p) : p[i] = x[i]
  <2> SUFFICES ASSUME NEW i \in 1..Len(p) PROVE p[i] = x[i]
    OBVIOUS
  <2>1. i # 1 => i - 1 \in 1..Len(q)
    BY <1>1, <1>4
  <2>2. i \in 1..(Len(h) + 1)
    BY <1>1, <1>4
  <2> QED
    BY <1>2, <1>3, <2>1, <2>2 DEF NewestPart
<1>6. ASSUME NEW s \in Sizes, \A c \in Sizes : s <= c
      PROVE  Len(p) >= MinOf(s, Len(x))
  <2>1. s \in Nat /\ s <= b
    BY <1>6
  <2>2. Len(q) >= MinOf(s, Len(h))
    BY <1>6 DEF NewestPart
  <2> QED
    BY <1>1, <1>3, <1>4, <2>1, <2>2 DEF MinOf
<1>7. NewestPart(p, x)
  BY <1>1, <1>3, <1>4, <1>5, <1>6 DEF NewestPart
<1> QED
  BY <1>7 DEF p, x

LEMMA StepKeepsNewest ==
  ASSUME TypeOK, WindowIsNewest, [Next]_vars
  PROVE  WindowIsNewest'
<1>0. /\ queue \in [Gateways -> Seq(Outcomes)]
      /\ hist \in [Gateways -> Seq(Outcomes)]
      /\ \A g \in Gateways : NewestPart(queue[g], hist[g])
  BY DEF TypeOK, WindowIsNewest
<1>1. CASE UNCHANGED <<queue, hist, blamed>>
  BY <1>1 DEF WindowIsNewest, NewestPart
<1>2. ASSUME NEW g \in Gateways, NEW b \in Sizes, NEW list \in Seq(Outcomes),
             InstallsList(g, list, b)
      PROVE  WindowIsNewest'
  <2> SUFFICES ASSUME NEW h \in Gateways PROVE NewestPart(queue'[h], hist'[h])
    BY DEF WindowIsNewest, NewestPart
  <2>1. CASE h = g
    BY <1>0, <1>2, <2>1, NewestPartSame DEF InstallsList
  <2>2. CASE h # g
    BY <1>0, <1>2, <2>2 DEF InstallsList
  <2> QED
    BY <2>1, <2>2
<1>3. ASSUME NEW g \in Gateways, NEW b \in Sizes, NEW v \in Outcomes,
             PushesOutcome(g, v, b)
      PROVE  WindowIsNewest'
  <2> SUFFICES ASSUME NEW h \in Gateways PROVE NewestPart(queue'[h], hist'[h])
    BY DEF WindowIsNewest, NewestPart
  <2>1. CASE h = g
    BY <1>0, <1>3, <2>1, NewestPartPush DEF PushesOutcome
  <2>2. CASE h # g
    BY <1>0, <1>3, <2>2 DEF PushesOutcome
  <2> QED
    BY <2>1, <2>2
<1>4. ASSUME NEW g \in Gateways, ForgetsList(g) PROVE WindowIsNewest'
  <2> SUFFICES ASSUME NEW h \in Gateways PROVE NewestPart(queue'[h], hist'[h])
    BY DEF WindowIsNewest, NewestPart
  <2>1. <<>> \in Seq(Outcomes)
    BY EmptySeq
  <2>2. CASE h = g
    BY <1>0, <1>4, <2>1, <2>2, NewestPartSame DEF ForgetsList
  <2>3. CASE h # g
    BY <1>0, <1>4, <2>3 DEF ForgetsList
  <2> QED
    BY <2>2, <2>3
<1> QED
  BY StepsOnWindows, <1>1, <1>2, <1>3, <1>4 DEF WindowStep

\* However the tasks, resets, resizes and flushes interleave, the list a
\* decider reads is the newest part of what was written since the window was
\* created (updateQueue).
THEOREM WindowIsNewestHolds == Spec => []WindowIsNewest
<1>1. Init => WindowIsNewest
  BY EmptySeq, NewestPartSame DEF Init, WindowIsNewest
<1> QED
  BY <1>1, TypeInvariant, StepKeepsNewest, PTL DEF Spec

LEMMA StepKeepsExplained ==
  ASSUME TypeOK, ScoreExplained, [Next]_vars
  PROVE  ScoreExplained'
<1>0. /\ queue \in [Gateways -> Seq(Outcomes)]
      /\ \A g \in Gateways : Len(queue[g]) \in Nat
  BY LenProperties DEF TypeOK
<1>1. CASE UNCHANGED <<queue, hist, blamed>>
  BY <1>1 DEF ScoreExplained
<1>2. ASSUME NEW g \in Gateways, NEW b \in Sizes, NEW list \in Seq(Outcomes),
             InstallsList(g, list, b)
      PROVE  ScoreExplained'
  <2> SUFFICES ASSUME NEW h \in Gateways \ blamed', NEW i \in 1..Len(queue'[h])
               PROVE  queue'[h][i] = 1
    BY DEF ScoreExplained
  <2>1. h \notin blamed
    BY <1>2 DEF InstallsList
  <2>2. CASE h = g
    <3>1. list = Ones(b) /\ queue'[h] = list /\ b \in Nat
      BY <1>0, <1>2, <2>2 DEF InstallsList
    <3> QED
      BY <3>1, OnesProperties
  <2>3. CASE h # g
    BY <1>0, <1>2, <2>1, <2>3 DEF InstallsList, ScoreExplained
  <2> QED
    BY <2>2, <2>3
<1>3. ASSUME NEW g \in Gateways, NEW b \in Sizes, NEW v \in Outcomes,
             PushesOutcome(g, v, b)
      PROVE  ScoreExplained'
  <2> SUFFICES ASSUME NEW h \in Gateways \ blamed', NEW i \in 1..Len(queue'[h])
               PROVE  queue'[h][i] = 1
    BY DEF ScoreExplained
  <2>1. h \notin blamed
    BY <1>3 DEF PushesOutcome
  <2>2. CASE h = g
    <3>1. v = 1 /\ queue'[h] = PushTrim(v, queue[h], b) /\ b \in Nat \ {0}
      BY <1>0, <1>3, <2>2 DEF PushesOutcome, Outcomes
    <3>2. \A j \in 1..Len(queue[h]) : queue[h][j] = 1
      BY <2>1 DEF ScoreExplained
    <3>3. queue[h] \in Seq(Outcomes)
      BY <1>0
    <3>4. \A j \in 1..Len(PushTrim(1, queue[h], b)) : PushTrim(1, queue[h], b)[j] = 1
      BY <3>1, <3>2, <3>3, PushTrimSuccess
    <3> QED
      BY <3>1, <3>4
  <2>3. CASE h # g
    BY <1>0, <1>3, <2>1, <2>3 DEF PushesOutcome, ScoreExplained
  <2> QED
    BY <2>2, <2>3
<1>4. ASSUME NEW g \in Gateways, ForgetsList(g) PROVE ScoreExplained'
  <2> SUFFICES ASSUME NEW h \in Gateways \ blamed', NEW i \in 1..Len(queue'[h])
               PROVE  queue'[h][i] = 1
    BY DEF ScoreExplained
  <2>1. h \notin blamed
    BY <1>4 DEF ForgetsList
  <2>2. CASE h = g
    <3>1. queue'[h] = <<>> /\ Len(<<>>) = 0
      BY <1>0, <1>4, <2>2 DEF ForgetsList
    <3> QED
      BY <3>1
  <2>3. CASE h # g
    BY <1>0, <1>4, <2>1, <2>3 DEF ForgetsList, ScoreExplained
  <2> QED
    BY <2>2, <2>3
<1> QED
  BY StepsOnWindows, <1>1, <1>2, <1>3, <1>4 DEF WindowStep

\* A gateway without a recorded failure and without a reset is never scored
\* below 1 by its list (createKeysIfNotExist seeds only successes).
THEOREM ScoreExplainedHolds == Spec => []ScoreExplained
<1>1. Init => ScoreExplained
  BY EmptySeq DEF Init, ScoreExplained
<1> QED
  BY <1>1, TypeInvariant, StepKeepsExplained, PTL DEF Spec

LEMMA StepKeepsContract ==
  ASSUME TypeOK, WindowIsNewest, [Next]_vars
  PROVE  ContractStep
<1>0. /\ queue \in [Gateways -> Seq(Outcomes)]
      /\ hist \in [Gateways -> Seq(Outcomes)]
  BY DEF TypeOK
<1>1. CASE UNCHANGED <<queue, hist, blamed>>
  BY <1>1 DEF ContractStep
<1>2. ASSUME NEW g \in Gateways, NEW b \in Sizes, NEW list \in Seq(Outcomes),
             InstallsList(g, list, b)
      PROVE  ContractStep
  <2>1. list \in [1..b -> Outcomes] /\ Contract!Install(g, list)
    BY <1>2 DEF InstallsList, Contract!Install
  <2>2. CASE list = Ones(b) /\ UNCHANGED blamed
    <3>1. Contract!Open(g, b)
      BY <2>1, <2>2 DEF Contract!Open, Ones
    <3> QED
      BY <3>1 DEF ContractStep, Contract!Next
  <2>3. CASE blamed' = blamed \cup {g}
    <3>1. queue'[g] = list
      BY <1>0, <2>1 DEF Contract!Install
    <3>2. Contract!Penalise(g, b)
      BY <2>1, <2>3, <3>1 DEF Contract!Penalise, Contract!Outcomes, Outcomes
    <3> QED
      BY <3>2 DEF ContractStep, Contract!Next
  <2> QED
    BY <1>2, <2>2, <2>3 DEF InstallsList
<1>3. ASSUME NEW g \in Gateways, NEW b \in Sizes, NEW v \in Outcomes,
             PushesOutcome(g, v, b)
      PROVE  ContractStep
  <2>1. Len(queue[g]) <= Len(hist[g])
        /\ \A i \in 1..Len(queue[g]) : queue[g][i] = hist[g][i]
    BY DEF WindowIsNewest, NewestPart
  <2>2. b \in Nat \ {0} /\ queue[g] \in Seq(Outcomes) /\ hist[g] \in Seq(Outcomes)
    BY <1>0
  <2>3. PICK n \in 1..(Len(queue[g]) + 1) :
          PushTrim(v, queue[g], b) = SubSeq(<<v>> \o hist[g], 1, n)
    BY <2>1, <2>2, PushTrimIsPrefix
  <2>4. queue' = [queue EXCEPT ![g] = SubSeq(<<v>> \o hist[g], 1, n)]
    BY <1>3, <2>3 DEF PushesOutcome
  <2>5. Contract!Record(g, v)
    BY <1>3, <2>4 DEF PushesOutcome, Contract!Record
  <2> QED
    BY <2>5 DEF ContractStep, Contract!Next, Contract!Outcomes, Outcomes
<1>4. ASSUME NEW g \in Gateways, ForgetsList(g) PROVE ContractStep
  BY <1>4 DEF ForgetsList, ContractStep, Contract!Next, Contract!Forget,
              Contract!Install
<1> QED
  BY StepsOnWindows, <1>1, <1>2, <1>3, <1>4 DEF WindowStep

\* The Redis keys, whoever writes them and in whatever order, implement the
\* window contract.
THEOREM KeysKeepContract == Spec => KeepsContract
<1>1. Init => Contract!Init
  BY DEF Init, Contract!Init
<1>2. TypeOK /\ WindowIsNewest /\ [Next]_vars
        => [Contract!Next]_<<queue, hist, blamed>>
  BY StepKeepsContract DEF ContractStep
<1> QED
  BY <1>1, <1>2, TypeInvariant, WindowIsNewestHolds, PTL
     DEF Spec, KeepsContract, Contract!Spec

-----------------------------------------------------------------------------
(* Creating keys over a live window.                                       *)

\* What an undisturbed task knows about the keys of its gateway.
KnowsKeys(t) ==
  /\ fb[t].pc = "queueAsked" =>
       (fb[t].queueSeen <=> queue[fb[t].gw] # <<>>)
  /\ fb[t].pc = "create" =>
       queue[fb[t].gw] = <<>> \/ score[fb[t].gw] = NoKey

\* The inductive invariant behind WipeOnlyWhenMisled.
AnswersHold == \A t \in Feedbacks \ misled : KnowsKeys(t)

\* A step that leaves a waiting task unmisled leaves the keys it asked about.
LEMMA KnowledgeFrame ==
  ASSUME TypeOK, AnswersHold, NEW t \in Feedbacks \ misled, fb'[t] = fb[t],
         \/ fb[t].pc \notin {"queueAsked", "create"}
         \/ /\ queue'[fb[t].gw] = queue[fb[t].gw]
            /\ score'[fb[t].gw] = score[fb[t].gw]
  PROVE  KnowsKeys(t)'
BY DEF AnswersHold, KnowsKeys

LEMMA StepKeepsAnswers ==
  ASSUME TypeOK, AnswersHold, [Next]_vars
  PROVE  AnswersHold'
<1> SUFFICES ASSUME NEW u \in Feedbacks \ misled' PROVE KnowsKeys(u)'
  BY DEF AnswersHold
<1>0. u \in Feedbacks /\ fb \in [Feedbacks -> FbRecord] /\ fb[u].gw \in Gateways
      /\ queue \in [Gateways -> Seq(Outcomes)]
      /\ score \in [Gateways -> Nat \cup {NoKey}]
  BY DEF TypeOK, FbRecord
\* Writers mislead every task that waits on the gateway they write.
<1>1. ASSUME NEW g \in Gateways, NEW except,
             misled' = misled \cup Waiting(g, except), u \notin except,
             fb'[u] = fb[u],
             \A h \in Gateways \ {g} : queue'[h] = queue[h] /\ score'[h] = score[h]
      PROVE  KnowsKeys(u)'
  <2>1. u \notin misled
    BY <1>1
  <2>2. fb[u].gw # g \/ fb[u].pc \notin {"queueAsked", "create"}
    BY <1>1 DEF Waiting
  <2> QED
    BY <1>0, <1>1, <2>1, <2>2, KnowledgeFrame
<1>2. CASE UNCHANGED <<queue, score, fb, misled>>
  BY <1>2 DEF AnswersHold, KnowsKeys
<1>3. ASSUME NEW t \in Feedbacks, FeedbackStep(t) PROVE KnowsKeys(u)'
  <2>0. fb[t].gw \in Gateways
    BY DEF TypeOK, FbRecord
  <2>1. CASE StartFeedback(t)
    <3>1. u \notin misled /\ UNCHANGED <<queue, score>>
      BY <2>1 DEF StartFeedback
    <3>2. CASE u = t
      <4>1. fb'[u].pc \in {"done", "sized"}
        BY <1>0, <2>1, <3>2 DEF StartFeedback, FbRecord
      <4> QED
        BY <4>1 DEF KnowsKeys
    <3>3. CASE u # t
      <4>1. fb'[u] = fb[u]
        BY <1>0, <2>1, <3>3 DEF StartFeedback
      <4> QED
        BY <3>1, <4>1, KnowledgeFrame
    <3> QED
      BY <3>2, <3>3
  <2>2. CASE AskQueue(t)
    <3>1. u \notin misled /\ UNCHANGED <<queue, score>>
      BY <2>2 DEF AskQueue
    <3>2. CASE u = t
      <4>1. PICK a \in BOOLEAN :
              /\ fb' = [fb EXCEPT ![t].pc = "queueAsked", ![t].queueSeen = a]
              /\ misled' = IF a = (queue[fb[t].gw] # <<>>)
                             THEN misled ELSE misled \cup {t}
        BY <2>2 DEF AskQueue
      <4>2. a = (queue[fb[t].gw] # <<>>)
        BY <3>2, <4>1
      <4>3. fb'[t].pc = "queueAsked" /\ fb'[t].queueSeen = a /\ fb'[t].gw = fb[t].gw
        BY <1>0, <3>2, <4>1 DEF FbRecord
      <4> QED
        BY <3>1, <3>2, <4>2, <4>3 DEF KnowsKeys
    <3>3. CASE u # t
      <4>1. fb'[u] = fb[u]
        BY <1>0, <2>2, <3>3 DEF AskQueue
      <4> QED
        BY <3>1, <4>1, KnowledgeFrame
    <3> QED
      BY <3>2, <3>3
  <2>3. CASE AskScore(t)
    <3>1. u \notin misled /\ UNCHANGED <<queue, score>>
      BY <2>3 DEF AskScore
    <3>2. CASE u = t
      <4>1. PICK a \in BOOLEAN :
              /\ fb' = [fb EXCEPT ![t].pc = IF NeedsCreate(fb[t].queueSeen, a)
                                              THEN "create" ELSE "push"]
              /\ misled' = IF a = (score[fb[t].gw] # NoKey)
                             THEN misled ELSE misled \cup {t}
        BY <2>3 DEF AskScore
      <4>2. a = (score[fb[t].gw] # NoKey)
        BY <3>2, <4>1
      <4>3. fb[t].queueSeen <=> queue[fb[t].gw] # <<>>
        BY <2>3, <3>1, <3>2 DEF AskScore, AnswersHold, KnowsKeys
      <4>4. fb'[t].gw = fb[t].gw
            /\ fb'[t].pc = IF NeedsCreate(fb[t].queueSeen, a)
                             THEN "create" ELSE "push"
        BY <1>0, <3>2, <4>1 DEF FbRecord
      <4> QED
        BY <3>1, <3>2, <4>2, <4>3, <4>4 DEF KnowsKeys, NeedsCreate
    <3>3. CASE u # t
      <4>1. fb'[u] = fb[u]
        BY <1>0, <2>3, <3>3 DEF AskScore
      <4> QED
        BY <3>1, <4>1, KnowledgeFrame
    <3> QED
      BY <3>2, <3>3
  <2>4. CASE CreateKeys(t) \/ UpdateQueue(t)
    <3>1. CASE u = t
      <4>1. fb'[u].pc \in {"push", "done"}
        BY <1>0, <2>4, <3>1 DEF CreateKeys, UpdateQueue, FbRecord
      <4> QED
        BY <4>1 DEF KnowsKeys
    <3>2. CASE u # t
      <4>1. fb'[u] = fb[u]
        BY <1>0, <2>4, <3>2 DEF CreateKeys, UpdateQueue
      <4>2. CASE UNCHANGED <<queue, score, misled>>
        BY <4>1, <4>2, KnowledgeFrame
      <4>3. CASE misled' = misled \cup Waiting(fb[t].gw, {t})
                 /\ \A h \in Gateways \ {fb[t].gw} :
                      queue'[h] = queue[h] /\ score'[h] = score[h]
        BY <1>1, <2>0, <3>2, <4>1, <4>3
      <4>4. \/ UNCHANGED <<queue, score, misled>>
            \/ /\ misled' = misled \cup Waiting(fb[t].gw, {t})
               /\ \A h \in Gateways \ {fb[t].gw} :
                    queue'[h] = queue[h] /\ score'[h] = score[h]
        BY <1>0, <2>0, <2>4
           DEF CreateKeys, UpdateQueue, CreateMovingWindowAndScore
      <4> QED
        BY <4>2, <4>3, <4>4
    <3> QED
      BY <3>1, <3>2
  <2> QED
    BY <1>3, <2>1, <2>2, <2>3, <2>4 DEF FeedbackStep
<1>4. ASSUME NEW d \in Deciders, DeciderStep(d) PROVE KnowsKeys(u)'
  <2>1. CASE StartDecision(d) \/ DropPanicked(d)
    BY <1>2, <2>1 DEF StartDecision, DropPanicked
  <2>2. ASSUME NEW enabled \in BOOLEAN, ChooseReset(d, enabled) PROVE KnowsKeys(u)'
    BY <1>2, <2>2 DEF ChooseReset
  <2>3. ASSUME NEW g \in Gateways, ReadScore(d, g) PROVE KnowsKeys(u)'
    BY <1>2, <2>3 DEF ReadScore
  <2>4. ASSUME NEW g \in Gateways, ResetGateway(d, g) PROVE KnowsKeys(u)'
    <3>1. CASE UNCHANGED <<queue, score, misled>>
      BY <1>2, <2>4, <3>1 DEF ResetGateway
    <3>2. CASE /\ misled' = misled \cup Waiting(g, {})
               /\ CreateMovingWindowAndScore(g,
                    ResetList(dec[d].size, dec[d].zeros),
                    dec[d].size - dec[d].zeros)
      <4>1. \A h \in Gateways \ {g} : queue'[h] = queue[h] /\ score'[h] = score[h]
        BY <1>0, <3>2 DEF CreateMovingWindowAndScore
      <4>2. fb' = fb
        BY <2>4 DEF ResetGateway
      <4> QED
        BY <1>1, <3>2, <4>1, <4>2
    <3> QED
      BY <2>4, <3>1, <3>2 DEF ResetGateway
  <2> QED
    BY <1>4, <2>1, <2>2, <2>3, <2>4 DEF DeciderStep
<1>5. ASSUME NEW g \in Gateways, NEW b \in Sizes, CacheExpire(g, b)
      PROVE  KnowsKeys(u)'
  BY <1>2, <1>5 DEF CacheExpire
<1>6. ASSUME NEW b \in Sizes, Resize(b) PROVE KnowsKeys(u)'
  BY <1>2, <1>6 DEF Resize
<1>7. CASE StartFlush
  BY <1>2, <1>7 DEF StartFlush
<1>8. ASSUME NEW g \in Gateways, NEW kind \in {"queue", "score"}, FlushKey(g, kind)
      PROVE  KnowsKeys(u)'
  <2>1. \A h \in Gateways \ {g} : queue'[h] = queue[h] /\ score'[h] = score[h]
    BY <1>0, <1>8 DEF FlushKey
  <2>2. fb' = fb /\ misled' = misled \cup Waiting(g, {})
    BY <1>8 DEF FlushKey
  <2> QED
    BY <1>1, <2>1, <2>2
<1>9. CASE UNCHANGED vars
  BY <1>2, <1>9 DEF vars
<1> QED
  BY <1>3, <1>4, <1>5, <1>6, <1>7, <1>8, <1>9 DEF Next

\* A task that replaces a window with both keys in place was misled: another
\* actor wrote between its questions and its write, or an EXISTS failed
\* (createKeysIfNotExist).
THEOREM WipesAreMisled == Spec => WipeOnlyWhenMisled
<1>1. Init => AnswersHold
  BY DEF Init, AnswersHold, KnowsKeys, IdleFb
<1>2. AnswersHold /\ [Next]_vars =>
        [\A t \in Feedbacks :
           CreateKeys(t) /\ queue[fb[t].gw] # <<>> /\ score[fb[t].gw] # NoKey
             => t \in misled \/ UNCHANGED queue]_vars
  BY DEF AnswersHold, KnowsKeys, CreateKeys
<1> QED
  BY <1>1, <1>2, TypeInvariant, StepKeepsAnswers, PTL
     DEF Spec, WipeOnlyWhenMisled

-----------------------------------------------------------------------------
(* The list and the score key of a window no outcome has reached.          *)

\* What integer division leaves is less than the divisor.
LEMMA DivBounds ==
  ASSUME NEW x \in Nat, NEW m \in Nat \ {0}
  PROVE  /\ x \div m \in Nat
         /\ m * (x \div m) <= x
         /\ x < m * (x \div m) + m
OBVIOUS

\* Division rounded up (the spacing of a reset's zeros rounds up).
LEMMA CeilDivBounds ==
  ASSUME NEW x \in Nat, NEW m \in Nat \ {0}
  PROVE  /\ CeilDiv(x, m) \in Nat
         /\ x <= m * CeilDiv(x, m)
         /\ m * CeilDiv(x, m) <= x + m - 1
<1>1. x + m - 1 \in Nat
  OBVIOUS
<1> DEFINE q == (x + m - 1) \div m
<1>2. q \in Nat /\ m * q <= x + m - 1 /\ x + m - 1 < m * q + m
  BY <1>1, DivBounds
<1>3. m * q \in Nat
  BY <1>2
<1> HIDE DEF q
<1>4. x <= m * q
  BY <1>2, <1>3
<1> QED
  BY <1>2, <1>4 DEF CeilDiv, q

\* Multiplying by a positive number keeps the order.
LEMMA TimesMonotone ==
  ASSUME NEW m \in Nat \ {0}, NEW a \in Nat, NEW b \in Nat
  PROVE  /\ m * a < m * b => a < b
         /\ a <= b => m * a <= m * b
<1>1. ASSUME a <= b PROVE m * a <= m * b
  <2>1. m * b = m * a + m * (b - a) /\ m * (b - a) >= 0 /\ m * a \in Int
    BY <1>1
  <2> QED
    BY <2>1
<1>2. ASSUME b <= a PROVE m * b <= m * a
  <2>1. m * a = m * b + m * (a - b) /\ m * (a - b) >= 0 /\ m * b \in Int
    BY <1>2
  <2> QED
    BY <2>1
<1>3. m * a \in Int /\ m * b \in Int
  OBVIOUS
<1> QED
  BY <1>1, <1>2, <1>3

\* Zeros that are spaced by at least one slot never round to the same slot.
LEMMA SpacingIncreases ==
  ASSUME NEW m \in Nat \ {0}, NEW n \in Nat, m <= n,
         NEW j \in Nat, NEW k \in Nat, j < k
  PROVE  CeilDiv(j * n, m) < CeilDiv(k * n, m)
<1>1. j * n \in Nat /\ k * n \in Nat
  OBVIOUS
<1> DEFINE cj == CeilDiv(j * n, m)
           ck == CeilDiv(k * n, m)
<1>2. cj \in Nat /\ m * cj <= j * n + m - 1
  BY <1>1, CeilDivBounds
<1>3. ck \in Nat /\ k * n <= m * ck
  BY <1>1, CeilDivBounds
<1>4. j * n + n <= k * n
  <2>1. n * (j + 1) <= n * k
    <3>1. CASE n = 0
      BY <3>1
    <3>2. CASE n # 0
      <4>1. j + 1 \in Nat /\ j + 1 <= k
        OBVIOUS
      <4> QED
        BY <3>2, <4>1, TimesMonotone
    <3> QED
      BY <3>1, <3>2
  <2>2. n * (j + 1) = j * n + n /\ n * k = k * n
    OBVIOUS
  <2> QED
    BY <2>1, <2>2
<1> HIDE DEF cj, ck
<1>5. m * cj \in Nat /\ m * ck \in Nat
  BY <1>2, <1>3
<1>6. m * cj < m * ck
  BY <1>1, <1>2, <1>3, <1>4, <1>5
<1>7. cj < ck
  BY <1>2, <1>3, <1>6, TimesMonotone
<1> QED
  BY <1>7 DEF cj, ck

\* Every zero falls within the list.
LEMMA SpacingFits ==
  ASSUME NEW m \in Nat \ {0}, NEW n \in Nat, NEW k \in 0..m
  PROVE  CeilDiv(k * n, m) \in 0..n
<1> DEFINE c == CeilDiv(k * n, m)
<1>1. k * n \in Nat
  OBVIOUS
<1>2. c \in Nat /\ m * c <= k * n + m - 1
  BY <1>1, CeilDivBounds
<1> HIDE DEF c
<1>3. k * n <= m * n
  <2>1. m * n = k * n + (m - k) * n /\ (m - k) * n >= 0
    OBVIOUS
  <2> QED
    BY <1>1, <2>1
<1>4. m * c < m * (n + 1)
  <2>1. m * (n + 1) = m * n + m /\ m * n \in Nat
    OBVIOUS
  <2>2. m * c \in Nat
    BY <1>2
  <2> QED
    BY <1>1, <1>2, <1>3, <2>1, <2>2
<1>5. c < n + 1
  <2>1. n + 1 \in Nat
    OBVIOUS
  <2> QED
    BY <1>2, <1>4, <2>1, TimesMonotone
<1> QED
  BY <1>2, <1>5 DEF c

\* The zeros of a reset stand in as many places as there are zeros, the lost
\* one excepted: no two fall on one slot.
LEMMA ZerosCounted ==
  ASSUME NEW b \in Nat, NEW z \in 2..b, NEW last \in 0..(z - 1)
  PROVE  LET slots == {i \in 1..b :
                         \E k \in 0..last : i - 1 = CeilDiv(k * (b - 1), z - 1)}
         IN  IsFiniteSet(slots) /\ Cardinality(slots) = last + 1
<1> DEFINE slots == {i \in 1..b :
                       \E k \in 0..last : i - 1 = CeilDiv(k * (b - 1), z - 1)}
           f == [k \in 0..last |-> CeilDiv(k * (b - 1), z - 1) + 1]
<1>1. z - 1 \in Nat \ {0} /\ b - 1 \in Nat /\ z - 1 <= b - 1 /\ last \in Nat
      /\ last <= z - 1
  OBVIOUS
<1>2. \A k \in 0..last : CeilDiv(k * (b - 1), z - 1) \in 0..(b - 1)
  <2> TAKE k \in 0..last
  <2>1. k \in 0..(z - 1)
    BY <1>1
  <2> QED
    BY <1>1, <2>1, SpacingFits
<1>3. \A j, k \in 0..last : j # k => f[j] # f[k]
  <2>1. ASSUME NEW j \in 0..last, NEW k \in 0..last, j < k PROVE f[j] # f[k]
    <3>1. CeilDiv(j * (b - 1), z - 1) < CeilDiv(k * (b - 1), z - 1)
      <4> DEFINE m == z - 1
                 n == b - 1
      <4>1. m \in Nat \ {0} /\ n \in Nat /\ m <= n
        BY <1>1
      <4>2. j \in Nat /\ k \in Nat /\ j < k
        BY <2>1
      <4> HIDE DEF m, n
      <4>3. CeilDiv(j * n, m) < CeilDiv(k * n, m)
        BY <4>1, <4>2, SpacingIncreases
      <4> QED
        BY <4>3 DEF m, n
    <3>2. /\ CeilDiv(j * (b - 1), z - 1) \in 0..(b - 1)
          /\ CeilDiv(k * (b - 1), z - 1) \in 0..(b - 1)
      BY <1>2, Zenon
    <3> HIDE DEF slots
    <3>3. /\ f[j] = CeilDiv(j * (b - 1), z - 1) + 1
          /\ f[k] = CeilDiv(k * (b - 1), z - 1) + 1
      OBVIOUS
    <3> HIDE DEF f
    <3> QED
      BY <3>1, <3>2, <3>3
  <2> HIDE DEF f
  <2> QED
    BY <2>1
<1>4. \A k \in 0..last : f[k] \in slots
  <2> TAKE k \in 0..last
  <2> DEFINE c == CeilDiv(k * (b - 1), z - 1)
  <2>1. c \in 0..(b - 1) /\ f[k] = c + 1
    BY <1>2
  <2>2. \E l \in 0..last : c = CeilDiv(l * (b - 1), z - 1)
    OBVIOUS
  <2> HIDE DEF c, f
  <2>3. c + 1 \in 1..b /\ (c + 1) - 1 = c
    BY <2>1
  <2> QED
    BY <2>1, <2>2, <2>3
<1>5. \A i \in slots : \E k \in 0..last : f[k] = i
  <2> TAKE i \in slots
  <2>1. PICK k \in 0..last : i - 1 = CeilDiv(k * (b - 1), z - 1)
    OBVIOUS
  <2>2. i \in Int
    OBVIOUS
  <2>3. f[k] = (i - 1) + 1
    BY <2>1
  <2> HIDE DEF f, slots
  <2>4. f[k] = i
    BY <2>2, <2>3
  <2> QED
    BY <2>4
<1> HIDE DEF slots
<1>6. f \in [0..last -> slots]
  BY <1>4
<1> HIDE DEF f
<1>7. f \in Bijection(0..last, slots)
  BY <1>3, <1>5, <1>6, Zenon DEF Bijection, Injection, Surjection, IsInjective
<1>8. IsFiniteSet(0..last) /\ Cardinality(0..last) = last + 1
  BY <1>1, FS_Interval
<1>9. IsFiniteSet(slots) /\ Cardinality(slots) = last + 1
  BY <1>7, <1>8, FS_Bijection DEF ExistsBijection
<1> QED
  BY <1>9 DEF slots

\* What a reset leaves of the bucket are successes (reset_sr_v3_score).
LEMMA ResetSuccesses ==
  ASSUME NEW b \in Nat, NEW z \in 2..b
  PROVE  Successes(ResetList(b, z), b)
           = IF <<b, z>> \in LostZeros THEN b - z + 1 ELSE b - z
<1> DEFINE last == IF <<b, z>> \in LostZeros THEN z - 2 ELSE z - 1
           slots == {i \in 1..b :
                       \E k \in 0..last : i - 1 = CeilDiv(k * (b - 1), z - 1)}
           r == ResetList(b, z)
<1>1. last \in 0..(z - 1) /\ last \in Int
  OBVIOUS
<1>2. \A i \in 1..b : r[i] = IF i \in slots THEN 0 ELSE 1
  BY DEF ResetList
<1>3. IsFiniteSet(slots) /\ Cardinality(slots) = last + 1
  <2> HIDE DEF last
  <2> QED
    BY <1>1, ZerosCounted
<1>4. slots \subseteq 1..b
  OBVIOUS
<1> HIDE DEF slots, r
<1>5. {i \in 1..b : r[i] = 1} = (1..b) \ slots
  BY <1>2
<1>6. (1..b) \cap slots = slots
  BY <1>4
<1>7. IsFiniteSet(1..b) /\ Cardinality(1..b) = b
  BY FS_Interval
<1> HIDE DEF last
<1>8. Cardinality((1..b) \ slots) = b - (last + 1)
  <2>1. Cardinality((1..b) \ slots)
          = Cardinality(1..b) - Cardinality((1..b) \cap slots)
    BY <1>7, FS_Difference, Zenon
  <2> QED
    BY <1>3, <1>6, <1>7, <2>1
<1>9. Successes(r, b) = b - (last + 1)
  BY <1>5, <1>8 DEF Successes
<1> QED
  BY <1>9 DEF last, r

\* A fresh window is all successes.
LEMMA OnesSuccesses ==
  ASSUME NEW b \in Nat
  PROVE  Successes(Ones(b), b) = b
<1>1. {i \in 1..b : Ones(b)[i] = 1} = 1..b
  BY OnesProperties
<1>2. Cardinality(1..b) = b
  BY FS_Interval
<1> QED
  BY <1>1, <1>2 DEF Successes

\* A window no outcome has reached: what installed it fixes both keys, unless
\* the score key is gone.
FreshKeys(g) ==
  \E b \in Sizes : \E z \in {0} \cup 2..b :
    /\ queue[g] = IF z = 0 THEN Ones(b) ELSE ResetList(b, z)
    /\ score[g] \in {b - z, NoKey}

\* The inductive invariant behind ListMatchesScoreKey.
FreshWindows ==
  /\ \A g \in Gateways : pushed[g] = 0 /\ queue[g] # <<>> => FreshKeys(g)
  /\ \A d \in Deciders : dec[d].pc = "resetting" => dec[d].zeros \in 2..dec[d].size

\* What installed a fresh window fixes how its two keys relate.
LEMMA FreshKeysMatch ==
  ASSUME TypeOK, FreshWindows PROVE ListMatchesScoreKey
<1> SUFFICES ASSUME NEW g \in Gateways, pushed[g] = 0, queue[g] # <<>>,
                    score[g] # NoKey
             PROVE  LET successes == Successes(queue[g], Len(queue[g]))
                        zeros == Len(queue[g]) - score[g]
                    IN successes = IF <<Len(queue[g]), zeros>> \in LostZeros
                                     THEN score[g] + 1 ELSE score[g]
  BY DEF ListMatchesScoreKey
<1>1. PICK b \in Sizes : \E z \in {0} \cup 2..b :
        /\ queue[g] = IF z = 0 THEN Ones(b) ELSE ResetList(b, z)
        /\ score[g] = b - z
  BY DEF FreshWindows, FreshKeys
<1>2. PICK z \in {0} \cup 2..b :
        /\ queue[g] = IF z = 0 THEN Ones(b) ELSE ResetList(b, z)
        /\ score[g] = b - z
  BY <1>1
<1>3. b \in Nat
  OBVIOUS
<1>4. z \in Nat
  BY <1>3
<1>5. Len(queue[g]) = b
  BY <1>2, <1>3, <1>4, OnesProperties, ResetListProperties
<1>6. Len(queue[g]) - score[g] = z
  BY <1>2, <1>3, <1>4, <1>5
<1>7. CASE z = 0
  <2>1. Successes(queue[g], Len(queue[g])) = score[g]
    BY <1>2, <1>3, <1>5, <1>7, OnesSuccesses
  <2>2. <<b, z>> \notin LostZeros
    BY <1>7, LostZerosAssumption
  <2> QED
    BY <1>5, <1>6, <2>1, <2>2
<1>8. CASE z \in 2..b
  <2>1. Successes(queue[g], Len(queue[g]))
          = IF <<b, z>> \in LostZeros THEN b - z + 1 ELSE b - z
    BY <1>2, <1>3, <1>5, <1>8, ResetSuccesses
  <2> QED
    BY <1>2, <1>5, <1>6, <2>1
<1> QED
  BY <1>7, <1>8

LEMMA StepKeepsFresh ==
  ASSUME TypeOK, FreshWindows, [Next]_vars
  PROVE  FreshWindows'
<1>0. /\ queue \in [Gateways -> Seq(Outcomes)]
      /\ score \in [Gateways -> Nat \cup {NoKey}]
      /\ pushed \in [Gateways -> Nat]
      /\ dec \in [Deciders -> DecRecord]
  BY DEF TypeOK
<1>1. CASE UNCHANGED <<queue, score, pushed, dec>>
  BY <1>1 DEF FreshWindows, FreshKeys
\* A step that keeps the deciders has the windows left to show, and conversely.
<1>2. ASSUME UNCHANGED dec,
             \A g \in Gateways : pushed'[g] = 0 /\ queue'[g] # <<>> => FreshKeys(g)'
      PROVE  FreshWindows'
  BY <1>2 DEF FreshWindows
<1>3. ASSUME UNCHANGED <<queue, score, pushed>>, NEW d \in Deciders, NEW r,
             dec' = [dec EXCEPT ![d] = r],
             r.pc = "resetting" => r.zeros \in 2..r.size
      PROVE  FreshWindows'
  BY <1>0, <1>3 DEF FreshWindows, FreshKeys
<1>4. ASSUME NEW g \in Gateways, NEW b \in Sizes, NEW z \in {0} \cup 2..b,
             CreateMovingWindowAndScore(g,
               IF z = 0 THEN Ones(b) ELSE ResetList(b, z), b - z)
      PROVE  \A h \in Gateways : pushed'[h] = 0 /\ queue'[h] # <<>> => FreshKeys(h)'
  <2> TAKE h \in Gateways
  <2>1. CASE h = g
    BY <1>0, <1>4, <2>1 DEF CreateMovingWindowAndScore, FreshKeys
  <2>2. CASE h # g
    BY <1>0, <1>4, <2>2 DEF CreateMovingWindowAndScore, FreshWindows, FreshKeys
  <2> QED
    BY <2>1, <2>2
<1>5. ASSUME NEW t \in Feedbacks, FeedbackStep(t) PROVE FreshWindows'
  <2>0. fb[t].gw \in Gateways /\ fb[t].size \in Sizes
    BY DEF TypeOK, FbRecord
  <2>1. CASE StartFeedback(t) \/ AskQueue(t) \/ AskScore(t)
    BY <1>1, <2>1 DEF StartFeedback, AskQueue, AskScore
  <2>2. CASE CreateKeys(t)
    <3>1. CASE UNCHANGED <<queue, score, pushed>>
      BY <1>1, <2>2, <3>1 DEF CreateKeys
    <3>2. CASE CreateMovingWindowAndScore(fb[t].gw, Ones(fb[t].size), fb[t].size)
      <4>1. fb[t].size - 0 = fb[t].size
        <5>1. fb[t].size \in Nat
          BY <2>0
        <5> QED
          BY <5>1
      <4>2. UNCHANGED dec
        BY <2>2 DEF CreateKeys
      <4>3. \A h \in Gateways : pushed'[h] = 0 /\ queue'[h] # <<>> => FreshKeys(h)'
        <5> DEFINE z == 0
        <5>1. z \in {0} \cup 2..fb[t].size
          OBVIOUS
        <5>2. CreateMovingWindowAndScore(fb[t].gw,
                IF z = 0 THEN Ones(fb[t].size) ELSE ResetList(fb[t].size, z),
                fb[t].size - z)
          BY <3>2, <4>1
        <5> HIDE DEF z
        <5> QED
          BY <1>4, <2>0, <5>1, <5>2
      <4> QED
        BY <1>2, <4>2, <4>3
    <3> QED
      BY <2>2, <3>1, <3>2 DEF CreateKeys
  <2>3. CASE UpdateQueue(t)
    <3>1. CASE UNCHANGED <<queue, pushed>>
      BY <1>1, <2>3, <3>1 DEF UpdateQueue
    <3>2. CASE pushed' = [pushed EXCEPT ![fb[t].gw] = @ + 1]
               /\ queue' = [queue EXCEPT ![fb[t].gw] = PushTrim(fb[t].out, @, fb[t].size)]
      <4>1. UNCHANGED <<score, dec>>
        BY <2>3 DEF UpdateQueue
      <4>2. ASSUME NEW h \in Gateways, pushed'[h] = 0, queue'[h] # <<>>
            PROVE  FreshKeys(h)'
        <5>1. h # fb[t].gw
          BY <1>0, <2>0, <3>2, <4>2
        <5> QED
          BY <1>0, <2>0, <3>2, <4>1, <4>2, <5>1 DEF FreshWindows, FreshKeys
      <4> QED
        BY <1>2, <4>1, <4>2
    <3> QED
      BY <2>3, <3>1, <3>2 DEF UpdateQueue
  <2> QED
    BY <1>5, <2>1, <2>2, <2>3 DEF FeedbackStep
<1>6. ASSUME NEW d \in Deciders, DeciderStep(d) PROVE FreshWindows'
  <2>0. dec[d] \in DecRecord /\ dec[d].size \in Sizes /\ IdleDec.pc = "idle"
    BY <1>0 DEF DecRecord, IdleDec, Decision
  <2>1. CASE StartDecision(d)
    <3>1. Decision("reading", bucket).pc = "reading"
      BY DEF Decision
    <3> QED
      BY <1>3, <2>1, <3>1 DEF StartDecision
  <2>2. CASE DropPanicked(d)
    BY <1>3, <2>0, <2>2 DEF DropPanicked
  <2>3. ASSUME NEW g \in Gateways, ReadScore(d, g) PROVE FreshWindows'
    <3>1. PICK s : dec' = [dec EXCEPT ![d].read[g] = s]
      BY <2>3 DEF ReadScore
    <3> DEFINE r == [dec[d] EXCEPT !.read[g] = s]
    <3>2. dec' = [dec EXCEPT ![d] = r]
      BY <3>1
    <3>3. r.pc = "reading"
      BY <2>0, <2>3 DEF ReadScore, DecRecord
    <3> HIDE DEF r
    <3>4. UNCHANGED <<queue, score, pushed>>
      BY <2>3 DEF ReadScore
    <3> QED
      BY <1>3, <3>2, <3>3, <3>4
  <2>4. ASSUME NEW enabled \in BOOLEAN, ChooseReset(d, enabled) PROVE FreshWindows'
    <3>0. UNCHANGED <<queue, score, pushed>>
      BY <2>4 DEF ChooseReset
    <3>1. CASE dec' = [dec EXCEPT ![d] = IdleDec]
      BY <1>3, <2>0, <3>0, <3>1
    <3>2. CASE dec' = [dec EXCEPT ![d].pc = "panicked"]
      <4> DEFINE r == [dec[d] EXCEPT !.pc = "panicked"]
      <4>1. dec' = [dec EXCEPT ![d] = r] /\ r.pc = "panicked"
        BY <2>0, <3>2 DEF DecRecord
      <4> HIDE DEF r
      <4> QED
        BY <1>3, <3>0, <4>1
    <3>3. ASSUME NEW set, NEW z \in ZeroCounts(dec[d].size),
                 dec' = [dec EXCEPT ![d].pc = "resetting", ![d].todo = set,
                                    ![d].zeros = z]
          PROVE  FreshWindows'
      <4> DEFINE r == [dec[d] EXCEPT !.pc = "resetting", !.todo = set, !.zeros = z]
      <4>1. dec' = [dec EXCEPT ![d] = r]
        BY <3>3
      <4>2. r.zeros = z /\ r.size = dec[d].size
        BY <2>0 DEF DecRecord
      <4> HIDE DEF r
      <4>3. r.zeros \in 2..r.size
        BY <3>3, <4>2 DEF ZeroCounts
      <4> QED
        BY <1>3, <3>0, <4>1, <4>3
    <3> QED
      BY <2>4, <3>1, <3>2, <3>3 DEF ChooseReset
  <2>5. ASSUME NEW g \in Gateways, ResetGateway(d, g) PROVE FreshWindows'
    <3>0. dec[d].zeros \in 2..dec[d].size
      BY <2>5 DEF ResetGateway, FreshWindows
    <3>1. \A e \in Deciders : dec'[e].pc = "resetting"
            => dec[e].pc = "resetting" /\ dec'[e].zeros = dec[e].zeros
               /\ dec'[e].size = dec[e].size
      <4>1. CASE dec' = [dec EXCEPT ![d] = IdleDec]
        BY <1>0, <2>0, <4>1
      <4>2. CASE dec' = [dec EXCEPT ![d].todo = @ \ {g}]
        BY <1>0, <4>2 DEF DecRecord
      <4> QED
        BY <2>5, <4>1, <4>2 DEF ResetGateway
    <3>2. \A h \in Gateways : pushed'[h] = 0 /\ queue'[h] # <<>> => FreshKeys(h)'
      <4>1. CASE UNCHANGED <<queue, score, pushed>>
        BY <4>1 DEF FreshWindows, FreshKeys
      <4>2. CASE CreateMovingWindowAndScore(g,
                   ResetList(dec[d].size, dec[d].zeros),
                   dec[d].size - dec[d].zeros)
        <5> DEFINE z == dec[d].zeros
                   b == dec[d].size
        <5>1. b \in Sizes /\ z \in {0} \cup 2..b /\ z # 0
          BY <2>0, <3>0
        <5>2. CreateMovingWindowAndScore(g,
                IF z = 0 THEN Ones(b) ELSE ResetList(b, z), b - z)
          BY <4>2, <5>1
        <5> HIDE DEF b, z
        <5> QED
          BY <1>4, <5>1, <5>2
      <4> QED
        BY <2>5, <4>1, <4>2 DEF ResetGateway
    <3> QED
      BY <3>1, <3>2 DEF FreshWindows
  <2> QED
    BY <1>6, <2>1, <2>2, <2>3, <2>4, <2>5 DEF DeciderStep
<1>7. ASSUME NEW g \in Gateways, NEW b \in Sizes, CacheExpire(g, b)
      PROVE  FreshWindows'
  BY <1>1, <1>7 DEF CacheExpire
<1>8. ASSUME NEW b \in Sizes, Resize(b) PROVE FreshWindows'
  BY <1>1, <1>8 DEF Resize
<1>9. CASE StartFlush
  BY <1>1, <1>9 DEF StartFlush
<1>10. ASSUME NEW g \in Gateways, NEW kind \in {"queue", "score"}, FlushKey(g, kind)
       PROVE  FreshWindows'
  <2>1. UNCHANGED dec
    BY <1>10 DEF FlushKey
  <2>2. ASSUME NEW h \in Gateways, pushed'[h] = 0, queue'[h] # <<>>
        PROVE  FreshKeys(h)'
    <3>1. CASE kind = "queue"
      <4>1. h # g /\ UNCHANGED score
        BY <1>0, <1>10, <2>2, <3>1 DEF FlushKey
      <4> QED
        BY <1>0, <1>10, <2>2, <3>1, <4>1 DEF FlushKey, FreshWindows, FreshKeys
    <3>2. CASE kind = "score"
      <4>1. UNCHANGED <<queue, pushed>> /\ score'[h] \in {score[h], NoKey}
        BY <1>0, <1>10, <3>2 DEF FlushKey
      <4> QED
        BY <2>2, <4>1 DEF FreshWindows, FreshKeys
    <3> QED
      BY <3>1, <3>2
  <2> QED
    BY <1>2, <2>1, <2>2
<1>11. CASE UNCHANGED vars
  BY <1>1, <1>11 DEF vars
<1> QED
  BY <1>5, <1>6, <1>7, <1>8, <1>9, <1>10, <1>11 DEF Next

\* Until the first outcome arrives, the zeros a reset spread over the list are
\* those it subtracted from the score key, or one less where the spacing loses
\* the last; no later step but a creation or a push touches either key
\* (reset_sr_v3_score, create_moving_window_and_score).
THEOREM ListMatchesScoreKeyHolds == Spec => []ListMatchesScoreKey
<1>1. Init => FreshWindows
  BY DEF Init, FreshWindows, IdleDec, Decision
<1> QED
  BY <1>1, TypeInvariant, StepKeepsFresh, FreshKeysMatch, PTL DEF Spec

=============================================================================
