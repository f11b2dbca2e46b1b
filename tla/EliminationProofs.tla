-------------------------- MODULE EliminationProofs ---------------------------
(***************************************************************************)
(* Proofs about Elimination for any merchants, keys, tasks, deciders, score*)
(* levels and TTLs, with or without faults.                                *)
(***************************************************************************)
EXTENDS Elimination, FiniteSetTheorems, TLAPS

USE KeysAssumption, ScoresAssumption, TimesAssumption, FaultsAssumption

-----------------------------------------------------------------------------
(* Type correctness.                                                       *)

\* An actor at work is on a key of its merchant.
Placed ==
  /\ \A t \in Tasks : fb[t].pc # "idle" =>
       fb[t].who \in Merchants /\ fb[t].key \in {fb[t].who} \cup GlobalKeys
  /\ \A d \in Deciders : dec[d].pc # "idle" => dec[d].key \in Merchants

Typed == TypeOK /\ Placed

\* A score that was updated is a score.
LEMMA UpdatedTyped ==
  ASSUME NEW r \in Score, NEW m \in Merchants, NEW kind \in Kinds, NEW limit
  PROVE  Updated(r, m, kind, limit) \in Score
<1>1. Scored(r.score[m], kind) \in Levels /\ Counted(r.count[m], kind) \in Nat
  BY DEF Score, Scored, Counted, Penalised, Rewarded, Most, Least, Levels, Kinds
<1>2. Top \in Levels
  BY DEF Levels
<1> QED
  BY <1>1, <1>2 DEF Updated, Score

LEMMA NewScoreTyped ==
  ASSUME NEW m \in Merchants, NEW time \in Times PROVE NewScore(m, time) \in Score
BY DEF NewScore, Score, Levels

LEMMA ResetScoreTyped == ResetScore \in Levels /\ ResetScore >= Threshold
BY DEF ResetScore, Least, Levels

LEMMA AnswersTyped ==
  ASSUME TypeOK, NEW k \in Keys, NEW answer \in Answers(k)
  PROVE  answer \subseteq Score /\ (answer = key[k] \/ answer = {})
BY DEF TypeOK, Answers

LEMMA PutTyped ==
  ASSUME TypeOK, NEW k \in Keys, NEW put \in SUBSET Score, NEW by, Put(k, put, by)
  PROVE  /\ key' \in [Keys -> SUBSET Score] /\ stale' \subseteq Tasks \cup Deciders
         /\ key'[k] = put /\ \A i \in Keys \ {k} : key'[i] = key[i]
BY DEF TypeOK, Put, Writers

\* What a read record becomes: a new one when there is none to keep.
Based(base, t, answer) ==
  \/ /\ base = {NewScore(fb[t].who, now)}
     /\ \A r \in answer : TooOld(r, fb[t].took)
  \/ /\ base # {}
     /\ base = {r \in answer : ~TooOld(r, fb[t].took)}

\* What a task is about to write.
LEMMA ReadScorePuts ==
  ASSUME Typed, NEW t \in Tasks, ReadScore(t)
  PROVE  \E answer \in Answers(fb[t].key), limit \in Limits, base \in SUBSET Score :
           /\ Based(base, t, answer)
           /\ fb' = [fb EXCEPT ![t].pc = "write", ![t].put =
                       {Updated(r, fb[t].who, fb[t].kind, limit) : r \in base}]
           /\ Heard(fb[t].key, answer, t)
<1>1. fb[t].key \in Keys /\ fb[t].who \in Merchants
  BY DEF Typed, Placed, ReadScore, Keys
<1>2. PICK answer \in Answers(fb[t].key), limit \in Limits :
         LET kept == {r \in answer : ~TooOld(r, fb[t].took)}
             base == IF kept = {} THEN {NewScore(fb[t].who, now)} ELSE kept
         IN  /\ fb' = [fb EXCEPT ![t].pc = "write", ![t].put =
                         {Updated(r, fb[t].who, fb[t].kind, limit) : r \in base}]
             /\ Heard(fb[t].key, answer, t)
  BY DEF ReadScore
<1> DEFINE kept == {r \in answer : ~TooOld(r, fb[t].took)}
           base == IF kept = {} THEN {NewScore(fb[t].who, now)} ELSE kept
<1>3. base \in SUBSET Score
  BY <1>1, AnswersTyped, NewScoreTyped DEF Typed, TypeOK
<1>4. Based(base, t, answer)
  BY DEF Based
<1>5. /\ fb' = [fb EXCEPT ![t].pc = "write", ![t].put =
                    {Updated(r, fb[t].who, fb[t].kind, limit) : r \in base}]
      /\ Heard(fb[t].key, answer, t)
  BY <1>2
<1> HIDE DEF base, kept
<1> QED
  BY <1>3, <1>4, <1>5

LEMMA InitTyped == Init => Typed
BY DEF Init, Typed, TypeOK, Placed, IdleTask, IdleDec, Task, Decider, Kinds, Times

LEMMA TaskTyped ==
  ASSUME Typed, NEW t \in Tasks, Spawn(t) \/ ReadScore(t) \/ WriteScore(t)
  PROVE  Typed'
<1>0. fb \in [Tasks -> Task] /\ fb[t] \in Task /\ now \in Times
  BY DEF Typed, TypeOK
<1>1. CASE Spawn(t)
  <2>1. PICK m \in Merchants, kind \in Kinds, k \in Keys :
          k \in {m} \cup GlobalKeys /\
          fb' = [fb EXCEPT ![t] = [pc |-> "read", key |-> k, who |-> m, kind |-> kind,
                                   took |-> now, put |-> {}]]
    BY <1>1 DEF Spawn, Keys
  <2>2. fb' \in [Tasks -> Task]
    BY <1>0, <2>1 DEF Task, Keys
  <2> QED
    BY <1>0, <1>1, <2>1, <2>2 DEF Spawn, Typed, TypeOK, Placed
<1>2. CASE ReadScore(t)
  <2>1. PICK answer \in Answers(fb[t].key), limit \in Limits, base \in SUBSET Score :
          /\ Based(base, t, answer)
          /\ fb' = [fb EXCEPT ![t].pc = "write", ![t].put =
                      {Updated(r, fb[t].who, fb[t].kind, limit) : r \in base}]
          /\ Heard(fb[t].key, answer, t)
    BY <1>2, ReadScorePuts
  <2>2. fb[t].who \in Merchants /\ fb[t].kind \in Kinds
    BY <1>0, <1>2 DEF ReadScore, Typed, Placed, Task
  <2>3. {Updated(r, fb[t].who, fb[t].kind, limit) : r \in base} \in SUBSET Score
    BY <2>2, UpdatedTyped
  <2>4. fb' \in [Tasks -> Task]
    BY <1>0, <2>1, <2>3 DEF Task
  <2>5. stale' \subseteq Tasks \cup Deciders
    BY <2>1 DEF Heard, Typed, TypeOK
  <2>6. Placed'
    <3>1. \A s \in Tasks : fb'[s].who = fb[s].who /\ fb'[s].key = fb[s].key
      BY <1>0, <2>1
    <3>2. \A s \in Tasks \ {t} : fb'[s] = fb[s]
      BY <1>0, <2>1
    <3> QED
      BY <1>2, <3>1, <3>2 DEF ReadScore, Typed, Placed
  <2> QED
    BY <1>2, <2>4, <2>5, <2>6 DEF ReadScore, Typed, TypeOK
<1>3. CASE WriteScore(t)
  <2>1. fb' \in [Tasks -> Task]
    BY <1>0, <1>3 DEF WriteScore, Task
  <2>2. fb[t].key \in Keys /\ fb[t].put \in SUBSET Score
    BY <1>0, <1>3 DEF WriteScore, Typed, Placed, Task, Keys
  <2>3. key' \in [Keys -> SUBSET Score] /\ stale' \subseteq Tasks \cup Deciders
    BY <1>3, <2>2, PutTyped DEF WriteScore, Typed, TypeOK
  <2>4. Placed'
    BY <1>0, <1>3 DEF WriteScore, Typed, Placed
  <2> QED
    BY <1>3, <2>1, <2>3, <2>4 DEF WriteScore, Typed, TypeOK
<1> QED
  BY <1>1, <1>2, <1>3

\* What a decider is about to write, for one record it may have read.
Decided(r, m, took) ==
  IF ResetDue(r, m, took)
  THEN [r EXCEPT !.score[m] = ResetScore, !.reset = took] ELSE r

LEMMA DecidedTyped ==
  ASSUME NEW r \in Score, NEW m \in Merchants, NEW took \in Times
  PROVE  Decided(r, m, took) \in Score
BY ResetScoreTyped DEF Decided, Score

LEMMA ReadAgainPuts ==
  ASSUME Typed, NEW d \in Deciders, ReadAgain(d)
  PROVE  \E answer \in Answers(dec[d].key), put \in SUBSET Score :
           /\ \/ answer = {} /\ put = {NewScore(dec[d].key, dec[d].took)}
              \/ answer # {} /\ put = {Decided(r, dec[d].key, dec[d].took) : r \in answer}
           /\ dec' = [dec EXCEPT ![d].pc = "write", ![d].put = put]
           /\ Heard(dec[d].key, answer, d)
<1> DEFINE m == dec[d].key
           took == dec[d].took
           put(answer) == IF answer = {} THEN {NewScore(m, took)}
                          ELSE {Decided(r, m, took) : r \in answer}
<1>1. PICK answer \in Answers(m) :
         /\ dec' = [dec EXCEPT ![d].pc = "write", ![d].put = put(answer)]
         /\ Heard(m, answer, d)
  BY DEF ReadAgain, Decided
<1>2. m \in Merchants /\ took \in Times /\ m \in Keys
  BY DEF ReadAgain, Typed, Placed, TypeOK, Decider, Keys
<1>3. answer \subseteq Score
  BY <1>2, AnswersTyped DEF Typed
<1>4. put(answer) \in SUBSET Score
  BY <1>2, <1>3, NewScoreTyped, DecidedTyped
<1>5. \/ answer = {} /\ put(answer) = {NewScore(m, took)}
      \/ answer # {} /\ put(answer) = {Decided(r, m, took) : r \in answer}
  OBVIOUS
<1> HIDE DEF put
<1> QED
  BY <1>1, <1>4, <1>5

LEMMA DecTyped ==
  ASSUME Typed, NEW d \in Deciders,
         Evaluate(d) \/ Trigger(d) \/ ReadAgain(d) \/ WriteBack(d)
  PROVE  Typed'
<1>0. dec \in [Deciders -> Decider] /\ dec[d] \in Decider /\ now \in Times
  BY DEF Typed, TypeOK
<1>a. IdleDec \in Decider
  BY DEF IdleDec, Decider, Times
<1>1. CASE Evaluate(d)
  <2>1. PICK m \in Merchants, r \in Score :
          dec' = [dec EXCEPT ![d] = [IdleDec EXCEPT !.pc = "evaluate", !.key = m,
                                                    !.seen = r.reset]]
    BY <1>1 DEF Evaluate, Typed, TypeOK, Keys
  <2>2. r.reset \in Times
    BY DEF Score
  <2>3. [IdleDec EXCEPT !.pc = "evaluate", !.key = m, !.seen = r.reset] \in Decider
    BY <1>a, <2>2 DEF Decider
  <2>4. dec' \in [Deciders -> Decider]
    BY <1>0, <2>1, <2>3
  <2> QED
    BY <1>0, <1>1, <2>1, <2>4 DEF Evaluate, Typed, TypeOK, Placed, IdleDec
<1>2. CASE Trigger(d)
  <2>1. dec' \in [Deciders -> Decider]
    BY <1>0, <1>2, <1>a DEF Trigger, Decider
  <2> QED
    BY <1>0, <1>2, <2>1 DEF Trigger, Typed, TypeOK, Placed, IdleDec
<1>3. CASE ReadAgain(d)
  <2>1. PICK answer \in Answers(dec[d].key), put \in SUBSET Score :
          /\ dec' = [dec EXCEPT ![d].pc = "write", ![d].put = put]
          /\ Heard(dec[d].key, answer, d)
    BY <1>3, ReadAgainPuts
  <2>2. dec' \in [Deciders -> Decider]
    BY <1>0, <2>1 DEF Decider
  <2>3. stale' \subseteq Tasks \cup Deciders
    BY <2>1 DEF Heard, Typed, TypeOK
  <2>4. Placed'
    <3>1. dec'[d].key = dec[d].key /\ \A e \in Deciders \ {d} : dec'[e] = dec[e]
      BY <1>0, <2>1
    <3> QED
      BY <1>3, <3>1 DEF ReadAgain, Typed, Placed
  <2> QED
    BY <1>3, <2>2, <2>3, <2>4 DEF ReadAgain, Typed, TypeOK
<1>4. CASE WriteBack(d)
  <2>1. dec' \in [Deciders -> Decider]
    BY <1>0, <1>4 DEF WriteBack, Decider, IdleDec, Times
  <2>2. dec[d].key \in Keys /\ dec[d].put \in SUBSET Score
    BY <1>0, <1>4 DEF WriteBack, Typed, Placed, Decider, Keys
  <2>3. key' \in [Keys -> SUBSET Score] /\ stale' \subseteq Tasks \cup Deciders
    BY <1>4, <2>2, PutTyped DEF WriteBack, Typed, TypeOK
  <2>4. Placed'
    BY <1>0, <1>4 DEF WriteBack, Typed, Placed, IdleDec
  <2> QED
    BY <1>4, <2>1, <2>3, <2>4 DEF WriteBack, Typed, TypeOK
<1> QED
  BY <1>1, <1>2, <1>3, <1>4

LEMMA NextTyped == Typed /\ [Next]_vars => Typed'
<1> SUFFICES ASSUME Typed, [Next]_vars PROVE Typed'
  OBVIOUS
<1>1. CASE Tick
  BY <1>1 DEF Tick, Typed, TypeOK, Placed, Times
<1>2. ASSUME NEW k \in Keys, Drop(k) PROVE Typed'
  <2>1. key' \in [Keys -> SUBSET Score] /\ stale' \subseteq Tasks \cup Deciders
    BY <1>2, PutTyped DEF Drop, Typed
  <2> QED
    BY <1>2, <2>1 DEF Drop, Typed, TypeOK, Placed
<1>3. CASE UNCHANGED vars
  BY <1>3 DEF vars, Typed, TypeOK, Placed
<1> QED
  BY <1>1, <1>2, <1>3, TaskTyped, DecTyped DEF Next

\* Every variable keeps its type.
THEOREM TypeInvariant == Spec => []TypeOK
<1>1. Spec => []Typed
  BY InitTyped, NextTyped, PTL DEF Spec
<1>2. Typed => TypeOK
  BY DEF Typed
<1> QED
  BY <1>1, <1>2, PTL

-----------------------------------------------------------------------------
(* Where records come from: a step leaves every key and every pending record*)
(* as it is, or moves one, or makes one of those that were read.            *)

\* The records that are around: in Redis, or about to be written.
Around(r) ==
  \/ \E k \in Keys : r \in key[k]
  \/ \E t \in Tasks : r \in fb[t].put
  \/ \E d \in Deciders : r \in dec[d].put

\* The records a step may make.
Made(r) ==
  \/ \E m \in Merchants, time \in Times : r = NewScore(m, time)
  \/ \E s \in Score, m \in Merchants, kind \in Kinds, limit \in Limits :
       (Around(s) \/ \E n \in Merchants, time \in Times : s = NewScore(n, time))
         /\ r = Updated(s, m, kind, limit)
  \/ \E s \in Score, m \in Merchants, took \in Times :
       Around(s) /\ r = Decided(s, m, took)

LEMMA WritePlaces ==
  ASSUME Typed, NEW k \in Keys, NEW put \in SUBSET Score, NEW by,
         Put(k, put, by) \/ UNCHANGED key,
         NEW i \in Keys, NEW r \in key'[i]
  PROVE  r \in key[i] \/ r \in put
BY DEF Typed, TypeOK, Put

LEMMA RecordsMade ==
  ASSUME Typed, [Next]_vars, NEW r, Around(r)' PROVE Around(r) \/ Made(r)
<1>0. /\ key \in [Keys -> SUBSET Score] /\ fb \in [Tasks -> Task]
      /\ dec \in [Deciders -> Decider] /\ now \in Times
  BY DEF Typed, TypeOK
<1>1. CASE Tick \/ UNCHANGED vars
  BY <1>1 DEF Tick, vars, Around
<1>2. ASSUME NEW k \in Keys, Drop(k) PROVE Around(r)
  BY <1>0, <1>2 DEF Drop, Put, Around
<1>3. ASSUME NEW t \in Tasks, Spawn(t) PROVE Around(r)
  <2>1. \A s \in Tasks : fb'[s].put = fb[s].put \/ fb'[s].put = {}
    BY <1>0, <1>3 DEF Spawn
  <2> QED
    BY <1>3, <2>1 DEF Spawn, Around
<1>4. ASSUME NEW t \in Tasks, WriteScore(t) PROVE Around(r)
  <2>1. \A s \in Tasks : fb'[s].put = fb[s].put \/ fb'[s].put = {}
    BY <1>0, <1>4 DEF WriteScore
  <2>2. fb[t].key \in Keys /\ fb[t].put \in SUBSET Score
    BY <1>0, <1>4 DEF WriteScore, Typed, Placed, Task, Keys
  <2>3. \A k \in Keys : \A s \in key'[k] : s \in key[k] \/ s \in fb[t].put
    BY <1>4, <2>2, WritePlaces DEF WriteScore
  <2> QED
    BY <1>4, <2>1, <2>3 DEF WriteScore, Around
<1>5. ASSUME NEW d \in Deciders, Evaluate(d) \/ Trigger(d) PROVE Around(r)
  <2>1. \A e \in Deciders : dec'[e].put = dec[e].put \/ dec'[e].put = {}
    <3>1. CASE Evaluate(d)
      <4>1. PICK m, seen :
              dec' = [dec EXCEPT ![d] = [IdleDec EXCEPT !.pc = "evaluate", !.key = m,
                                                        !.seen = seen]]
        BY <3>1 DEF Evaluate
      <4> QED
        BY <1>0, <4>1 DEF IdleDec
    <3>2. CASE Trigger(d)
      BY <1>0, <3>2 DEF Trigger, IdleDec
    <3> QED
      BY <1>5, <3>1, <3>2
  <2> QED
    BY <1>5, <2>1 DEF Evaluate, Trigger, Around
<1>6. ASSUME NEW d \in Deciders, WriteBack(d) PROVE Around(r)
  <2>1. \A e \in Deciders : dec'[e].put = dec[e].put \/ dec'[e].put = {}
    BY <1>0, <1>6 DEF WriteBack, IdleDec
  <2>2. dec[d].key \in Keys /\ dec[d].put \in SUBSET Score
    BY <1>0, <1>6 DEF WriteBack, Typed, Placed, Decider, Keys
  <2>3. \A k \in Keys : \A s \in key'[k] : s \in key[k] \/ s \in dec[d].put
    BY <1>6, <2>2, WritePlaces DEF WriteBack
  <2> QED
    BY <1>6, <2>1, <2>3 DEF WriteBack, Around
<1>7. ASSUME NEW t \in Tasks, ReadScore(t) PROVE Around(r) \/ Made(r)
  <2>0. fb[t].who \in Merchants /\ fb[t].key \in Keys /\ fb[t].kind \in Kinds
    BY <1>0, <1>7 DEF ReadScore, Typed, Placed, Keys, Task
  <2>1. PICK answer \in Answers(fb[t].key), limit \in Limits, base \in SUBSET Score :
          /\ Based(base, t, answer)
          /\ fb' = [fb EXCEPT ![t].pc = "write", ![t].put =
                      {Updated(s, fb[t].who, fb[t].kind, limit) : s \in base}]
    BY <1>7, ReadScorePuts
  <2>2. \A s \in Tasks : \/ fb'[s].put = fb[s].put
                         \/ fb'[s].put =
                              {Updated(b, fb[t].who, fb[t].kind, limit) : b \in base}
    BY <1>0, <2>1
  <2>3. \A b \in base :
          Around(b) \/ \E n \in Merchants, time \in Times : b = NewScore(n, time)
    <3>1. answer = key[fb[t].key] \/ answer = {}
      BY <2>0, AnswersTyped DEF Typed
    <3> QED
      BY <1>0, <2>0, <2>1, <3>1 DEF Based, Around
  <2>4. CASE Around(r)
    BY <2>4
  <2>5. CASE ~Around(r)
    <3>1. PICK b \in base : r = Updated(b, fb[t].who, fb[t].kind, limit)
      <4>1. PICK s \in Tasks : r \in fb'[s].put
        BY <1>7, <2>5 DEF Around, ReadScore
      <4>2. r \notin fb[s].put
        BY <2>5 DEF Around
      <4>3. r \in {Updated(b, fb[t].who, fb[t].kind, limit) : b \in base}
        BY <2>2, <4>1, <4>2
      <4> QED
        BY <4>3
    <3> QED
      BY <2>0, <2>3, <3>1 DEF Made
  <2> QED
    BY <2>4, <2>5
<1>8. ASSUME NEW d \in Deciders, ReadAgain(d) PROVE Around(r) \/ Made(r)
  <2>0. dec[d].key \in Merchants /\ dec[d].took \in Times /\ dec[d].key \in Keys
    BY <1>0, <1>8 DEF ReadAgain, Typed, Placed, Decider, Keys
  <2>1. PICK answer \in Answers(dec[d].key), put \in SUBSET Score :
          /\ \/ answer = {} /\ put = {NewScore(dec[d].key, dec[d].took)}
             \/ answer # {} /\ put = {Decided(s, dec[d].key, dec[d].took) : s \in answer}
          /\ dec' = [dec EXCEPT ![d].pc = "write", ![d].put = put]
    BY <1>8, ReadAgainPuts
  <2>2. \A e \in Deciders : dec'[e].put = dec[e].put \/ dec'[e].put = put
    BY <1>0, <2>1
  <2>3. answer \subseteq Score /\ \A s \in answer : Around(s)
    BY <2>0, AnswersTyped DEF Typed, Around
  <2>4. \A s \in put : Made(s)
    BY <2>0, <2>1, <2>3 DEF Made
  <2> QED
    BY <1>8, <2>2, <2>4 DEF Around, ReadAgain
<1> QED
  BY <1>1, <1>2, <1>3, <1>4, <1>5, <1>6, <1>7, <1>8 DEF Next

-----------------------------------------------------------------------------
(* A low score is explained by the count beside it.                        *)

Explained(r) == r \in Score /\ \A m \in Merchants : r.score[m] >= Top - r.count[m]

LowInv == \A r \in Score : Around(r) => Explained(r)

LEMMA NewExplained ==
  ASSUME NEW m \in Merchants, NEW time \in Times PROVE Explained(NewScore(m, time))
BY NewScoreTyped DEF Explained, NewScore

LEMMA UpdatedExplained ==
  ASSUME NEW r \in Score, Explained(r), NEW m \in Merchants, NEW kind \in Kinds, NEW limit
  PROVE  Explained(Updated(r, m, kind, limit))
<1>1. Scored(r.score[m], kind) >= Top - Counted(r.count[m], kind)
  BY DEF Score, Explained, Scored, Counted, Penalised, Rewarded, Most, Least, Levels, Kinds
<1>2. Updated(r, m, kind, limit) \in Score
  BY UpdatedTyped
<1>3. \A n \in Merchants \ {m} :
        /\ Updated(r, m, kind, limit).score[n] = r.score[n]
        /\ Updated(r, m, kind, limit).count[n] = r.count[n]
  BY DEF Updated, Score
<1>4. \/ /\ Updated(r, m, kind, limit).score[m] = Scored(r.score[m], kind)
         /\ Updated(r, m, kind, limit).count[m] = Counted(r.count[m], kind)
      \/ Updated(r, m, kind, limit) = r
      \/ /\ Updated(r, m, kind, limit).score[m] = Top
         /\ Updated(r, m, kind, limit).count[m] = 1
  BY DEF Updated, Score
<1>5. Updated(r, m, kind, limit).score[m] >= Top - Updated(r, m, kind, limit).count[m]
  BY <1>1, <1>4 DEF Explained
<1> QED
  BY <1>2, <1>3, <1>5 DEF Explained

LEMMA DecidedExplained ==
  ASSUME NEW r \in Score, Explained(r), NEW m \in Merchants, NEW took \in Times
  PROVE  Explained(Decided(r, m, took))
<1>1. CASE ResetDue(r, m, took)
  <2>1. ResetScore >= r.score[m]
    BY <1>1, ResetScoreTyped DEF ResetDue, Score, Levels
  <2>2. Decided(r, m, took) \in Score
    BY DecidedTyped
  <2>3. Decided(r, m, took).count = r.count
        /\ Decided(r, m, took).score = [r.score EXCEPT ![m] = ResetScore]
    BY <1>1 DEF Decided, Score
  <2> QED
    BY <2>1, <2>2, <2>3, ResetScoreTyped DEF Explained, Score, Levels
<1>2. CASE ~ResetDue(r, m, took)
  BY <1>2 DEF Decided
<1> QED
  BY <1>1, <1>2

\* A gateway's score is never lower than the failures counted beside it explain,
\* whichever updates overlapped or were lost (updateKeyScoreForKeysFromConsumer,
\* reset_gateway_score).
THEOREM LowScoreIsCountedHolds == Spec => []LowScoreIsCounted
<1>1. Init => LowInv
  BY DEF Init, LowInv, Around, IdleTask, IdleDec
<1>2. Typed /\ LowInv /\ [Next]_vars => LowInv'
  <2> SUFFICES ASSUME Typed, LowInv, [Next]_vars, NEW r \in Score, Around(r)'
               PROVE  Explained(r)
    BY DEF LowInv, Explained
  <2>1. CASE Around(r)
    BY <2>1 DEF LowInv
  <2>2. CASE Made(r)
    <3>1. ASSUME NEW s \in Score, NEW m \in Merchants, NEW kind \in Kinds, NEW limit,
                 Around(s) \/ \E n \in Merchants, time \in Times : s = NewScore(n, time),
                 r = Updated(s, m, kind, limit)
          PROVE  Explained(r)
      <4>1. Explained(s)
        BY <3>1, NewExplained DEF LowInv
      <4> QED
        BY <3>1, <4>1, UpdatedExplained
    <3>2. ASSUME NEW s \in Score, NEW m \in Merchants, NEW took \in Times,
                 Around(s), r = Decided(s, m, took)
          PROVE  Explained(r)
      BY <3>2, DecidedExplained DEF LowInv
    <3> QED
      BY <2>2, <3>1, <3>2, NewExplained DEF Made
  <2> QED
    BY <2>1, <2>2, RecordsMade
<1>3. Typed /\ LowInv => LowScoreIsCounted
  BY DEF Typed, TypeOK, LowInv, LowScoreIsCounted, Around, Explained
<1> QED
  BY <1>1, <1>2, <1>3, InitTyped, NextTyped, PTL DEF Spec

-----------------------------------------------------------------------------
(* What a writer whose answer still holds makes of the record.             *)

Single(S) == \A r, s \in S : r = s

\* A task's record succeeds the one in Redis, or that one was too old for it.
FreshTask(t) ==
  /\ fb[t].took <= now
  /\ fb[t].pc = "write" /\ t \notin stale =>
       \A r \in key[fb[t].key], s \in fb[t].put :
         s.stamp = r.stamp \/ TooOld(r, fb[t].took)

\* A decider's is the one in Redis, or a reset that was due.
FreshDecider(d) ==
  dec[d].pc = "write" /\ d \notin stale =>
    \A r \in key[dec[d].key], s \in dec[d].put :
      /\ s.stamp = r.stamp
      /\ s.score[dec[d].key] > r.score[dec[d].key] => s.reset - r.reset > SoftTtl

FreshInv ==
  /\ \A k \in Keys : Single(key[k])
  /\ \A t \in Tasks : Single(fb[t].put) /\ FreshTask(t)
  /\ \A d \in Deciders : Single(dec[d].put) /\ FreshDecider(d)

\* Actors that do not move keep true answers, or are stale from now on.
LEMMA OthersFresh ==
  ASSUME Typed, FreshInv, now' = now,
         NEW k \in Keys, NEW put \in SUBSET Score, NEW by, Put(k, put, by)
  PROVE  /\ \A t \in Tasks \ by : fb'[t] = fb[t] => FreshTask(t)'
         /\ \A d \in Deciders \ by : dec'[d] = dec[d] => FreshDecider(d)'
<1>1. \A i \in Keys \ {k} : key'[i] = key[i]
  BY PutTyped DEF Typed
<1>2. ASSUME NEW t \in Tasks \ by, fb'[t] = fb[t] PROVE FreshTask(t)'
  <2>1. CASE fb[t].pc = "write" /\ t \notin stale'
    <3>1. fb[t].key \in Keys /\ fb[t].key # k /\ t \notin stale
      BY <2>1 DEF Put, Writers, Typed, Placed, Keys
    <3> QED
      BY <1>1, <1>2, <2>1, <3>1 DEF FreshInv, FreshTask
  <2>2. CASE ~(fb[t].pc = "write" /\ t \notin stale')
    BY <1>2, <2>2 DEF FreshInv, FreshTask
  <2> QED
    BY <2>1, <2>2
<1>3. ASSUME NEW d \in Deciders \ by, dec'[d] = dec[d] PROVE FreshDecider(d)'
  <2>1. CASE dec[d].pc = "write" /\ d \notin stale'
    <3>1. dec[d].key \in Keys /\ dec[d].key # k /\ d \notin stale
      BY <2>1 DEF Put, Writers, Typed, Placed, Keys
    <3> QED
      BY <1>1, <1>3, <2>1, <3>1 DEF FreshInv, FreshDecider
  <2>2. CASE ~(dec[d].pc = "write" /\ d \notin stale')
    BY <1>3, <2>2 DEF FreshDecider
  <2> QED
    BY <2>1, <2>2
<1> QED
  BY <1>2, <1>3

\* While Redis does not change, an actor's reading affects itself alone.
LEMMA StillFresh ==
  ASSUME FreshInv, UNCHANGED <<key, now>>, NEW w, stale' \ {w} = stale \ {w}
  PROVE  /\ \A t \in Tasks \ {w} : fb'[t] = fb[t] => FreshTask(t)'
         /\ \A d \in Deciders \ {w} : dec'[d] = dec[d] => FreshDecider(d)'
<1>1. \A v : v # w => (v \in stale' <=> v \in stale)
  OBVIOUS
<1>2. ASSUME NEW t \in Tasks \ {w}, fb'[t] = fb[t] PROVE FreshTask(t)'
  BY <1>1, <1>2 DEF FreshInv, FreshTask, TooOld
<1>3. ASSUME NEW d \in Deciders \ {w}, dec'[d] = dec[d] PROVE FreshDecider(d)'
  BY <1>1, <1>3 DEF FreshInv, FreshDecider
<1> QED
  BY <1>2, <1>3

LEMMA HeardOthers ==
  ASSUME NEW k, NEW answer, NEW w, Heard(k, answer, w)
  PROVE  /\ stale' \ {w} = stale \ {w}
         /\ w \notin stale' => answer = key[k]
BY DEF Heard

LEMMA UpdatedStamp ==
  ASSUME NEW r \in Score, NEW m, NEW kind, NEW limit
  PROVE  Updated(r, m, kind, limit).stamp = r.stamp
BY DEF Updated, Score

LEMMA TaskFresh ==
  ASSUME Typed, Typed', FreshInv, NEW t \in Tasks,
         Spawn(t) \/ ReadScore(t) \/ WriteScore(t)
  PROVE  FreshInv'
<1>0. /\ key \in [Keys -> SUBSET Score] /\ fb \in [Tasks -> Task] /\ fb[t] \in Task
      /\ now \in Times /\ UNCHANGED <<now, dec>>
      /\ \A s \in Tasks \ {t} : fb'[s] = fb[s]
  BY DEF Typed, TypeOK, Spawn, ReadScore, WriteScore
<1>a. t \notin Deciders
  OBVIOUS
<1>b. \A d \in Deciders : Single(dec'[d].put)
  BY <1>0 DEF FreshInv
<1>1. CASE Spawn(t)
  <2>1. fb'[t].pc = "read" /\ fb'[t].put = {} /\ fb'[t].took = now
    BY <1>0, <1>1 DEF Spawn
  <2>2. FreshTask(t)' /\ Single(fb'[t].put)
    BY <1>0, <2>1 DEF FreshTask, Single, Times
  <2>3. UNCHANGED <<key, now>> /\ stale' = stale
    BY <1>1 DEF Spawn
  <2>4. /\ \A s \in Tasks \ {t} : FreshTask(s)'
        /\ \A d \in Deciders : FreshDecider(d)'
    BY <1>0, <1>a, <2>3, StillFresh
  <2> QED
    BY <1>0, <1>b, <2>2, <2>3, <2>4 DEF FreshInv
<1>2. CASE ReadScore(t)
  <2>0. fb[t].who \in Merchants /\ fb[t].key \in Keys
    BY <1>2 DEF ReadScore, Typed, Placed, Keys
  <2>1. PICK answer \in Answers(fb[t].key), limit \in Limits, base \in SUBSET Score :
          /\ Based(base, t, answer)
          /\ fb' = [fb EXCEPT ![t].pc = "write", ![t].put =
                      {Updated(r, fb[t].who, fb[t].kind, limit) : r \in base}]
          /\ Heard(fb[t].key, answer, t)
    BY <1>2, ReadScorePuts
  <2> DEFINE put == {Updated(r, fb[t].who, fb[t].kind, limit) : r \in base}
  <2>2. fb'[t].put = put /\ fb'[t].took = fb[t].took /\ fb'[t].key = fb[t].key
    BY <1>0, <2>1
  <2>3. UNCHANGED <<key, now>>
    BY <1>2 DEF ReadScore
  <2>4. answer \subseteq Score /\ Single(answer)
    BY <2>0, AnswersTyped DEF FreshInv, Typed, Single
  <2>5. Single(base)
    BY <2>1, <2>4 DEF Based, Single
  <2>6. Single(put)
    BY <2>5 DEF Single
  <2>7. ASSUME t \notin stale', NEW r \in key[fb[t].key], NEW s \in put
        PROVE  s.stamp = r.stamp \/ TooOld(r, fb[t].took)
    <3>1. answer = key[fb[t].key]
      BY <2>1, <2>7, HeardOthers
    <3>2. CASE TooOld(r, fb[t].took)
      BY <3>2
    <3>3. CASE ~TooOld(r, fb[t].took)
      <4>1. base \subseteq answer
        BY <2>1, <2>7, <3>1, <3>3 DEF Based
      <4>2. PICK b \in base : s = Updated(b, fb[t].who, fb[t].kind, limit)
        BY <2>7
      <4>3. b = r /\ b \in Score
        BY <2>4, <2>7, <3>1, <4>1, <4>2 DEF Single
      <4> QED
        BY <4>2, <4>3, UpdatedStamp
    <3> QED
      BY <3>2, <3>3
  <2>8. FreshTask(t)'
    <3>1. fb[t].took <= now
      BY DEF FreshInv, FreshTask
    <3> HIDE DEF put
    <3>2. \A r \in key'[fb'[t].key], s \in fb'[t].put :
            t \notin stale' => s.stamp = r.stamp \/ TooOld(r, fb'[t].took)
      BY <2>2, <2>3, <2>7
    <3> QED
      BY <2>2, <2>3, <3>1, <3>2 DEF FreshTask, TooOld
  <2>9. /\ \A s \in Tasks \ {t} : FreshTask(s)'
        /\ \A d \in Deciders : FreshDecider(d)'
    BY <1>0, <1>a, <2>1, <2>3, HeardOthers, StillFresh
  <2> HIDE DEF put
  <2> QED
    BY <1>0, <1>b, <2>2, <2>3, <2>6, <2>8, <2>9 DEF FreshInv
<1>3. CASE WriteScore(t)
  <2>0. fb[t].key \in Keys /\ fb[t].put \in SUBSET Score
    BY <1>0, <1>3 DEF WriteScore, Typed, Placed, Task, Keys
  <2>1. fb'[t].pc = "done" /\ fb'[t].put = {} /\ fb'[t].took = fb[t].took
    BY <1>0, <1>3 DEF WriteScore
  <2>2. FreshTask(t)' /\ Single(fb'[t].put)
    BY <1>0, <2>1 DEF FreshInv, FreshTask, Single
  <2>3. /\ \A s \in Tasks \ {t} : FreshTask(s)'
        /\ \A d \in Deciders : FreshDecider(d)'
    <3>1. CASE Put(fb[t].key, fb[t].put, {t})
      <4>1. /\ \A v \in Tasks \ {t} : fb'[v] = fb[v] => FreshTask(v)'
            /\ \A v \in Deciders \ {t} : dec'[v] = dec[v] => FreshDecider(v)'
        BY <1>0, <2>0, <3>1, OthersFresh
      <4> QED
        BY <1>0, <1>a, <4>1
    <3>2. CASE UNCHANGED <<key, stale>>
      BY <1>0, <1>a, <3>2, StillFresh
    <3> QED
      BY <1>3, <3>1, <3>2 DEF WriteScore
  <2>4. \A k \in Keys : Single(key'[k])
    <3>1. \A k \in Keys : key'[k] = key[k] \/ key'[k] = fb[t].put
      BY <1>0, <1>3, <2>0 DEF WriteScore, Put
    <3> QED
      BY <3>1 DEF FreshInv
  <2> QED
    BY <1>0, <1>b, <2>2, <2>3, <2>4 DEF FreshInv
<1> QED
  BY <1>1, <1>2, <1>3

LEMMA DeciderFresh ==
  ASSUME Typed, FreshInv, NEW d \in Deciders,
         Evaluate(d) \/ Trigger(d) \/ ReadAgain(d) \/ WriteBack(d)
  PROVE  FreshInv'
<1>0. /\ key \in [Keys -> SUBSET Score] /\ dec \in [Deciders -> Decider]
      /\ dec[d] \in Decider /\ UNCHANGED <<now, fb>>
      /\ \A e \in Deciders \ {d} : dec'[e] = dec[e]
  BY DEF Typed, TypeOK, Evaluate, Trigger, ReadAgain, WriteBack
<1>a. d \notin Tasks
  OBVIOUS
<1>b. \A t \in Tasks : Single(fb'[t].put)
  BY <1>0 DEF FreshInv
<1>1. CASE Evaluate(d) \/ Trigger(d)
  <2>1. UNCHANGED <<key, now, stale>>
    BY <1>1 DEF Evaluate, Trigger
  <2>2. dec'[d].pc # "write" /\ (dec'[d].put = {} \/ dec'[d].put = dec[d].put)
    <3>1. CASE Evaluate(d)
      <4>1. PICK m, seen :
              dec' = [dec EXCEPT ![d] = [IdleDec EXCEPT !.pc = "evaluate", !.key = m,
                                                        !.seen = seen]]
        BY <3>1 DEF Evaluate
      <4> QED
        BY <1>0, <4>1 DEF IdleDec
    <3>2. CASE Trigger(d)
      BY <1>0, <3>2 DEF Trigger, IdleDec
    <3> QED
      BY <1>1, <3>1, <3>2
  <2>3. FreshDecider(d)' /\ Single(dec'[d].put)
    BY <2>2 DEF FreshInv, FreshDecider, Single
  <2>4. /\ \A t \in Tasks : FreshTask(t)'
        /\ \A e \in Deciders \ {d} : FreshDecider(e)'
    BY <1>0, <1>a, <2>1, StillFresh
  <2> QED
    BY <1>0, <1>b, <2>1, <2>3, <2>4 DEF FreshInv
<1>2. CASE ReadAgain(d)
  <2> DEFINE m == dec[d].key
             took == dec[d].took
  <2>0. m \in Merchants /\ m \in Keys /\ took \in Times
    BY <1>0, <1>2 DEF ReadAgain, Typed, Placed, Keys, Decider
  <2>1. PICK answer \in Answers(m), put \in SUBSET Score :
          /\ \/ answer = {} /\ put = {NewScore(m, took)}
             \/ answer # {} /\ put = {Decided(r, m, took) : r \in answer}
          /\ dec' = [dec EXCEPT ![d].pc = "write", ![d].put = put]
          /\ Heard(m, answer, d)
    BY <1>2, ReadAgainPuts
  <2>2. dec'[d].put = put /\ dec'[d].key = m
    BY <1>0, <2>1
  <2>3. UNCHANGED <<key, now>>
    BY <1>2 DEF ReadAgain
  <2>4. answer \subseteq Score /\ Single(answer)
    BY <2>0, AnswersTyped DEF FreshInv, Typed, Single
  <2>5. Single(put)
    BY <2>1, <2>4 DEF Single
  <2>6. ASSUME d \notin stale', NEW r \in key[m], NEW s \in put
        PROVE  s.stamp = r.stamp /\ (s.score[m] > r.score[m] => s.reset - r.reset > SoftTtl)
    <3>1. answer = key[m] /\ r \in Score
      BY <2>1, <2>4, <2>6, HeardOthers
    <3>2. s = Decided(r, m, took)
      BY <2>1, <2>4, <2>6, <3>1 DEF Single
    <3>3. CASE ResetDue(r, m, took)
      <4>1. s.stamp = r.stamp /\ s.reset = took
        BY <3>1, <3>2, <3>3 DEF Decided, Score
      <4>2. r.reset \in Times /\ r.reset < took - SoftTtl
        BY <3>1, <3>3 DEF ResetDue, Score
      <4> QED
        BY <2>0, <4>1, <4>2 DEF Times
    <3>4. CASE ~ResetDue(r, m, took)
      <4>1. s = r /\ r.score[m] \in Levels
        BY <2>0, <3>1, <3>2, <3>4 DEF Decided, Score
      <4> QED
        BY <4>1 DEF Levels
    <3> QED
      BY <3>3, <3>4
  <2>7. FreshDecider(d)'
    <3> HIDE DEF m, took
    <3> QED
      BY <2>2, <2>3, <2>6 DEF FreshDecider
  <2>8. /\ \A t \in Tasks : FreshTask(t)'
        /\ \A e \in Deciders \ {d} : FreshDecider(e)'
    BY <1>0, <1>a, <2>1, <2>3, HeardOthers, StillFresh
  <2> QED
    BY <1>0, <1>b, <2>2, <2>3, <2>5, <2>7, <2>8 DEF FreshInv
<1>3. CASE WriteBack(d)
  <2>0. dec[d].key \in Keys /\ dec[d].put \in SUBSET Score
    BY <1>0, <1>3 DEF WriteBack, Typed, Placed, Decider, Keys
  <2>1. dec'[d].pc = "idle" /\ dec'[d].put = {}
    BY <1>0, <1>3 DEF WriteBack, IdleDec
  <2>2. FreshDecider(d)' /\ Single(dec'[d].put)
    BY <2>1 DEF FreshDecider, Single
  <2>3. /\ \A t \in Tasks : FreshTask(t)'
        /\ \A e \in Deciders \ {d} : FreshDecider(e)'
    <3>1. CASE Put(dec[d].key, dec[d].put, {d})
      <4>1. /\ \A v \in Tasks \ {d} : fb'[v] = fb[v] => FreshTask(v)'
            /\ \A v \in Deciders \ {d} : dec'[v] = dec[v] => FreshDecider(v)'
        BY <1>0, <2>0, <3>1, OthersFresh
      <4> QED
        BY <1>0, <1>a, <4>1
    <3>2. CASE UNCHANGED <<key, stale>>
      BY <1>0, <1>a, <3>2, StillFresh
    <3> QED
      BY <1>3, <3>1, <3>2 DEF WriteBack
  <2>4. \A k \in Keys : Single(key'[k])
    <3>1. \A k \in Keys : key'[k] = key[k] \/ key'[k] = dec[d].put
      BY <1>0, <1>3, <2>0 DEF WriteBack, Put
    <3> QED
      BY <3>1 DEF FreshInv
  <2> QED
    BY <1>0, <1>b, <2>2, <2>3, <2>4 DEF FreshInv
<1> QED
  BY <1>1, <1>2, <1>3

LEMMA InitFresh == Init => FreshInv
BY DEF Init, FreshInv, FreshTask, FreshDecider, Single, IdleTask, IdleDec

LEMMA NextFresh == Typed /\ FreshInv /\ [Next]_vars => FreshInv'
<1> SUFFICES ASSUME Typed, FreshInv, [Next]_vars PROVE FreshInv'
  OBVIOUS
<1>1. CASE Tick
  <2>1. now \in Nat /\ now' = now + 1 /\ UNCHANGED <<key, fb, dec, stale>>
    BY <1>1 DEF Tick, Typed, TypeOK, Times
  <2>2. \A t \in Tasks : fb[t].took \in Int
    BY DEF Typed, TypeOK, Task, Times
  <2>3. ASSUME NEW t \in Tasks PROVE FreshTask(t)'
    BY <2>1, <2>2 DEF FreshInv, FreshTask, TooOld
  <2>4. ASSUME NEW d \in Deciders PROVE FreshDecider(d)'
    BY <2>1 DEF FreshInv, FreshDecider
  <2> QED
    BY <2>1, <2>3, <2>4 DEF FreshInv
<1>2. ASSUME NEW k \in Keys, Drop(k) PROVE FreshInv'
  <2>1. /\ \A t \in Tasks : FreshTask(t)'
        /\ \A d \in Deciders : FreshDecider(d)'
    BY <1>2, OthersFresh DEF Drop
  <2>2. \A i \in Keys : key'[i] = {} \/ key'[i] = key[i]
    BY <1>2 DEF Drop, Put, Typed, TypeOK
  <2> QED
    BY <1>2, <2>1, <2>2 DEF Drop, FreshInv, Single
<1>3. CASE UNCHANGED vars
  <2>1. UNCHANGED <<now, key, fb, dec, stale>>
    BY <1>3 DEF vars
  <2> QED
    BY <2>1 DEF FreshInv, FreshTask, FreshDecider, TooOld
<1> QED
  BY <1>1, <1>2, <1>3, TaskFresh, DeciderFresh, NextTyped DEF Next

-----------------------------------------------------------------------------
(* What a write may do.                                                     *)

\* Whoever ends with a write leaves all other keys alone.
LEMMA WritesOwnKey ==
  ASSUME Typed, FreshInv, [Next]_vars, NEW k \in Keys, NEW w \in Tasks \cup Deciders,
         Writes(w), NEW r \in key[k], NEW s \in key'[k], s # r
  PROVE  \/ /\ w \in Tasks /\ fb[w].pc = "write" /\ k = fb[w].key
            /\ s \in fb[w].put /\ w \notin stale
         \/ /\ w \in Deciders /\ dec[w].pc = "write" /\ k = dec[w].key
            /\ s \in dec[w].put /\ w \notin stale
<1>0. fb \in [Tasks -> Task] /\ dec \in [Deciders -> Decider] /\ Single(key[k])
  BY DEF Typed, TypeOK, FreshInv
<1>1. key' # key /\ key'[k] # key[k]
  BY <1>0 DEF Single
<1>2. CASE w \in Tasks
  <2>1. fb[w].pc = "write" /\ fb'[w] # fb[w] /\ w \notin stale /\ w \notin Deciders
    BY <1>2 DEF Writes
  <2>2. PICK t \in Tasks : WriteScore(t)
    BY <1>1, <2>1 DEF Next, Tick, Spawn, ReadScore, Evaluate, Trigger, ReadAgain,
                      WriteBack, Drop, vars
  <2>3. t = w
    BY <1>0, <2>1, <2>2 DEF WriteScore
  <2>4. Put(fb[w].key, fb[w].put, {w})
    BY <1>1, <2>2, <2>3 DEF WriteScore
  <2>5. k = fb[w].key /\ key'[k] = fb[w].put
    BY <1>1, <2>4 DEF Put, Typed, TypeOK
  <2> QED
    BY <1>2, <2>1, <2>5
<1>3. CASE w \in Deciders
  <2>1. dec[w].pc = "write" /\ dec'[w] # dec[w] /\ w \notin stale /\ w \notin Tasks
    BY <1>3 DEF Writes
  <2>2. PICK d \in Deciders : WriteBack(d)
    BY <1>1, <2>1 DEF Next, Tick, Spawn, ReadScore, WriteScore, Evaluate, Trigger,
                      ReadAgain, Drop, vars
  <2>3. d = w
    BY <1>0, <2>1, <2>2 DEF WriteBack
  <2>4. Put(dec[w].key, dec[w].put, {w})
    BY <1>1, <2>2, <2>3 DEF WriteBack
  <2>5. k = dec[w].key /\ key'[k] = dec[w].put
    BY <1>1, <2>4 DEF Put, Typed, TypeOK
  <2> QED
    BY <1>3, <2>1, <2>5
<1> QED
  BY <1>2, <1>3

\* A record is not given up before its TTL, but by a task whose clock was read
\* before the record was made, or by one that did not know of it
\* (updateKeyScoreForKeysFromConsumer).
THEOREM RecordOutlivesItsTtlHolds == Spec => RecordOutlivesItsTtl
<1>1. ASSUME Typed, FreshInv, [Next]_vars, NEW k \in Keys, NEW w \in Tasks \cup Deciders,
             NEW r \in key[k], NEW s \in key'[k], Writes(w), s.stamp # r.stamp
      PROVE  \/ now - r.stamp > HardTtl - Margin
             \/ w \in Tasks /\ fb[w].took < r.stamp
  <2>1. CASE w \in Tasks /\ fb[w].pc = "write" /\ k = fb[w].key
               /\ s \in fb[w].put /\ w \notin stale
    <3>1. TooOld(r, fb[w].took) /\ fb[w].took <= now
      BY <1>1, <2>1 DEF FreshInv, FreshTask
    <3>2. r.stamp \in Nat /\ fb[w].took \in Nat /\ now \in Nat
      BY <1>1, <2>1 DEF Typed, TypeOK, Score, Task, Times
    <3> QED
      BY <2>1, <3>1, <3>2 DEF TooOld
  <2>2. ASSUME w \in Deciders, dec[w].pc = "write", k = dec[w].key,
               s \in dec[w].put, w \notin stale
        PROVE  FALSE
    BY <1>1, <2>2 DEF FreshInv, FreshDecider
  <2> QED
    BY <1>1, <2>1, <2>2, WritesOwnKey
<1>2. Typed /\ FreshInv /\ [Next]_vars =>
        [\A k \in Keys, w \in Tasks \cup Deciders : \A r \in key[k], s \in key'[k] :
           Writes(w) /\ s.stamp # r.stamp =>
             \/ now - r.stamp > HardTtl - Margin
             \/ w \in Tasks /\ fb[w].took < r.stamp]_vars
  BY <1>1
<1> QED
  BY <1>2, InitTyped, NextTyped, InitFresh, NextFresh, PTL DEF Spec, RecordOutlivesItsTtl

\* A decider that knows what it overwrites raises a score only when the last reset
\* is longer ago than the soft TTL (is_reset_eligible).
THEOREM ResetsAreSpacedHolds == Spec => ResetsAreSpaced
<1>1. ASSUME Typed, FreshInv, [Next]_vars, NEW m \in Merchants, NEW d \in Deciders,
             NEW r \in key[m], NEW s \in key'[m], Writes(d), s.score[m] > r.score[m]
      PROVE  s.reset - r.reset > SoftTtl
  <2>1. m \in Keys /\ d \notin Tasks
    BY DEF Keys
  <2>2. s # r
    BY <1>1, <2>1 DEF Typed, TypeOK, Score, Levels
  <2>3. /\ dec[d].pc = "write" /\ m = dec[d].key
        /\ s \in dec[d].put /\ d \notin stale
    BY <1>1, <2>1, <2>2, WritesOwnKey
  <2> QED
    BY <1>1, <2>3 DEF FreshInv, FreshDecider
<1>2. Typed /\ FreshInv /\ [Next]_vars =>
        [\A m \in Merchants, d \in Deciders : \A r \in key[m], s \in key'[m] :
           Writes(d) /\ s.score[m] > r.score[m] => s.reset - r.reset > SoftTtl]_vars
  BY <1>1
<1> QED
  BY <1>2, InitTyped, NextTyped, InitFresh, NextFresh, PTL DEF Spec, ResetsAreSpaced

-----------------------------------------------------------------------------
(* No failure is counted twice.                                            *)

\* The tasks that may have counted in m's entry of k: those that are done and
\* those of T.
Past(k, m, T) ==
  {t \in Tasks : /\ fb[t].pc = "done" \/ t \in T
                 /\ fb[t].key = k /\ fb[t].who = m
                 /\ k = m => fb[t].kind = "Penalise"}

Counts(k, r, T) ==
  /\ k \in Merchants => r.members = {k}
  /\ \A m \in r.members : r.count[m] <= Cardinality(Past(k, m, T))

CountInv ==
  /\ \A k \in Keys : \A r \in key[k] : Counts(k, r, {})
  /\ \A t \in Tasks : \A r \in fb[t].put : fb[t].pc # "idle" /\ Counts(fb[t].key, r, {t})
  /\ \A d \in Deciders : \A r \in dec[d].put : Counts(dec[d].key, r, {})

LEMMA PastFinite ==
  ASSUME NEW k, NEW m, NEW T
  PROVE  IsFiniteSet(Past(k, m, T)) /\ Cardinality(Past(k, m, T)) \in Nat
BY TasksAssumption, FS_Subset, FS_CardinalityType DEF Past

\* A task at work keeps its outcome.
LEMMA WorkKept ==
  ASSUME Typed, [Next]_vars, NEW t \in Tasks, fb[t].pc # "idle"
  PROVE  /\ fb'[t].pc # "idle" /\ (fb[t].pc = "done" => fb'[t].pc = "done")
         /\ fb'[t].key = fb[t].key /\ fb'[t].who = fb[t].who /\ fb'[t].kind = fb[t].kind
<1>0. fb \in [Tasks -> Task]
  BY DEF Typed, TypeOK
<1>1. CASE fb' = fb
  BY <1>1
<1>2. ASSUME NEW s \in Tasks, Spawn(s) PROVE fb'[t] = fb[t]
  BY <1>0, <1>2 DEF Spawn
<1>3. ASSUME NEW s \in Tasks, ReadScore(s)
      PROVE  /\ fb'[t] = fb[t] \/ (fb[t].pc = "read" /\ fb'[t].pc = "write")
             /\ fb'[t].key = fb[t].key /\ fb'[t].who = fb[t].who /\ fb'[t].kind = fb[t].kind
  <2>1. PICK put : fb' = [fb EXCEPT ![s].pc = "write", ![s].put = put]
    BY <1>3, ReadScorePuts
  <2>2. fb[s].pc = "read"
    BY <1>3 DEF ReadScore
  <2> QED
    BY <1>0, <2>1, <2>2
<1>4. ASSUME NEW s \in Tasks, WriteScore(s)
      PROVE  /\ fb'[t] = fb[t] \/ fb'[t].pc = "done"
             /\ fb'[t].key = fb[t].key /\ fb'[t].who = fb[t].who /\ fb'[t].kind = fb[t].kind
  BY <1>0, <1>4 DEF WriteScore
<1>5. \/ fb' = fb \/ \E s \in Tasks : Spawn(s) \/ ReadScore(s) \/ WriteScore(s)
  BY DEF Next, Tick, Evaluate, Trigger, ReadAgain, WriteBack, Drop, vars
<1> QED
  BY <1>1, <1>2, <1>3, <1>4, <1>5

LEMMA CountsKept ==
  ASSUME Typed, [Next]_vars, NEW k, NEW r \in Score, NEW T, NEW U,
         \A t \in T : fb[t].pc # "idle" /\ (t \in U \/ fb'[t].pc = "done"),
         Counts(k, r, T)
  PROVE  Counts(k, r, U)'
<1>1. \A m : Past(k, m, T) \subseteq Past(k, m, U)'
  BY WorkKept DEF Past
<1>2. \A m : IsFiniteSet(Past(k, m, U))'
  BY TasksAssumption, FS_Subset DEF Past
<1>3. \A m : Cardinality(Past(k, m, T)) <= Cardinality(Past(k, m, U)')
  BY <1>1, <1>2, FS_Subset
<1>4. \A m : Cardinality(Past(k, m, T)) \in Nat /\ Cardinality(Past(k, m, U)') \in Nat
  BY <1>2, PastFinite, FS_CardinalityType
<1> QED
  BY <1>3, <1>4 DEF Counts, Score

LEMMA NewCounts ==
  ASSUME NEW k \in Keys, NEW m \in Merchants, k \in {m} \cup GlobalKeys, NEW time, NEW T
  PROVE  Counts(k, NewScore(m, time), T)
BY PastFinite DEF Counts, NewScore

\* An update counts its own failure once more than what was counted before.
LEMMA UpdatedCounts ==
  ASSUME Typed, NEW t \in Tasks, fb[t].pc = "read", NEW r \in Score, NEW limit,
         Counts(fb[t].key, r, {})
  PROVE  Counts(fb[t].key, Updated(r, fb[t].who, fb[t].kind, limit), {t})
<1> DEFINE k == fb[t].key
           m == fb[t].who
           kind == fb[t].kind
           s == Updated(r, m, kind, limit)
<1>1. m \in Merchants /\ k \in {m} \cup GlobalKeys
  BY DEF Typed, Placed
<1>2. \A n \in Merchants : /\ r.count[n] \in Nat
                           /\ Past(k, n, {}) \subseteq Past(k, n, {t})
                           /\ Cardinality(Past(k, n, {})) <= Cardinality(Past(k, n, {t}))
                           /\ Cardinality(Past(k, n, {})) \in Nat
                           /\ Cardinality(Past(k, n, {t})) \in Nat
  <2>1. \A n : Past(k, n, {}) \subseteq Past(k, n, {t})
    BY DEF Past
  <2> QED
    BY <2>1, PastFinite, FS_Subset DEF Score
<1>3. ASSUME k = m => kind = "Penalise"
      PROVE  Cardinality(Past(k, m, {t})) = Cardinality(Past(k, m, {})) + 1
  <2>1. Past(k, m, {t}) = Past(k, m, {}) \cup {t} /\ t \notin Past(k, m, {})
    BY <1>3 DEF Past
  <2> QED
    BY <2>1, PastFinite, FS_AddElement
<1>4. r.members \subseteq Merchants
  BY DEF Score
<1>a. ASSUME NEW n \in r.members PROVE r.count[n] <= Cardinality(Past(k, n, {t}))
  <2>1. r.count[n] <= Cardinality(Past(k, n, {}))
    BY DEF Counts
  <2> HIDE DEF k
  <2> QED
    BY <1>2, <1>4, <2>1
<1>5. CASE m \in r.members
  <2>1. s.members = r.members /\ \A n \in Merchants \ {m} : s.count[n] = r.count[n]
    BY <1>1, <1>5 DEF Updated, Score
  <2>2. s.count[m] = Counted(r.count[m], kind)
    BY <1>1, <1>5 DEF Updated, Score
  <2>3. s.count[m] <= Cardinality(Past(k, m, {t}))
    BY <1>1, <1>2, <1>3, <1>5, <2>2 DEF Counted, Counts
  <2>4. \A n \in r.members \ {m} : s.count[n] <= Cardinality(Past(k, n, {t}))
    BY <1>4, <1>a, <2>1
  <2> HIDE DEF s, k, m
  <2>5. k \in Merchants => r.members = {k}
    BY DEF Counts, k
  <2> QED
    BY <2>1, <2>3, <2>4, <2>5 DEF Counts, s, k, m
<1>6. CASE m \notin r.members /\ s = r
  BY <1>a, <1>6 DEF Counts
<1>7. CASE m \notin r.members /\ s # r
  <2>1. /\ s.members = r.members \cup {m} /\ s.count[m] = 1
        /\ \A n \in Merchants \ {m} : s.count[n] = r.count[n]
    BY <1>1, <1>7 DEF Updated, Score
  <2>2. k # m /\ k \notin Merchants
    BY <1>1, <1>7 DEF Counts
  <2>3. s.count[m] <= Cardinality(Past(k, m, {t}))
    BY <1>1, <1>2, <1>3, <2>1, <2>2
  <2>4. \A n \in r.members : s.count[n] <= Cardinality(Past(k, n, {t}))
    BY <1>4, <1>7, <1>a, <2>1
  <2> HIDE DEF s, k, m
  <2> QED
    BY <2>1, <2>2, <2>3, <2>4 DEF Counts, s, k, m
<1> QED
  BY <1>5, <1>6, <1>7

LEMMA DecidedCounts ==
  ASSUME NEW k, NEW r \in Score, NEW m, NEW took, Counts(k, r, {})
  PROVE  Counts(k, Decided(r, m, took), {})
<1>1. Decided(r, m, took).members = r.members /\ Decided(r, m, took).count = r.count
  BY DEF Decided, Score
<1> QED
  BY <1>1 DEF Counts

LEMMA NextCounts == Typed /\ CountInv /\ [Next]_vars => CountInv'
<1> SUFFICES ASSUME Typed, CountInv, [Next]_vars PROVE CountInv'
  OBVIOUS
<1>0. /\ key \in [Keys -> SUBSET Score] /\ fb \in [Tasks -> Task]
      /\ dec \in [Deciders -> Decider] /\ now \in Times
  BY DEF Typed, TypeOK
<1>1. ASSUME NEW k, NEW r \in Score, Counts(k, r, {}) PROVE Counts(k, r, {})'
  BY <1>1, CountsKept
<1>2. ASSUME NEW t \in Tasks, fb[t].pc # "idle", NEW k, NEW r \in Score, Counts(k, r, {t})
      PROVE  Counts(k, r, {t})' /\ (fb'[t].pc = "done" => Counts(k, r, {})')
  <2>1. Counts(k, r, {t})'
    BY <1>2, CountsKept
  <2>2. fb'[t].pc = "done" => Counts(k, r, {})'
    BY <1>2, CountsKept
  <2> QED
    BY <2>1, <2>2
<1>3. ASSUME NEW k \in Keys, NEW r \in key'[k] PROVE Counts(k, r, {})'
  <2>1. CASE r \in key[k]
    <3>1. r \in Score /\ Counts(k, r, {})
      BY <1>0, <2>1 DEF CountInv
    <3> QED
      BY <1>1, <3>1
  <2>2. ASSUME r \notin key[k], NEW t \in Tasks, WriteScore(t) PROVE Counts(k, r, {})'
    <3>1. fb[t].key \in Keys /\ fb[t].put \in SUBSET Score
      BY <1>0, <2>2 DEF WriteScore, Typed, Placed, Task, Keys
    <3>2. k = fb[t].key /\ r \in fb[t].put
      BY <1>0, <1>3, <2>2, <3>1 DEF WriteScore, Put
    <3>3. r \in Score /\ fb[t].pc # "idle" /\ Counts(k, r, {t})
      BY <3>1, <3>2 DEF CountInv
    <3>4. fb'[t].pc = "done"
      BY <1>0, <2>2 DEF WriteScore
    <3> QED
      BY <1>2, <3>3, <3>4
  <2>3. ASSUME r \notin key[k], NEW d \in Deciders, WriteBack(d) PROVE Counts(k, r, {})'
    <3>1. dec[d].key \in Keys /\ dec[d].put \in SUBSET Score
      BY <1>0, <2>3 DEF WriteBack, Typed, Placed, Decider, Keys
    <3>2. k = dec[d].key /\ r \in dec[d].put
      BY <1>0, <1>3, <2>3, <3>1 DEF WriteBack, Put
    <3>3. r \in Score /\ Counts(k, r, {})
      BY <3>1, <3>2 DEF CountInv
    <3> QED
      BY <1>1, <3>3
  <2>4. ASSUME NEW i \in Keys, Drop(i) PROVE r \in key[k]
    BY <1>0, <1>3, <2>4 DEF Drop, Put
  <2>5. \/ key' = key
        \/ \E t \in Tasks : WriteScore(t)
        \/ \E d \in Deciders : WriteBack(d)
        \/ \E i \in Keys : Drop(i)
    BY DEF Next, Tick, Spawn, ReadScore, Evaluate, Trigger, ReadAgain, vars
  <2> QED
    BY <1>3, <2>1, <2>2, <2>3, <2>4, <2>5
<1>4. ASSUME NEW s \in Tasks, NEW r \in fb'[s].put
      PROVE  fb'[s].pc # "idle" /\ Counts(fb[s].key, r, {s})'
  <2>1. CASE r \in fb[s].put
    <3>1. r \in Score /\ fb[s].pc # "idle" /\ Counts(fb[s].key, r, {s})
      BY <1>0, <2>1 DEF CountInv, Task
    <3>2. fb'[s].pc # "idle" /\ fb'[s].key = fb[s].key
      BY <3>1, WorkKept
    <3>3. PICK k : k = fb[s].key
      OBVIOUS
    <3>4. Counts(k, r, {s})'
      BY <1>2, <3>1, <3>3
    <3> QED
      BY <3>2, <3>3, <3>4
  <2>2. ASSUME r \notin fb[s].put, NEW t \in Tasks, ReadScore(t)
        PROVE  fb'[s].pc # "idle" /\ Counts(fb[s].key, r, {s})'
    <3>0. fb[t].who \in Merchants /\ fb[t].key \in {fb[t].who} \cup GlobalKeys
          /\ fb[t].key \in Keys /\ fb[t].pc = "read" /\ fb[t].kind \in Kinds
      BY <1>0, <2>2 DEF ReadScore, Typed, Placed, Keys, Task
    <3>1. PICK answer \in Answers(fb[t].key), limit \in Limits, base \in SUBSET Score :
            /\ Based(base, t, answer)
            /\ fb' = [fb EXCEPT ![t].pc = "write", ![t].put =
                        {Updated(b, fb[t].who, fb[t].kind, limit) : b \in base}]
      BY <2>2, ReadScorePuts
    <3> DEFINE put == {Updated(b, fb[t].who, fb[t].kind, limit) : b \in base}
    <3>2. fb'[t].put = put /\ fb'[t].key = fb[t].key
          /\ \A v \in Tasks \ {t} : fb'[v] = fb[v]
      BY <1>0, <3>1
    <3>3. s = t /\ r \in put
      BY <1>4, <2>2, <3>2
    <3>4. PICK b \in base : r = Updated(b, fb[t].who, fb[t].kind, limit)
      BY <3>3
    <3>5. Counts(fb[t].key, b, {})
      <4>1. CASE b = NewScore(fb[t].who, now)
        BY <3>0, <4>1, NewCounts
      <4>2. CASE b \in answer
        BY <3>0, <4>2, AnswersTyped DEF Typed, CountInv
      <4> QED
        BY <3>1, <4>1, <4>2 DEF Based
    <3>6. Counts(fb[t].key, r, {t}) /\ r \in Score
      BY <3>0, <3>4, <3>5, UpdatedCounts, UpdatedTyped
    <3>7. PICK k : k = fb[t].key
      OBVIOUS
    <3>8. Counts(k, r, {t})'
      BY <1>2, <3>0, <3>6, <3>7
    <3>9. fb'[t].pc # "idle"
      BY <3>0, WorkKept
    <3> HIDE DEF put
    <3> QED
      BY <3>2, <3>3, <3>7, <3>8, <3>9
  <2>3. ASSUME NEW t \in Tasks, Spawn(t) \/ WriteScore(t) PROVE r \in fb[s].put
    <3>1. CASE Spawn(t)
      <4>1. PICK m, kind, k :
              fb' = [fb EXCEPT ![t] = [pc |-> "read", key |-> k, who |-> m, kind |-> kind,
                                       took |-> now, put |-> {}]]
        BY <3>1 DEF Spawn
      <4>2. fb'[s] = fb[s] \/ fb'[s].put = {}
        BY <1>0, <4>1
      <4> QED
        BY <1>4, <4>2
    <3>2. CASE WriteScore(t)
      <4>1. fb'[s] = fb[s] \/ fb'[s].put = {}
        BY <1>0, <3>2 DEF WriteScore
      <4> QED
        BY <1>4, <4>1
    <3> QED
      BY <2>3, <3>1, <3>2
  <2>4. \/ fb' = fb
        \/ \E t \in Tasks : Spawn(t) \/ ReadScore(t) \/ WriteScore(t)
    BY DEF Next, Tick, Evaluate, Trigger, ReadAgain, WriteBack, Drop, vars
  <2> QED
    BY <1>4, <2>1, <2>2, <2>3, <2>4
<1>5. ASSUME NEW e \in Deciders, NEW r \in dec'[e].put PROVE Counts(dec[e].key, r, {})'
  <2>1. CASE dec'[e].key = dec[e].key /\ r \in dec[e].put
    <3>1. r \in Score /\ Counts(dec[e].key, r, {})
      BY <1>0, <2>1 DEF CountInv, Decider
    <3>2. PICK k : k = dec[e].key
      OBVIOUS
    <3>3. Counts(k, r, {})'
      BY <1>1, <3>1, <3>2
    <3> QED
      BY <2>1, <3>2, <3>3
  <2>2. ASSUME NEW d \in Deciders, ReadAgain(d), e = d
        PROVE  Counts(dec[e].key, r, {})'
    <3>0. dec[d].key \in Merchants /\ dec[d].took \in Times /\ dec[d].key \in Keys
      BY <1>0, <2>2 DEF ReadAgain, Typed, Placed, Decider, Keys
    <3>1. PICK answer \in Answers(dec[d].key), put \in SUBSET Score :
            /\ \/ answer = {} /\ put = {NewScore(dec[d].key, dec[d].took)}
               \/ answer # {} /\ put = {Decided(b, dec[d].key, dec[d].took) : b \in answer}
            /\ dec' = [dec EXCEPT ![d].pc = "write", ![d].put = put]
      BY <2>2, ReadAgainPuts
    <3>2. dec'[e].key = dec[d].key /\ r \in put
      BY <1>0, <1>5, <2>2, <3>1
    <3>3. Counts(dec[d].key, r, {})
      <4>1. CASE r = NewScore(dec[d].key, dec[d].took)
        BY <3>0, <4>1, NewCounts
      <4>2. ASSUME NEW b \in answer, r = Decided(b, dec[d].key, dec[d].took)
            PROVE  Counts(dec[d].key, r, {})
        <5>1. b \in Score /\ Counts(dec[d].key, b, {})
          BY <3>0, <4>2, AnswersTyped DEF Typed, CountInv
        <5> QED
          BY <4>2, <5>1, DecidedCounts
      <4> QED
        BY <3>1, <3>2, <4>1, <4>2
    <3>4. PICK k : k = dec[d].key
      OBVIOUS
    <3>5. Counts(k, r, {})'
      BY <1>1, <3>2, <3>3, <3>4
    <3> QED
      BY <2>2, <3>2, <3>4, <3>5
  <2>3. ASSUME NEW d \in Deciders, ReadAgain(d), e # d PROVE dec'[e] = dec[e]
    BY <1>0, <2>3 DEF ReadAgain
  <2>4. ASSUME NEW d \in Deciders, Evaluate(d) PROVE dec'[e] = dec[e] \/ dec'[e].put = {}
    <3>1. PICK m, seen :
            dec' = [dec EXCEPT ![d] = [IdleDec EXCEPT !.pc = "evaluate", !.key = m,
                                                      !.seen = seen]]
      BY <2>4 DEF Evaluate
    <3> QED
      BY <1>0, <3>1 DEF IdleDec
  <2>5. ASSUME NEW d \in Deciders, Trigger(d) \/ WriteBack(d)
        PROVE  \/ dec'[e].key = dec[e].key /\ dec'[e].put = dec[e].put
               \/ dec'[e].put = {}
    <3>1. CASE Trigger(d)
      BY <1>0, <3>1 DEF Trigger, IdleDec
    <3>2. CASE WriteBack(d)
      BY <1>0, <3>2 DEF WriteBack, IdleDec
    <3> QED
      BY <2>5, <3>1, <3>2
  <2>6. \/ dec' = dec
        \/ \E d \in Deciders : Evaluate(d) \/ Trigger(d) \/ ReadAgain(d) \/ WriteBack(d)
    BY DEF Next, Tick, Spawn, ReadScore, WriteScore, Drop, vars
  <2> QED
    BY <1>5, <2>1, <2>2, <2>3, <2>4, <2>5, <2>6
<1> QED
  BY <1>3, <1>4, <1>5 DEF CountInv

\* The count beside a score never exceeds the failures reported to the key, however
\* often tasks overlap or deciders write back (getTransactionCount,
\* replaceTransactionCount).
THEOREM CountedOnceHolds == Spec => []CountedOnce
<1>1. Init => CountInv
  BY DEF Init, CountInv, IdleTask, IdleDec
<1>2. CountInv => CountedOnce
  <2> SUFFICES ASSUME CountInv, NEW k \in Keys, NEW r \in key[k], NEW m \in r.members
               PROVE  r.count[m] <= Cardinality(Past(k, m, {}))
    BY DEF CountedOnce, Past
  <2> QED
    BY DEF CountInv, Counts
<1> QED
  BY <1>1, <1>2, InitTyped, NextTyped, NextCounts, PTL DEF Spec

=============================================================================
