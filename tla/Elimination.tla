----------------------------- MODULE Elimination -----------------------------
(***************************************************************************)
(* The elimination scores of one gateway in Redis: each merchant's own key *)
(* and the global keys all merchants share.  Feedback tasks read a key,    *)
(* change it and write it back, deciders do the same to raise a score that *)
(* has been low for long, and nothing holds between a read and its write.  *)
(*                                                                         *)
(* Scores are counted in penalties: 0 is the minimum score, Top is 1.0, and*)
(* a penalty is one step down, as it is a factor in the code.              *)
(***************************************************************************)
EXTENDS Integers, FiniteSets

CONSTANTS Merchants,   \* a merchant also names its own key
          GlobalKeys,  \* keys shared by the merchants
          Tasks,       \* elimination updates, one per outcome and key
          Deciders,    \* routing calls with score resets enabled
          Top,         \* penalties from 1.0 down to the minimum score
          RewardStep,  \* what a reward is worth, in penalties
          Threshold,   \* a gateway below it is eliminated
          MaxCount,    \* softTxnResetCount
          Limits,      \* lengths the merchants array may be limited to
          HardTtl,     \* after it a key starts anew
          Margin,      \* the second before that in which it already does
          SoftTtl,     \* how long a score stays low before it is reset
          MaxTime,     \* bound: the last instant
          Faults       \* Redis may answer with errors, and drop keys

ASSUME KeysAssumption == Merchants \cap GlobalKeys = {} /\ Tasks \cap Deciders = {}
ASSUME TasksAssumption == IsFiniteSet(Tasks)
ASSUME ScoresAssumption ==
  /\ Top \in Nat /\ RewardStep \in Nat /\ Threshold \in 0..Top
  /\ MaxCount \in Nat \ {0} /\ Limits \subseteq Nat
ASSUME TimesAssumption ==
  /\ HardTtl \in Nat /\ Margin \in 0..HardTtl /\ SoftTtl \in Nat /\ MaxTime \in Nat
ASSUME FaultsAssumption == Faults \in BOOLEAN

VARIABLES now,    \* the clock
          key,    \* keys in Redis: a set of at most one record each
          fb,     \* feedback tasks
          dec,    \* deciders
          stale   \* ghost: whose answer from Redis no longer holds

vars == <<now, key, fb, dec, stale>>

Keys == Merchants \cup GlobalKeys
Kinds == {"Penalise", "Reward", "PenaliseSrv3"}

Levels == 0..Top
Least(a, b) == IF a <= b THEN a ELSE b
Most(a, b) == IF a >= b THEN a ELSE b

\* A record before its first outcome; the array of a shared key starts with the
\* merchant that creates it.
NewScore(m, time) ==
  [stamp |-> time, reset |-> time, members |-> {m},
   score |-> [n \in Merchants |-> Top], count |-> [n \in Merchants |-> 0]]

IdleTask == [pc |-> "idle", key |-> "none", who |-> "none", kind |-> "Reward",
             took |-> 0, put |-> {}]
IdleDec == [pc |-> "idle", key |-> "none", seen |-> 0, took |-> 0, put |-> {}]

Init ==
  /\ now = 0
  /\ key = [k \in Keys |-> {}]
  /\ fb = [t \in Tasks |-> IdleTask]
  /\ dec = [d \in Deciders |-> IdleDec]
  /\ stale = {}

Tick ==
  /\ now < MaxTime
  /\ now' = now + 1
  /\ UNCHANGED <<key, fb, dec, stale>>

\* What GET answers: nothing for an error as for a key that is not there.
Answers(k) == {key[k]} \cup (IF Faults THEN {{}} ELSE {})

\* Whoever has read k and is about to write what it made of it.
Writers(k) == {t \in Tasks : fb[t].pc = "write" /\ fb[t].key = k}
                \cup {d \in Deciders : dec[d].pc = "write" /\ dec[d].key = k}

\* SETX of one record: every other answer about k is out of date.
Put(k, put, by) ==
  /\ key' = [key EXCEPT ![k] = put]
  /\ stale' = (stale \cup Writers(k)) \ by

\* A writer that read `answer` knows what k holds, or not.
Heard(k, answer, reader) ==
  stale' = IF answer = key[k] THEN stale \ {reader} ELSE stale \cup {reader}

-----------------------------------------------------------------------------
(* updateKeyScoreForKeysFromConsumer, one task per outcome and key.         *)

Penalised(score) == Most(score - 1, 0)

Rewarded(score) == Least(score + RewardStep, Top)

\* Mutant: an outcome that is only for the SR window is penalised as well.
ScoredStrictly(score, kind) ==
  IF kind = "Reward" THEN Rewarded(score) ELSE Penalised(score)

Scored(score, kind) ==
  CASE kind = "Penalise" -> Penalised(score)
    [] kind = "Reward" -> Rewarded(score)
    [] OTHER -> score

\* Mutant: every outcome is counted.
CountedAlways(count, kind) == count + 1

\* Only failures are counted.
Counted(count, kind) == IF kind = "Penalise" THEN count + 1 ELSE count

\* A merchant that is not in the array joins it, if there is room, with a count
\* of 1 and the full score, whatever its outcome was.
Updated(r, m, kind, limit) ==
  IF m \in r.members
  THEN [r EXCEPT !.score[m] = Scored(@, kind), !.count[m] = Counted(@, kind)]
  ELSE IF Cardinality(r.members) >= limit THEN r
  ELSE [r EXCEPT !.members = @ \cup {m}, !.score[m] = Top, !.count[m] = 1]

\* Mutant: a record is given up a moment too early.
TooOldEarly(r, took) == took < r.stamp \/ took - r.stamp >= HardTtl - Margin

\* The age is unsigned: a record that is younger than the task's own time stamp
\* by the clock comes out as older than any TTL.
TooOld(r, took) == took < r.stamp \/ took - r.stamp > HardTtl - Margin

Spawn(t) ==
  /\ fb[t].pc = "idle"
  /\ \E m \in Merchants, kind \in Kinds :
       \E k \in {m} \cup GlobalKeys :
         fb' = [fb EXCEPT ![t] = [pc |-> "read", key |-> k, who |-> m, kind |-> kind,
                                  took |-> now, put |-> {}]]
  /\ UNCHANGED <<now, key, dec, stale>>

\* The record is read, or begun anew, and changed.
ReadScore(t) ==
  /\ fb[t].pc = "read"
  /\ \E answer \in Answers(fb[t].key), limit \in Limits :
       LET kept == {r \in answer : ~TooOld(r, fb[t].took)}
           base == IF kept = {} THEN {NewScore(fb[t].who, now)} ELSE kept
       IN  /\ fb' = [fb EXCEPT ![t].pc = "write", ![t].put =
                       {Updated(r, fb[t].who, fb[t].kind, limit) : r \in base}]
           /\ Heard(fb[t].key, answer, t)
  /\ UNCHANGED <<now, key, dec>>

\* A failed write is only logged.
WriteScore(t) ==
  /\ fb[t].pc = "write"
  /\ fb' = [fb EXCEPT ![t].pc = "done", ![t].put = {}]
  /\ \/ Put(fb[t].key, fb[t].put, {t})
     \/ Faults /\ UNCHANGED <<key, stale>>
  /\ UNCHANGED <<now, dec>>

-----------------------------------------------------------------------------
(* update_gateway_score_based_on_success_rate on the merchant's own key.    *)

\* A gateway below the threshold is eliminated for this payment.
Evaluate(d) ==
  /\ dec[d].pc = "idle"
  /\ \E m \in Merchants : \E r \in key[m] :
       /\ r.score[m] < Threshold
       /\ dec' = [dec EXCEPT ![d] = [IdleDec EXCEPT !.pc = "evaluate", !.key = m,
                                                    !.seen = r.reset]]
  /\ UNCHANGED <<now, key, fb, stale>>

\* evaluate_reset_gateway_score, then the time of the reset.
Trigger(d) ==
  /\ dec[d].pc = "evaluate"
  /\ dec' = IF now - dec[d].seen > SoftTtl
            THEN [dec EXCEPT ![d].pc = "read", ![d].took = now]
            ELSE [dec EXCEPT ![d] = IdleDec]
  /\ UNCHANGED <<now, key, fb, stale>>

\* The score from which MaxCount failures lead below the threshold again.
ResetScore == Least(Threshold + MaxCount - 1, Top)

\* Mutant: the score is not compared with the threshold again.
ResetDueBySeen(r, m, took) == r.score[m] < Threshold

\* is_reset_eligible
ResetDue(r, m, took) == r.score[m] < Threshold /\ r.reset < took - SoftTtl

\* A score that is not due is written back as it was read, and one that was not
\* found as a full one.
ReadAgain(d) ==
  /\ dec[d].pc = "read"
  /\ \E answer \in Answers(dec[d].key) :
       LET m == dec[d].key  took == dec[d].took
           put == IF answer = {} THEN {NewScore(m, took)}
                  ELSE {IF ResetDue(r, m, took)
                        THEN [r EXCEPT !.score[m] = ResetScore, !.reset = took]
                        ELSE r : r \in answer}
       IN  /\ dec' = [dec EXCEPT ![d].pc = "write", ![d].put = put]
           /\ Heard(m, answer, d)
  /\ UNCHANGED <<now, key, fb>>

\* At the very end of the TTL none is left, and SETX refuses to set it.
WriteBack(d) ==
  /\ dec[d].pc = "write"
  /\ dec' = [dec EXCEPT ![d] = IdleDec]
  /\ \/ /\ \A r \in dec[d].put : dec[d].took - r.stamp # HardTtl
        /\ Put(dec[d].key, dec[d].put, {d})
     \/ /\ Faults \/ \E r \in dec[d].put : dec[d].took - r.stamp = HardTtl
        /\ UNCHANGED <<key, stale>>
  /\ UNCHANGED <<now, fb>>

-----------------------------------------------------------------------------

\* Redis evicts the key or lets it expire, a thousand times its TTL later, as the
\* milliseconds are given as seconds.
Drop(k) ==
  /\ Faults /\ key[k] # {}
  /\ Put(k, {}, {})
  /\ UNCHANGED <<now, fb, dec>>

Next ==
  \/ Tick
  \/ \E t \in Tasks : Spawn(t) \/ ReadScore(t) \/ WriteScore(t)
  \/ \E d \in Deciders : Evaluate(d) \/ Trigger(d) \/ ReadAgain(d) \/ WriteBack(d)
  \/ \E k \in Keys : Drop(k)

Spec == Init /\ [][Next]_vars

-----------------------------------------------------------------------------
(* Properties.                                                              *)

Times == 0..MaxTime
Score == [stamp : Times, reset : Times, members : SUBSET Merchants,
          score : [Merchants -> Levels], count : [Merchants -> Nat]]
Task == [pc : {"idle", "read", "write", "done"}, key : Keys \cup {"none"},
         who : Merchants \cup {"none"}, kind : Kinds, took : Times, put : SUBSET Score]
Decider == [pc : {"idle", "evaluate", "read", "write"}, key : Merchants \cup {"none"},
            seen : Times, took : Times, put : SUBSET Score]

\* Every variable keeps its type.
TypeOK ==
  /\ now \in Times
  /\ key \in [Keys -> SUBSET Score]
  /\ fb \in [Tasks -> Task]
  /\ dec \in [Deciders -> Decider]
  /\ stale \subseteq Tasks \cup Deciders

\* A score is never lower than the failures counted beside it explain, however
\* updates, resets and new beginnings interleave: a gateway is eliminated only
\* after as many failures as lie between 1.0 and the threshold
\* (updateKeyScoreForTxnStatus and getTransactionCount on one record).
LowScoreIsCounted ==
  \A k \in Keys : \A r \in key[k] : \A m \in Merchants :
    r.score[m] >= Top - r.count[m]

\* No failure is counted twice, by tasks that read the same record or by
\* deciders that write back what they read; one merchant's joining a shared array
\* counts as one.
CountedOnce ==
  \A k \in Keys : \A r \in key[k] : \A m \in r.members :
    r.count[m] <= Cardinality({t \in Tasks :
                      /\ fb[t].pc = "done" /\ fb[t].key = k /\ fb[t].who = m
                      /\ (k = m => fb[t].kind = "Penalise")})

\* A writer that ends with a write it had true answers for.
Writes(w) ==
  /\ w \notin stale
  /\ \/ w \in Tasks /\ fb[w].pc = "write" /\ fb'[w].pc = "done"
     \/ w \in Deciders /\ dec[w].pc = "write" /\ dec'[w].pc = "idle"

\* A record gives way to a new one only when its TTL had passed, when the task
\* that replaced it took its time before the record was made, or when the writer
\* did not know of it (the TTL check of updateKeyScoreForKeysFromConsumer).
RecordOutlivesItsTtl ==
  [][\A k \in Keys, w \in Tasks \cup Deciders : \A r \in key[k], s \in key'[k] :
       Writes(w) /\ s.stamp # r.stamp =>
         \/ now - r.stamp > HardTtl - Margin
         \/ w \in Tasks /\ fb[w].took < r.stamp]_vars

\* A score is raised by a reset at most once within the soft TTL, by deciders
\* that know what they overwrite (is_reset_eligible after a second read).
ResetsAreSpaced ==
  [][\A m \in Merchants, d \in Deciders : \A r \in key[m], s \in key'[m] :
       Writes(d) /\ s.score[m] > r.score[m] => s.reset - r.reset > SoftTtl]_vars

=============================================================================
