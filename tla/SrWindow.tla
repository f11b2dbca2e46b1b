------------------------------ MODULE SrWindow ------------------------------
(***************************************************************************)
(* The success-rate (SR v3) window of each gateway, kept in Redis as two   *)
(* keys: a list of the newest outcomes ("queue", 1 = success, 0 = failure) *)
(* and a cold-start success count ("score").  Three kinds of actor share   *)
(* the keys without any lock:                                              *)
(*                                                                         *)
(*   feedback tasks  resolve the bucket size, ask Redis whether the two    *)
(*                   keys exist, create them if one is missing, and push   *)
(*                   their outcome (update_sr_v3_score);                   *)
(*   deciders        read the score of every functional gateway, through a *)
(*                   short-lived in-process cache, and may reset the       *)
(*                   windows that lag behind the best one                  *)
(*                   (get_cached_scores_based_on_srv3);                    *)
(*   an operator     flushes all keys one by one ("Hard refresh").         *)
(*                                                                         *)
(* Every Redis round trip is a step of its own; a MULTI block is atomic.   *)
(***************************************************************************)
EXTENDS Integers, Sequences, FiniteSets

CONSTANTS Gateways,    \* functional gateways of one merchant and cluster
          Feedbacks,   \* feedback tasks, each delivering one outcome
          Deciders,    \* concurrent decision requests
          Sizes,       \* bucket sizes the configuration may take
          LostZeros,   \* (bucket, zeros) pairs whose arithmetic in doubles
                       \* rounds a reset's last zero off the list
          RedisFaults  \* TRUE when a Redis command may fail

ASSUME GatewaysAssumption == Gateways # {}
ASSUME SizesAssumption == Sizes \subseteq Nat \ {0} /\ Sizes # {}
ASSUME LostZerosAssumption ==     \* a reset spreads at least two zeros
  LostZeros \subseteq {p \in Nat \X Nat : 2 <= p[2]}
ASSUME FaultsAssumption == RedisFaults \in BOOLEAN

VARIABLES queue,    \* queue[g]: the list key, newest first; <<>> when absent
          score,    \* score[g]: the score key; NoKey when absent
          bucket,   \* bucket size the configuration holds now
          fb,       \* feedback tasks
          dec,      \* deciders
          cache,    \* SR_SCORE_CACHE: (gateway, size) -> score or NoScore
          flush,    \* keys a running hard refresh has still to delete
          hist,     \* ghost: all entries of the window since it was created
          pushed,   \* ghost: how many entries of hist are feedback outcomes
          blamed,   \* ghost: gateways with a failure recorded, or reset
          misled    \* ghost: tasks whose EXISTS answers no longer hold

vars == <<queue, score, bucket, fb, dec, cache, flush, hist, pushed, blamed,
          misled>>

NoKey == -1
NoScore == <<0, 0>>
Outcomes == {0, 1}

\* A score is the exact fraction <<successes, samples>>.
Score == Nat \X Nat
Less(a, b) == a[1] * b[2] < b[1] * a[2]

\* Successes among the first n entries of a list.
Successes(q, n) == Cardinality({i \in 1..n : q[i] = 1})

MinOf(a, b) == IF a < b THEN a ELSE b

\* Mutant: LTRIM key (-b) -1, which keeps the oldest b entries.
PushTrimOldest(v, q, b) ==
  LET n == MinOf(b, Len(q) + 1)
      all == <<v>> \o q
  IN [i \in 1..n |-> all[Len(all) - n + i]]

\* LTRIM key 0 (b - 1), after LPUSH key v: the newest b entries.
PushTrim(v, q, b) ==
  [i \in 1..MinOf(b, Len(q) + 1) |-> IF i = 1 THEN v ELSE q[i - 1]]

\* Mutant: the seed is filled with failures.
OnesAsFailures(n) == [i \in 1..n |-> 0]

Ones(n) == [i \in 1..n |-> 1]

CeilDiv(a, b) == (a + b - 1) \div b

\* Mutant: the spacing starts at the second zero.
ResetListSkipsFirst(b, z) ==
  [i \in 1..b |->
     IF \E k \in 1..(z - 1) : i - 1 = CeilDiv(k * (b - 1), z - 1) THEN 0 ELSE 1]

\* The list a reset installs: evenly spaced zeros, one at each end unless the
\* last falls to rounding.  (Rounding may also move a zero in between by one
\* slot, which is not modelled.)
ResetList(b, z) ==
  LET last == IF <<b, z>> \in LostZeros THEN z - 2 ELSE z - 1
  IN [i \in 1..b |->
        IF \E k \in 0..last : i - 1 = CeilDiv(k * (b - 1), z - 1) THEN 0 ELSE 1]

\* The scores a reader of bucket size b may derive: from the list; without one, or
\* when its read failed, from the score key; without an answer there, the full
\* bucket.  The two reads are taken as one step.
ScoresFromRedis(g, b) ==
  LET n == MinOf(b, Len(queue[g])) IN
    {s \in {<<Successes(queue[g], n), n>>} : queue[g] # <<>>}
    \cup {s \in {<<MinOf(score[g], b), b>>} :
            score[g] # NoKey /\ (queue[g] = <<>> \/ RedisFaults)}
    \cup {s \in {<<b, b>>} : RedisFaults \/ (queue[g] = <<>> /\ score[g] = NoKey)}

-----------------------------------------------------------------------------
FbStates == {"new", "sized", "queueAsked", "create", "push", "done"}
DecStates == {"idle", "reading", "scored", "resetting", "panicked"}

IdleFb == [pc |-> "new", gw |-> CHOOSE g \in Gateways : TRUE, out |-> 1,
           size |-> CHOOSE b \in Sizes : TRUE, queueSeen |-> FALSE]

\* A decision that has read no score yet.
Decision(pc, size) ==
  [pc |-> pc, size |-> size, read |-> [g \in Gateways |-> NoScore],
   todo |-> {}, zeros |-> 0]

IdleDec == Decision("idle", CHOOSE b \in Sizes : TRUE)

Init ==
  /\ queue = [g \in Gateways |-> <<>>]
  /\ score = [g \in Gateways |-> NoKey]
  /\ bucket \in Sizes
  /\ fb = [t \in Feedbacks |-> IdleFb]
  /\ dec = [d \in Deciders |-> IdleDec]
  /\ cache = [e \in Gateways \X Sizes |-> NoScore]
  /\ flush = {}
  /\ hist = [g \in Gateways |-> <<>>]
  /\ pushed = [g \in Gateways |-> 0]
  /\ blamed = {}
  /\ misled = {}

\* Tasks, other than those in except, that asked about g and have not yet
\* acted on the answer.
Waiting(g, except) ==
  {u \in Feedbacks \ except :
     fb[u].gw = g /\ fb[u].pc \in {"queueAsked", "create"}}

\* DEL, LPUSH list, SET score: one MULTI block.
CreateMovingWindowAndScore(g, list, n) ==
  /\ queue' = [queue EXCEPT ![g] = list]
  /\ score' = [score EXCEPT ![g] = n]
  /\ hist' = [hist EXCEPT ![g] = list]
  /\ pushed' = [pushed EXCEPT ![g] = 0]

-----------------------------------------------------------------------------
(* Feedback tasks.                                                         *)

\* update_sr_v3_score: the gateway is known, its bucket size is resolved once.
StartFeedback(t) ==
  /\ fb[t].pc = "new"
  /\ \/ fb' = [fb EXCEPT ![t].pc = "done"]      \* no gateway on the transaction
     \/ \E g \in Gateways, v \in Outcomes :
          fb' = [fb EXCEPT ![t] = [pc |-> "sized", gw |-> g, out |-> v,
                                   size |-> bucket, queueSeen |-> FALSE]]
  /\ UNCHANGED <<queue, score, bucket, dec, cache, flush, hist, pushed,
                 blamed, misled>>

\* An EXISTS that fails is answered FALSE.
Exists(present, answer) ==
  \/ answer = present
  \/ RedisFaults /\ answer = FALSE

AskQueue(t) ==
  /\ fb[t].pc = "sized"
  /\ \E a \in BOOLEAN :
       /\ Exists(queue[fb[t].gw] # <<>>, a)
       /\ fb' = [fb EXCEPT ![t].pc = "queueAsked", ![t].queueSeen = a]
       /\ misled' = IF a = (queue[fb[t].gw] # <<>>)
                      THEN misled ELSE misled \cup {t}
  /\ UNCHANGED <<queue, score, bucket, dec, cache, flush, hist, pushed, blamed>>

\* Mutant: the second answer negated.
NeedsCreateNegated(queueSeen, scoreSeen) == ~(queueSeen /\ ~scoreSeen)

NeedsCreate(queueSeen, scoreSeen) == ~(queueSeen /\ scoreSeen)

AskScore(t) ==
  /\ fb[t].pc = "queueAsked"
  /\ \E a \in BOOLEAN :
       /\ Exists(score[fb[t].gw] # NoKey, a)
       /\ fb' = [fb EXCEPT ![t].pc = IF NeedsCreate(fb[t].queueSeen, a)
                                       THEN "create" ELSE "push"]
       /\ misled' = IF a = (score[fb[t].gw] # NoKey)
                      THEN misled ELSE misled \cup {t}
  /\ UNCHANGED <<queue, score, bucket, dec, cache, flush, hist, pushed, blamed>>

\* A fresh window is all successes, as long as the bucket.
CreateKeys(t) ==
  /\ fb[t].pc = "create"
  /\ fb' = [fb EXCEPT ![t].pc = "push"]
  /\ \/ /\ CreateMovingWindowAndScore(fb[t].gw, Ones(fb[t].size), fb[t].size)
        /\ misled' = misled \cup Waiting(fb[t].gw, {t})
     \/ /\ RedisFaults
        /\ UNCHANGED <<queue, score, hist, pushed, misled>>
  /\ UNCHANGED <<bucket, dec, cache, flush, blamed>>

\* LPUSH and LTRIM in one MULTI block.  The score key is left as it is.
UpdateQueue(t) ==
  /\ fb[t].pc = "push"
  /\ fb' = [fb EXCEPT ![t].pc = "done"]
  /\ LET g == fb[t].gw IN
       \/ /\ queue' = [queue EXCEPT ![g] = PushTrim(fb[t].out, @, fb[t].size)]
          /\ hist' = [hist EXCEPT ![g] = <<fb[t].out>> \o @]
          /\ pushed' = [pushed EXCEPT ![g] = @ + 1]
          /\ blamed' = IF fb[t].out = 0 THEN blamed \cup {g} ELSE blamed
          /\ misled' = misled \cup Waiting(g, {t})
       \/ /\ RedisFaults
          /\ UNCHANGED <<queue, hist, pushed, blamed, misled>>
  /\ UNCHANGED <<score, bucket, dec, cache, flush>>

-----------------------------------------------------------------------------
(* Deciders.                                                               *)

StartDecision(d) ==
  /\ dec[d].pc = "idle"
  /\ dec' = [dec EXCEPT ![d] = Decision("reading", bucket)]
  /\ UNCHANGED <<queue, score, bucket, fb, cache, flush, hist, pushed, blamed,
                 misled>>

\* A hit in the cache, or a read of Redis that fills the cache.  On lock
\* contention the lookup misses and the store is skipped.
ReadScore(d, g) ==
  /\ dec[d].pc = "reading"
  /\ dec[d].read[g] = NoScore
  /\ LET e == <<g, dec[d].size>> IN
     \/ /\ cache[e] # NoScore
        /\ dec' = [dec EXCEPT ![d].read[g] = cache[e]]
        /\ UNCHANGED cache
     \/ \E fresh \in ScoresFromRedis(g, dec[d].size) :
          /\ dec' = [dec EXCEPT ![d].read[g] = fresh]
          /\ cache' \in {cache, [cache EXCEPT ![e] = fresh]}
  /\ UNCHANGED <<queue, score, bucket, fb, flush, hist, pushed, blamed, misled>>

AllRead(d) == \A g \in Gateways : dec[d].read[g] # NoScore

\* Gateways that score below the threshold max - upper * sigma.  The factor
\* is not negative, so the threshold is some value not above the best score.
Lagging(d, set) ==
  /\ \A g \in set, h \in Gateways \ set : Less(dec[d].read[g], dec[d].read[h])
  /\ set # Gateways

\* number_of_zeros, clamped to 2..bucket size.
ZeroCounts(b) == 2..b

\* reset_sr_v3_score up to its first write.  The clamp panics when the bucket
\* holds one entry.
ChooseReset(d, enabled) ==
  /\ dec[d].pc = "reading" /\ AllRead(d)
  /\ \/ ~enabled /\ dec' = [dec EXCEPT ![d] = IdleDec]
     \/ enabled /\ dec[d].size < 2 /\ dec' = [dec EXCEPT ![d].pc = "panicked"]
     \/ /\ enabled /\ dec[d].size >= 2
        /\ \E set \in SUBSET Gateways, z \in ZeroCounts(dec[d].size) :
             /\ Lagging(d, set)
             /\ dec' = IF set = {} THEN [dec EXCEPT ![d] = IdleDec]
                       ELSE [dec EXCEPT ![d].pc = "resetting",
                                        ![d].todo = set, ![d].zeros = z]
  /\ UNCHANGED <<queue, score, bucket, fb, cache, flush, hist, pushed, blamed,
                 misled>>

\* reset_gateway_for_sr_v3: one MULTI block per lagging gateway.
ResetGateway(d, g) ==
  /\ dec[d].pc = "resetting" /\ g \in dec[d].todo
  /\ dec' = IF dec[d].todo = {g} THEN [dec EXCEPT ![d] = IdleDec]
            ELSE [dec EXCEPT ![d].todo = @ \ {g}]
  /\ \/ /\ CreateMovingWindowAndScore(g, ResetList(dec[d].size, dec[d].zeros),
                                      dec[d].size - dec[d].zeros)
        /\ blamed' = blamed \cup {g}
        /\ misled' = misled \cup Waiting(g, {})
     \/ /\ RedisFaults
        /\ UNCHANGED <<queue, score, hist, pushed, blamed, misled>>
  /\ UNCHANGED <<bucket, fb, cache, flush>>

\* The request task that panicked is dropped; the next request is a new task.
DropPanicked(d) ==
  /\ dec[d].pc = "panicked"
  /\ dec' = [dec EXCEPT ![d] = IdleDec]
  /\ UNCHANGED <<queue, score, bucket, fb, cache, flush, hist, pushed, blamed,
                 misled>>

CacheExpire(g, b) ==
  /\ cache[<<g, b>>] # NoScore
  /\ cache' = [cache EXCEPT ![<<g, b>>] = NoScore]
  /\ UNCHANGED <<queue, score, bucket, fb, dec, flush, hist, pushed, blamed,
                 misled>>

-----------------------------------------------------------------------------
(* Configuration and the operator.                                         *)

\* Auto-calibration or the merchant writes another bucket size.
Resize(b) ==
  /\ b # bucket
  /\ bucket' = b
  /\ UNCHANGED <<queue, score, fb, dec, cache, flush, hist, pushed, blamed,
                 misled>>

\* reset_gateway_scores: SCAN finds the keys, DEL removes them one by one.
StartFlush ==
  /\ flush = {}
  /\ flush' = {<<g, "queue">> : g \in {h \in Gateways : queue[h] # <<>>}}
              \cup {<<g, "score">> : g \in {h \in Gateways : score[h] # NoKey}}
  /\ flush' # {}
  /\ UNCHANGED <<queue, score, bucket, fb, dec, cache, hist, pushed, blamed,
                 misled>>

FlushKey(g, kind) ==
  /\ <<g, kind>> \in flush
  /\ flush' = flush \ {<<g, kind>>}
  /\ IF kind = "queue"
       THEN /\ queue' = [queue EXCEPT ![g] = <<>>]
            /\ hist' = [hist EXCEPT ![g] = <<>>]
            /\ pushed' = [pushed EXCEPT ![g] = 0]
            /\ UNCHANGED score
       ELSE /\ score' = [score EXCEPT ![g] = NoKey]
            /\ UNCHANGED <<queue, hist, pushed>>
  /\ misled' = misled \cup Waiting(g, {})
  /\ UNCHANGED <<bucket, fb, dec, cache, blamed>>

-----------------------------------------------------------------------------
FeedbackStep(t) ==
  StartFeedback(t) \/ AskQueue(t) \/ AskScore(t) \/ CreateKeys(t)
  \/ UpdateQueue(t)

DeciderStep(d) ==
  \/ StartDecision(d)
  \/ \E g \in Gateways : ReadScore(d, g) \/ ResetGateway(d, g)
  \/ \E enabled \in BOOLEAN : ChooseReset(d, enabled)
  \/ DropPanicked(d)

Next ==
  \/ \E t \in Feedbacks : FeedbackStep(t)
  \/ \E d \in Deciders : DeciderStep(d)
  \/ \E g \in Gateways, b \in Sizes : CacheExpire(g, b)
  \/ \E b \in Sizes : Resize(b)
  \/ StartFlush
  \/ \E g \in Gateways, kind \in {"queue", "score"} : FlushKey(g, kind)

Spec == Init /\ [][Next]_vars

-----------------------------------------------------------------------------
(* Properties.                                                             *)

FbRecord == [pc : FbStates, gw : Gateways, out : Outcomes, size : Sizes,
             queueSeen : BOOLEAN]
DecRecord == [pc : DecStates, size : Sizes, read : [Gateways -> Score],
              todo : SUBSET Gateways, zeros : Nat]

\* Every variable keeps its type: the keys hold what the commands can write.
TypeOK ==
  /\ queue \in [Gateways -> Seq(Outcomes)]
  /\ score \in [Gateways -> Nat \cup {NoKey}]
  /\ bucket \in Sizes
  /\ fb \in [Feedbacks -> FbRecord]
  /\ dec \in [Deciders -> DecRecord]
  /\ \A d \in Deciders : dec[d].zeros <= dec[d].size
  /\ cache \in [Gateways \X Sizes -> Score]
  /\ flush \subseteq Gateways \X {"queue", "score"}
  /\ hist \in [Gateways -> Seq(Outcomes)]
  /\ pushed \in [Gateways -> Nat]
  /\ blamed \subseteq Gateways
  /\ misled \subseteq Feedbacks

\* A list q that is the newest part of a history h, and holds no less than
\* the smallest configured bucket while h has that much.
NewestPart(q, h) ==
  /\ Len(q) <= Len(h)
  /\ \A i \in 1..Len(q) : q[i] = h[i]
  /\ \A s \in Sizes : (\A b \in Sizes : s <= b) => Len(q) >= MinOf(s, Len(h))

\* The list is always the newest part of what was written since the window
\* was created, whatever sizes the concurrent tasks trimmed it to, and it
\* never holds less than the smallest configured bucket (updateQueue).
WindowIsNewest == \A g \in Gateways : NewestPart(queue[g], hist[g])

\* A gateway is scored below 1 by its list only when a failure was recorded
\* for it or a decider reset it: creating, resizing, flushing and racing
\* tasks never penalise it (createKeysIfNotExist seeds only successes).
ScoreExplained ==
  \A g \in Gateways \ blamed : \A i \in 1..Len(queue[g]) : queue[g][i] = 1

\* Until the first outcome arrives the list and the cold-start score key
\* agree: the zeros reset_sr_v3_score spreads over the list are the
\* number_of_zeros it subtracted from the bucket size, or one less where the
\* spacing does not survive the arithmetic in doubles.
ListMatchesScoreKey ==
  \A g \in Gateways :
    pushed[g] = 0 /\ queue[g] # <<>> /\ score[g] # NoKey
      => LET successes == Successes(queue[g], Len(queue[g]))
             zeros == Len(queue[g]) - score[g]
         IN successes = IF <<Len(queue[g]), zeros>> \in LostZeros
                          THEN score[g] + 1 ELSE score[g]

\* A feedback task replaces a window that has both its keys only when another
\* actor, or a failed EXISTS, falsified the answers it acts on
\* (createKeysIfNotExist).
WipeOnlyWhenMisled ==
  [][\A t \in Feedbacks :
       CreateKeys(t) /\ queue[fb[t].gw] # <<>> /\ score[fb[t].gw] # NoKey
         => t \in misled \/ UNCHANGED queue]_vars

\* The keys keep the contract readers rely on, however creation, pushes,
\* resets, resizes and flushes interleave (createKeysIfNotExist, updateQueue,
\* reset_gateway_for_sr_v3, reset_gateway_scores).
Contract == INSTANCE SrContract WITH
              Gateways <- Gateways, Sizes <- Sizes,
              queue <- queue, hist <- hist, blamed <- blamed
KeepsContract == Contract!Spec

=============================================================================
