----------------------------- MODULE SrContract -----------------------------
(***************************************************************************)
(* What the success-rate window of a gateway promises to its readers, with *)
(* no task, cache, bucket or Redis command in sight: a window opens full   *)
(* of successes, takes outcomes one at a time, shows only the newest part  *)
(* of what it took, is penalised deliberately, and is forgotten whole.     *)
(***************************************************************************)
EXTENDS Integers, Sequences

CONSTANTS Gateways, Sizes

VARIABLES queue,   \* the visible window of each gateway
          hist,    \* everything it took since it was opened, newest first
          blamed   \* gateways that had a failure, or were penalised

Outcomes == {0, 1}

Init ==
  /\ queue = [g \in Gateways |-> <<>>]
  /\ hist = [g \in Gateways |-> <<>>]
  /\ blamed = {}

Install(g, list) ==
  /\ queue' = [queue EXCEPT ![g] = list]
  /\ hist' = [hist EXCEPT ![g] = list]

Open(g, n) == Install(g, [i \in 1..n |-> 1]) /\ UNCHANGED blamed

Record(g, v) ==
  /\ hist' = [hist EXCEPT ![g] = <<v>> \o @]
  /\ \E n \in 1..(Len(queue[g]) + 1) :
       queue' = [queue EXCEPT ![g] = SubSeq(<<v>> \o hist[g], 1, n)]
  /\ blamed' = IF v = 0 THEN blamed \cup {g} ELSE blamed

Penalise(g, n) ==
  /\ queue'[g] \in [1..n -> Outcomes]
  /\ Install(g, queue'[g])
  /\ blamed' = blamed \cup {g}

Forget(g) == Install(g, <<>>) /\ UNCHANGED blamed

Next ==
  \E g \in Gateways :
    \/ \E n \in Sizes : Open(g, n) \/ Penalise(g, n)
    \/ \E v \in Outcomes : Record(g, v)
    \/ Forget(g)

Spec == Init /\ [][Next]_<<queue, hist, blamed>>

=============================================================================
