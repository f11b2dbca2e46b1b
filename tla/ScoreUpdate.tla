---------------------------- MODULE ScoreUpdate -----------------------------
(***************************************************************************)
(* POST /update-gateway-score for one payment.  The connector's webhooks   *)
(* are delivered in any order and more than once; the handler answers at   *)
(* once and leaves the work to a tracked task.  The task classifies the    *)
(* outcome, takes a lock of its own class (SET NX), and feeds the SR       *)
(* window (module SrWindow) and, through further untracked tasks, the      *)
(* elimination keys.  The scoring data the decider stored for the payment  *)
(* may expire at any step; the server may be told to stop at any step.     *)
(***************************************************************************)
EXTENDS Integers, FiniteSets

CONSTANTS Deliveries,  \* calls for the payment
          Gateways,    \* gateways the payment was tried on
          Statuses,    \* outcomes the connector may report
          ElimKeys,    \* elimination keys a gateway may have
          LockEnabled, \* UpdateScoreLockFeatureEnabledMerchant
          Faults,      \* Redis and the merchant table may fail
          MayStop      \* the server may receive SIGTERM

ASSUME SwitchesAssumption ==
  LockEnabled \in BOOLEAN /\ Faults \in BOOLEAN /\ MayStop \in BOOLEAN
ASSUME SomeGateway == Gateways # {}
ASSUME StatusesAssumption ==
  Statuses \subseteq {"success", "failure", "pending", "other"} /\ Statuses # {}

VARIABLES data,     \* GatewayScoringData is in Redis
          overdue,  \* the SR v3 latency threshold has passed
          locks,    \* gateway_scores_lock keys present in Redis
          task,     \* the tracked task of each delivery
          detached, \* elimination updates spawned and not yet run
          server,   \* "up", "draining" or "stopped"
          written,  \* ghost: SR entries written, with the key they went to
          expired,  \* ghost: lock keys whose TTL ran out
          winners,  \* ghost: deliveries each lock key let through
          errored   \* ghost: lock keys set under an answer that was lost

vars == <<data, overdue, locks, task, detached, server, written, expired,
          winners, errored>>

Types == {"Reward", "Penalise", "PenaliseSrv3"}
LockKeys == Types \X Gateways

PcStates == {"idle", "spawned", "fetch", "classify", "lock", "load", "read",
             "sr", "eliminate", "done", "skipped", "rejected", "panicked",
             "dropped"}
Ended == {"done", "skipped", "rejected", "panicked", "dropped"}

\* A call with its payload, nothing decided about it yet.
Call(pc, s, g, e) ==
  [pc |-> pc, status |-> s, gw |-> g, enforce |-> e, type |-> "Penalise",
   seen |-> FALSE, counts |-> FALSE, open |-> FALSE]

IdleTask == Call("idle", CHOOSE s \in Statuses : TRUE,
                 CHOOSE g \in Gateways : TRUE, FALSE)

Init ==
  /\ data = TRUE
  /\ overdue = FALSE
  /\ locks = {}
  /\ task = [d \in Deliveries |-> IdleTask]
  /\ detached = {}
  /\ server = "up"
  /\ written = {}
  /\ expired = {}
  /\ winners = [k \in LockKeys |-> {}]
  /\ errored = {}

LockKey(d) == <<task[d].type, task[d].gw>>

\* get_gateway_scoring_type: enforce_dynamic_routing_failure comes first.
ScoringType(status, enforce, late) ==
  IF enforce THEN "PenaliseSrv3"
  ELSE CASE status = "success" -> "Reward"
         [] status = "failure" -> "PenaliseSrv3"
         [] OTHER -> IF late THEN "PenaliseSrv3" ELSE "Penalise"

\* should_update_srv3_gateway_score and should_update_gateway_score.
FeedsSr(type) == type # "Penalise"
FeedsElimination(type, status) ==
  type = "Reward" \/ (type = "Penalise" /\ status = "pending")

\* The process executes requests and tasks until it has stopped.
Running == server # "stopped"

Goto(d, pc) == task' = [task EXCEPT ![d].pc = pc]

\* What a task found out ends with it.
Over(t, pc) == [t EXCEPT !.pc = pc, !.seen = FALSE, !.counts = FALSE, !.open = FALSE]

-----------------------------------------------------------------------------
(* The handler and its tracked task.                                       *)

Receive(d) ==
  /\ server = "up"
  /\ task[d].pc = "idle"
  /\ \E s \in Statuses, g \in Gateways, e \in BOOLEAN :
       task' = [task EXCEPT ![d] = Call("spawned", s, g, e)]
  /\ UNCHANGED <<data, overdue, locks, detached, server, written, expired, winners, errored>>

\* The GSM filter ends the task when the failure is the payer's or issuer's.
GsmFilter(d) ==
  /\ Running /\ task[d].pc = "spawned"
  /\ Goto(d, "skipped") \/ Goto(d, "fetch")
  /\ UNCHANGED <<data, overdue, locks, detached, server, written, expired, winners, errored>>

\* Mutant: the lock is taken before the scoring data is looked up.
FetchScoringDataLocked(d) ==
  /\ Running /\ task[d].pc = "fetch"
  /\ \/ data /\ Goto(d, "classify")
     \/ (~data \/ Faults) /\ Goto(d, "rejected")
  /\ locks' = locks \cup {LockKey(d)}
  /\ UNCHANGED <<data, overdue, detached, server, written, expired, winners, errored>>

\* Without scoring data the call fails, before any lock is taken.
FetchScoringData(d) ==
  /\ Running /\ task[d].pc = "fetch"
  /\ \/ data /\ Goto(d, "classify")
     \/ (~data \/ Faults) /\ Goto(d, "rejected")
  /\ UNCHANGED <<data, overdue, locks, detached, server, written, expired, winners, errored>>

Classify(d) ==
  /\ Running /\ task[d].pc = "classify"
  /\ task' = [task EXCEPT ![d].pc = "lock",
                ![d].type = ScoringType(task[d].status, task[d].enforce, overdue)]
  /\ UNCHANGED <<data, overdue, locks, detached, server, written, expired, winners, errored>>

\* Mutants: the answer of SET NX is not consulted, or is inverted.
MayUpdateAlways(acquired) == TRUE
MayUpdateInverted(acquired) == LockEnabled => ~acquired

\* The lock is taken in any case and honoured when the feature is on.
MayUpdate(acquired) == LockEnabled => acquired

\* SET NX; an error, also one after the server applied it, counts as held.
TakeLock(d) ==
  /\ Running /\ task[d].pc = "lock"
  /\ \E acquired \in BOOLEAN :
       /\ \/ /\ acquired = (LockKey(d) \notin locks)
             /\ locks' = locks \cup {LockKey(d)} /\ UNCHANGED errored
          \/ /\ Faults /\ ~acquired
             /\ \/ UNCHANGED <<locks, errored>>
                \/ /\ locks' = locks \cup {LockKey(d)}
                   /\ errored' = errored \cup {LockKey(d)}
       /\ Goto(d, IF MayUpdate(acquired) THEN "load" ELSE "skipped")
       /\ winners' = IF MayUpdate(acquired)
                       THEN [winners EXCEPT ![LockKey(d)] = @ \cup {d}] ELSE winners
  /\ UNCHANGED <<data, overdue, detached, server, written, expired>>

\* The merchant must be found; the two producer switches are evaluated.
LoadMerchant(d) ==
  /\ Running /\ task[d].pc = "load"
  /\ \/ \E c \in BOOLEAN :
          task' = [task EXCEPT ![d].pc = "read",
                               ![d].counts = c /\ FeedsSr(task[d].type)]
     \/ Faults /\ Goto(d, "panicked")
  /\ UNCHANGED <<data, overdue, locks, detached, server, written, expired, winners, errored>>

\* The scoring data is read for elimination; then the latency window is
\* evaluated, which admits every Penalise.
ReadForElimination(d) ==
  /\ Running /\ task[d].pc = "read"
  /\ \E w \in BOOLEAN, s \in {data, data /\ ~Faults} :
       /\ task[d].type = "Penalise" => w
       /\ task' = [task EXCEPT ![d].pc = "sr", ![d].open = w,
              ![d].seen = s /\ FeedsElimination(task[d].type, task[d].status)]
  /\ UNCHANGED <<data, overdue, locks, detached, server, written, expired, winners, errored>>

SrAdmits(counts, open) == counts /\ open

\* The data is read again; without it the entry goes to the key of no gateway.
FeedSr(d) ==
  /\ Running /\ task[d].pc = "sr"
  /\ Goto(d, "eliminate")
  /\ IF SrAdmits(task[d].counts, task[d].open)
       THEN \E keyed \in {data, data /\ ~Faults} :
              written' = written \cup
                {[from |-> d, type |-> task[d].type, gw |-> task[d].gw,
                  keyed |-> keyed]}
       ELSE UNCHANGED written
  /\ UNCHANGED <<data, overdue, locks, detached, server, expired, winners, errored>>

\* Mutant: the task waits for another delivery to finish first.
SpawnEliminationWaits(d) ==
  /\ Running /\ task[d].pc = "eliminate"
  /\ \E e \in Deliveries \ {d} : task[e].pc \in Ended
  /\ Goto(d, "done")
  /\ UNCHANGED <<data, overdue, locks, detached, server, written, expired, winners, errored>>

\* One untracked task per elimination key; a last read stands in for data
\* that was not there before.
SpawnElimination(d) ==
  /\ Running /\ task[d].pc = "eliminate"
  /\ task' = [task EXCEPT ![d] = Over(task[d], "done")]
  /\ IF task[d].open /\ FeedsElimination(task[d].type, task[d].status)
          /\ (task[d].seen \/ data)
       THEN \E ks \in SUBSET ElimKeys : detached' = detached \cup ({d} \X ks)
       ELSE UNCHANGED detached
  /\ UNCHANGED <<data, overdue, locks, server, written, expired, winners, errored>>

\* updateKeyScoreForKeysFromConsumer of one key.
EliminationUpdate(d, k) ==
  /\ Running
  /\ <<d, k>> \in detached
  /\ detached' = detached \ {<<d, k>>}
  /\ UNCHANGED <<data, overdue, locks, task, server, written, expired, winners, errored>>

-----------------------------------------------------------------------------
(* Time, expiry and shutdown.                                              *)

PassThreshold ==
  /\ ~overdue /\ overdue' = TRUE
  /\ UNCHANGED <<data, locks, task, detached, server, written, expired, winners, errored>>

ExpireData ==
  /\ data /\ data' = FALSE
  /\ UNCHANGED <<overdue, locks, task, detached, server, written, expired, winners, errored>>

ExpireLock(k) ==
  /\ k \in locks
  /\ locks' = locks \ {k}
  /\ expired' = expired \cup {k}
  /\ UNCHANGED <<data, overdue, task, detached, server, written, winners, errored>>

Sigterm ==
  /\ MayStop /\ server = "up"
  /\ server' = "draining"
  /\ UNCHANGED <<data, overdue, locks, task, detached, written, expired, winners, errored>>

Drained == \A d \in Deliveries : task[d].pc \in Ended \cup {"idle"}

\* The tracker is empty, or five seconds have passed: the process exits and
\* what still runs is dropped.
Exit(clean) ==
  /\ server = "draining"
  /\ clean => Drained
  /\ server' = "stopped"
  /\ task' = [d \in Deliveries |->
                IF task[d].pc \in Ended \cup {"idle"} THEN task[d]
                ELSE Over(task[d], "dropped")]
  /\ detached' = {}
  /\ UNCHANGED <<data, overdue, locks, written, expired, winners, errored>>

\* The next instance of the process; Redis kept the locks.
Restart ==
  /\ server = "stopped" /\ server' = "up"
  /\ UNCHANGED <<data, overdue, locks, task, detached, written, expired, winners, errored>>

-----------------------------------------------------------------------------
TaskStep(d) ==
  \/ GsmFilter(d) \/ FetchScoringData(d) \/ Classify(d) \/ TakeLock(d)
  \/ LoadMerchant(d) \/ ReadForElimination(d) \/ FeedSr(d)
  \/ SpawnElimination(d)

Environment ==
  \/ PassThreshold \/ ExpireData \/ Sigterm \/ Restart
  \/ \E k \in LockKeys : ExpireLock(k)
  \/ \E clean \in BOOLEAN : Exit(clean)

Next ==
  \/ \E d \in Deliveries : Receive(d) \/ TaskStep(d)
  \/ \E d \in Deliveries, k \in ElimKeys : EliminationUpdate(d, k)
  \/ Environment

\* The executor polls every spawned task; the shutdown sequence proceeds.
Fairness ==
  /\ \A d \in Deliveries : WF_vars(TaskStep(d))
  /\ \A d \in Deliveries, k \in ElimKeys : WF_vars(EliminationUpdate(d, k))
  /\ WF_vars(\E clean \in BOOLEAN : Exit(clean))

Spec == Init /\ [][Next]_vars
FairSpec == Spec /\ Fairness

-----------------------------------------------------------------------------
(* Properties.                                                             *)

TaskRecord == [pc : PcStates, status : Statuses, gw : Gateways,
               enforce : BOOLEAN, type : Types, seen : BOOLEAN,
               counts : BOOLEAN, open : BOOLEAN]

\* Every variable keeps its type.
TypeOK ==
  /\ data \in BOOLEAN /\ overdue \in BOOLEAN
  /\ locks \subseteq LockKeys
  /\ task \in [Deliveries -> TaskRecord]
  /\ detached \subseteq Deliveries \X ElimKeys
  /\ server \in {"up", "draining", "stopped"}
  /\ written \subseteq [from : Deliveries, type : Types, gw : Gateways,
                        keyed : BOOLEAN]
  /\ expired \subseteq LockKeys
  /\ winners \in [LockKeys -> SUBSET Deliveries]
  /\ errored \subseteq LockKeys

\* However often an outcome is delivered, and however the deliveries
\* interleave, the SR window takes one entry per class and gateway, unless
\* the lock's TTL ran out (check_and_update_gateway_score).
OneEntryPerClass ==
  LockEnabled =>
    \A w, x \in written :
      w.type = x.type /\ w.gw = x.gw /\ <<w.type, w.gw>> \notin expired
        => w.from = x.from

\* A lock key stands for a delivery that found the scoring data and was
\* classified: a call answered "GatewayScoringData is not found" leaves the
\* outcome free to be delivered again (check_and_update_gateway_score_).
LockMeansClassified ==
  \A k \in locks : \E d \in Deliveries :
    LockKey(d) = k /\ task[d].pc \notin {"idle", "spawned", "fetch", "classify",
                                         "lock", "rejected"}

\* Every accepted call is seen through to an end.
Settles == \A d \in Deliveries :
             task[d].pc = "spawned" ~> task[d].pc \in Ended

\* A lock keeps other deliveries of its class out for one that comes to an end past
\* it, finished unless it panicked or was stopped.  Only a SET NX whose answer was
\* lost leaves a lock that nobody holds (check_and_update_gateway_score).
HolderFinishes ==
  \A k \in LockKeys :
    k \in locks ~> \/ k \in errored
                  \/ \E d \in winners[k] :
                       task[d].pc \in {"done", "panicked", "dropped"}

\* When the drain reports that all feedback tasks ended, no update is lost.
CleanDrainLosesNothing ==
  [][Exit(TRUE) => detached = {}]_vars

=============================================================================
