---------------------------- MODULE ServiceConfig ----------------------------
(***************************************************************************)
(* One name of the service_configuration table, SR_V3_INPUT_CONFIG_<mid>,  *)
(* and its two caches: Redis, which all processes share, and a map in the  *)
(* memory of each.  Operators create, replace and delete the configuration;*)
(* the auto-calibration of every replica and the hard refresh read it,     *)
(* change the entries the calibrator owns, and write the whole of it back. *)
(* The name is no key of the table: two inserts leave two rows.            *)
(***************************************************************************)
EXTENDS Integers, FiniteSets

CONSTANTS Segments,      \* clusters of payments an entry may be for
          Drafts,        \* the entries operators may write
          Edits,         \* requests of operators
          Tuners,        \* turns of the replicas at the merchant in one interval of
                         \* the calibration, or hard refreshes
          Nodes,         \* processes that look the configuration up
          NodeOf,        \* the process an edit or tuner runs in
          Earlier,       \* stands for the operators before all this
          Nobody,        \* no operator: the document a calibration began
          Nothing,       \* the empty string in a cache: no such configuration
          Faults         \* Redis or a statement may fail, a request be dropped

Actors == Edits \cup Tuners
Authors == Edits \cup {Earlier, Nobody}

ASSUME ActorsAssumption ==
  /\ Edits \cap Tuners = {}
  /\ Earlier \notin Actors /\ Nobody \notin Actors /\ Earlier # Nobody
  /\ Faults \in BOOLEAN

\* A document: its defaults, and whose entry there is for each cluster.
Owners == {"none", "human", "auto"}
Values == [op : Authors, entry : [Segments -> Owners]]

ASSUME NothingAssumption == Nothing \notin Values
ASSUME DraftsAssumption == Drafts \subseteq [Segments -> Owners]

VARIABLES rows,    \* the rows of the name, known by who inserted them
          redis,   \* the shared cache: empty or one value
          mem,     \* the cache of each process
          lock,    \* the calibration lock of the interval
          act,     \* the actors
          look,    \* the lookup of each process
          misled,  \* ghost: actors whose read failed or is out of date
          doubled  \* ghost: a misled actor inserted a row

table == <<rows, misled, doubled>>
caches == <<redis, mem>>
vars == <<rows, redis, mem, lock, act, look, misled, doubled>>

Cached == Values \cup {Nothing}
Rows == [by : Actors \cup {Earlier}, val : Values]
NoEntries == [s \in Segments |-> "none"]
Idle == [pc |-> "idle", val |-> Nothing]

Init ==
  /\ \/ rows = {}
     \/ \E f \in [Segments -> {"none", "human"}] :
          rows = {[by |-> Earlier, val |-> [op |-> Earlier, entry |-> f]]}
  /\ redis = {}
  /\ mem = [n \in Nodes |-> {}]
  /\ lock = FALSE
  /\ act = [a \in Actors |-> Idle]
  /\ look = [n \in Nodes |-> Idle]
  /\ misled = {}
  /\ doubled = FALSE

-----------------------------------------------------------------------------
(* Writing the table and the caches.                                       *)

Goto(a, pc) == act' = [act EXCEPT ![a].pc = pc]
Finish(a) == act' = [act EXCEPT ![a] = [Idle EXCEPT !.pc = "done"]]
Prepare(a, pc, v) == act' = [act EXCEPT ![a] = [pc |-> pc, val |-> v]]
Stored == {r.val : r \in rows}

\* Whoever has read the rows and is still to write them.
Reading == {a \in Actors : act[a].pc \in {"insert", "update"}}
Change(a) == misled' = misled \cup (Reading \ {a})

\* UPDATE ... WHERE name: every row of it; without one the statement is an error.
Overwrite(a, v) ==
  IF rows = {} THEN Finish(a) /\ UNCHANGED <<rows, misled>>
  ELSE /\ rows' = {[r EXCEPT !.val = v] : r \in rows}
       /\ Prepare(a, "redis", v) /\ Change(a)

Insert(a) ==
  /\ act[a].pc = "insert"
  /\ rows' = rows \cup {[by |-> a, val |-> act[a].val]}
  /\ doubled' = (doubled \/ a \in misled)
  /\ Goto(a, "redis") /\ Change(a)
  /\ UNCHANGED <<caches, lock, look>>

Update(a) ==
  /\ act[a].pc = "update"
  /\ Overwrite(a, act[a].val)
  /\ UNCHANGED <<caches, lock, look, doubled>>

\* write_through_service_config and evict_service_config: Redis, where a failure is
\* logged, then the memory of this process.
PutRedis(a) ==
  /\ act[a].pc = "redis"
  /\ redis' = {act[a].val} \/ (Faults /\ UNCHANGED redis)
  /\ Goto(a, "memory")
  /\ UNCHANGED <<table, mem, lock, look>>

PutMemory(a) ==
  /\ act[a].pc = "memory"
  /\ mem' = [n \in Nodes |-> IF n = NodeOf[a] THEN {act[a].val} ELSE mem[n]]
  /\ Finish(a)
  /\ UNCHANGED <<table, redis, lock, look>>

\* A statement fails, or the request is dropped, or the replica stops.
Abandon(a) ==
  /\ Faults /\ act[a].pc \notin {"idle", "done"}
  /\ Finish(a)
  /\ UNCHANGED <<table, caches, lock, look>>

-----------------------------------------------------------------------------
(* Operators.  A document may carry entries of the calibrator, as it was    *)
(* fetched.                                                                *)

Document(e, f) == [op |-> e, entry |-> f]

\* Mutant: created without a look.
CreateBlind(e) ==
  /\ act[e].pc = "idle"
  /\ \E f \in Drafts : Prepare(e, "insert", Document(e, f))
  /\ UNCHANGED <<table, caches, lock, look>>

\* create_rule_config: refused when there is a row.
Create(e) ==
  /\ act[e].pc = "idle"
  /\ IF rows = {}
       THEN \E f \in Drafts : Prepare(e, "insert", Document(e, f))
       ELSE Finish(e)
  /\ UNCHANGED <<table, caches, lock, look>>

\* update_rule_config.
Replace(e) ==
  /\ act[e].pc = "idle"
  /\ \E f \in Drafts : Overwrite(e, Document(e, f))
  /\ UNCHANGED <<caches, lock, look, doubled>>

\* delete_rule_config; it fails when there is nothing to delete.
Delete(e) ==
  /\ act[e].pc = "idle"
  /\ IF rows = {} THEN Finish(e) /\ UNCHANGED misled
     ELSE Prepare(e, "redis", Nothing) /\ Change(e)
  /\ rows' = {}
  /\ UNCHANGED <<caches, lock, look, doubled>>

Edit(e) == Create(e) \/ Replace(e) \/ Delete(e)

-----------------------------------------------------------------------------
(* Calibration and hard refresh.                                           *)

\* SET NX of the interval; without an answer the calibration goes on.
TakeLock(k) ==
  /\ act[k].pc = "idle"
  /\ \/ lock' = TRUE /\ (IF lock THEN Finish(k) ELSE Goto(k, "read"))
     \/ Faults /\ Goto(k, "read") /\ UNCHANGED lock
  /\ UNCHANGED <<table, caches, look>>

\* Mutant: every entry of a cluster with traffic is taken for the calibrator's own.
ManagedAll(f, busy) == busy

\* Entries of a human are left alone.
Managed(f, busy) == {s \in busy : f[s] # "human"}

Tuned(f, busy) ==
  [s \in Segments |-> IF s \in Managed(f, busy) THEN "auto" ELSE f[s]]

\* The document read, tuned for the clusters with enough traffic.  A value within
\* the deadband is kept, and nothing is written when all are.
Retune(k, v, busy, pc) ==
  \/ /\ Managed(v.entry, busy) # {}
     /\ Prepare(k, pc, [v EXCEPT !.entry = Tuned(v.entry, busy)])
  \/ Tuned(v.entry, busy) = v.entry /\ Finish(k)

Blank == [op |-> Nobody, entry |-> NoEntries]

\* calibrate_merchant: a read that fails counts as no row.
ReadConfig(k) ==
  /\ act[k].pc = "read"
  /\ \/ Finish(k) /\ UNCHANGED misled
     \/ \E busy \in (SUBSET Segments) \ {{}} :
          \/ \E v \in Stored : Retune(k, v, busy, "update") /\ UNCHANGED misled
          \/ rows = {} /\ Retune(k, Blank, busy, "insert") /\ UNCHANGED misled
          \/ Faults /\ Retune(k, Blank, busy, "insert") /\ misled' = misled \cup {k}
  /\ UNCHANGED <<rows, doubled, caches, lock, look>>

Untuned(f) == [s \in Segments |-> IF f[s] = "auto" THEN "none" ELSE f[s]]

\* clear_autopilot_sublevel_overrides; a failed read, or none to clear, ends it.
Clear(x) ==
  /\ act[x].pc = "idle"
  /\ \/ \E v \in Stored :
          IF Untuned(v.entry) = v.entry THEN Finish(x)
          ELSE Prepare(x, "update", [v EXCEPT !.entry = Untuned(v.entry)])
     \/ (rows = {} \/ Faults) /\ Finish(x)
  /\ UNCHANGED <<table, caches, lock, look>>

-----------------------------------------------------------------------------
(* Lookups (findByNameFromRedisHelper).  One that finds the value in memory  *)
(* answers with it and changes nothing.                                    *)

Looking(n, pc, v) == look' = [look EXCEPT ![n] = [pc |-> pc, val |-> v]]

\* What Redis has, the empty string included, is remembered.
LookRedis(n) ==
  /\ look[n].pc = "idle" /\ mem[n] = {}
  /\ \/ \E c \in redis : Looking(n, "remember", c)
     \/ (redis = {} \/ Faults) /\ Looking(n, "table", Nothing)
  /\ UNCHANGED <<table, caches, lock, act>>

\* A row is shared through Redis, none is remembered here only; an error is not.
LookTable(n) ==
  /\ look[n].pc = "table"
  /\ \/ \E v \in Stored : Looking(n, "share", v)
     \/ rows = {} /\ Looking(n, "remember", Nothing)
     \/ Faults /\ Looking(n, "idle", Nothing)
  /\ UNCHANGED <<table, caches, lock, act>>

Share(n) ==
  /\ look[n].pc = "share"
  /\ redis' = {look[n].val} \/ (Faults /\ UNCHANGED redis)
  /\ Looking(n, "remember", look[n].val)
  /\ UNCHANGED <<table, mem, lock, act>>

Remember(n) ==
  /\ look[n].pc = "remember"
  /\ mem' = [mem EXCEPT ![n] = {look[n].val}]
  /\ Looking(n, "idle", Nothing)
  /\ UNCHANGED <<table, redis, lock, act>>

\* Mutant: only what is absent is remembered for a while, a value for good.
ForgetNothing(n) ==
  /\ mem[n] = {Nothing}
  /\ mem' = [mem EXCEPT ![n] = {}]
  /\ UNCHANGED <<table, redis, lock, act, look>>

\* service_config_ttl, in memory and in Redis.
Forget(n) ==
  /\ mem[n] # {}
  /\ mem' = [mem EXCEPT ![n] = {}]
  /\ UNCHANGED <<table, redis, lock, act, look>>

Expire ==
  /\ redis # {}
  /\ redis' = {}
  /\ UNCHANGED <<table, mem, lock, act, look>>

-----------------------------------------------------------------------------
Write(a) == Insert(a) \/ Update(a) \/ PutRedis(a) \/ PutMemory(a)
Answer(n) == LookTable(n) \/ Share(n) \/ Remember(n)

Next ==
  \/ \E e \in Edits : Edit(e)
  \/ \E k \in Tuners : TakeLock(k) \/ ReadConfig(k) \/ Clear(k)
  \/ \E a \in Actors : Write(a) \/ Abandon(a)
  \/ \E n \in Nodes : LookRedis(n) \/ Answer(n) \/ Forget(n)
  \/ Expire

\* What is under way proceeds, and both caches have a TTL; nobody need ask.
Fairness ==
  /\ \A a \in Actors : WF_vars(Write(a))
  /\ \A k \in Tuners : WF_vars(ReadConfig(k))
  /\ \A n \in Nodes : WF_vars(Answer(n)) /\ WF_vars(Forget(n))
  /\ WF_vars(Expire)

Spec == Init /\ [][Next]_vars
FairSpec == Spec /\ Fairness

-----------------------------------------------------------------------------
(* Properties.                                                             *)

\* Every variable keeps its type.
TypeOK ==
  /\ rows \subseteq Rows
  /\ redis \subseteq Cached
  /\ mem \in [Nodes -> SUBSET Cached]
  /\ lock \in BOOLEAN
  /\ act \in [Actors -> [pc : {"idle", "read", "insert", "update", "redis",
                               "memory", "done"}, val : Cached]]
  /\ look \in [Nodes -> [pc : {"idle", "table", "share", "remember"}, val : Cached]]
  /\ misled \subseteq Actors
  /\ doubled \in BOOLEAN

\* What operators wrote of a document: its defaults and the entries of humans.
OperatorsPart(v) == <<v.op, {s \in Segments : v.entry[s] = "human"}>>

\* a writes the table in this step.
Writes(a) == act[a].pc \in {"insert", "update"} /\ act'[a].pc = "redis"

\* The operators' part of every row is that of a row there was.
OperatorsPartKept ==
  rows # {} => \A r \in rows' : \E q \in rows :
                 OperatorsPart(r.val) = OperatorsPart(q.val)

\* Calibrations and hard refreshes change only the calibrator's entries, and leave
\* what operators wrote as it is, unless it was written since they read it or that
\* read failed (calibrate_merchant, clear_autopilot_sublevel_overrides).
TuningKeepsOperatorsPart ==
  [][\A a \in Tuners : Writes(a) => a \in misled \/ OperatorsPartKept]_vars

\* The name has one row, which every lookup finds, unless two that found none, or
\* could not read, both inserted (create_rule_config; the schema does not refuse it).
OneRowUnlessRaced == ~doubled => \A q, r \in rows : q = r

\* What a cache has is what the table has.
Served(c) == c \in Stored \/ (c = Nothing /\ rows = {})
AllServed == \A c \in redis \cup UNION {mem[n] : n \in Nodes} : Served(c)

\* When no more writes come, what every process serves becomes and stays what the
\* table has, whatever races and failures left in the caches (service_config_ttl).
ConfigSettles == <>[]AllServed
=============================================================================
