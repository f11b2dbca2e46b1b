---------------------------- MODULE RoutingRules -----------------------------
(***************************************************************************)
(* The routing algorithms of a merchant (euclid/handlers/routing_rules.rs). *)
(* Two tables hold them: routing_algorithm, and routing_algorithm_mapper   *)
(* with at most one active algorithm of each kind.  What is active is kept *)
(* in Redis under one key for all kinds, written by activations and by     *)
(* evaluations that missed it, deleted by deactivations and edits.  Every  *)
(* request is a sequence of statements without a transaction around them.  *)
(***************************************************************************)
CONSTANTS Algorithms,   \* ids of routing algorithms
          Kinds,        \* what an algorithm is for (AlgorithmType)
          KindOf,       \* the kind of an algorithm
          Requests,     \* requests of the merchant that write
          Evaluations,  \* concurrent calls of /routing/evaluate, one after another
          Earlier,      \* stands for the writers before all this
          Absent,       \* no such row
          Faults        \* Redis or a statement may fail, a request be dropped

\* What is taken of the constants.
RulesAssumption ==
  /\ Algorithms # {} /\ KindOf \in [Algorithms -> Kinds]
  /\ Faults \in BOOLEAN
  /\ Absent \notin Requests \cup {Earlier} /\ Earlier \notin Requests
  /\ Requests \cap Evaluations = {}

\* A row is known by who wrote it: a version by the request that stored it, a
\* mapping by the request that inserted it.
Writers == Requests \cup {Earlier}
Mappings == [by : Writers, alg : Algorithms]
Entries == [alg : Algorithms, data : Writers]

VARIABLES data,     \* routing_algorithm: the version of each algorithm, or Absent
          active,   \* routing_algorithm_mapper
          cache,    \* DE_routing_algo_eval:<merchant>, empty or one entry
          req,      \* the requests
          eval,     \* the evaluations
          muddled,  \* ghost: whoever acts on rows that have changed since
          doubtful  \* ghost: the entry is of such a writer, or one was not written

tables == <<data, active>>
vars == <<data, active, cache, req, eval, muddled, doubtful>>

Ops == {"activate", "deactivate", "edit", "delete"}

\* What a request has read: the mapping to delete, or the version to cache.
Idle == [pc |-> "idle", op |-> "edit", alg |-> CHOOSE a \in Algorithms : TRUE,
         seen |-> Earlier]
Waiting == [pc |-> "idle", alg |-> CHOOSE a \in Algorithms : TRUE, data |-> Earlier]

KindOfMapping(m) == KindOf[m.alg]
Active(k) == {m \in active : KindOfMapping(m) = k}

\* UNIQUE(created_by, algorithm_for).
OneOfAKind == \A m, n \in active : KindOfMapping(m) = KindOfMapping(n) => m = n

Init ==
  /\ data \in [Algorithms -> {Earlier, Absent}]
  /\ active \in SUBSET [by : {Earlier}, alg : {a \in Algorithms : data[a] = Earlier}]
  /\ OneOfAKind
  /\ cache = {}
  /\ req = [r \in Requests |-> Idle]
  /\ eval = [e \in Evaluations |-> Waiting]
  /\ muddled = {}
  /\ doubtful = FALSE

-----------------------------------------------------------------------------
(* Requests.  A request that fails is over, as one that succeeds.          *)

InFlight == {r \in Requests : req[r].pc \notin {"idle", "done"}}
              \cup {e \in Evaluations : eval[e].pc # "idle"}

Goto(r, pc) == req' = [req EXCEPT ![r].pc = pc]
At(r, op, pc) == req[r].op = op /\ req[r].pc = pc

\* Every other request and evaluation under way has read what r changes.
Change(r) == muddled' = muddled \cup (InFlight \ {r})
NoChange == UNCHANGED <<data, active, muddled>>
NoCacheChange == UNCHANGED <<cache, doubtful>>

\* routing_create: the id is random or the merchant's; a row that is there refuses it.
Create(r) ==
  /\ req[r].pc = "idle"
  /\ \E a \in Algorithms :
       /\ data[a] = Absent
       /\ data' = [data EXCEPT ![a] = r]
       /\ req' = [req EXCEPT ![r].pc = "done", ![r].alg = a]
  /\ Change(r) /\ NoCacheChange /\ UNCHANGED <<active, eval>>

\* The first read: the algorithm, for activation and deactivation.
Find(r) ==
  /\ req[r].pc = "idle"
  /\ \E op \in {"activate", "deactivate"}, a \in Algorithms :
       /\ data[a] # Absent
       /\ req' = [req EXCEPT ![r] = [pc |-> "mapper", op |-> op, alg |-> a,
                                     seen |-> data[a]]]
  /\ NoChange /\ NoCacheChange /\ UNCHANGED eval

\* The mapping of the kind; an error counts as none.
FindMapping(r) ==
  /\ At(r, "activate", "mapper")
  /\ LET ofKind == Active(KindOf[req[r].alg])
     IN \/ ofKind = {} /\ Goto(r, "insert")
        \/ Faults /\ Goto(r, "insert")
        \/ \E m \in ofKind :
             Goto(r, IF m.alg = req[r].alg THEN "cache" ELSE "replace")
  /\ NoChange /\ NoCacheChange /\ UNCHANGED eval

\* A mapping of the kind that came in between refuses it.
InsertMapping(r) ==
  /\ At(r, "activate", "insert")
  /\ IF Active(KindOf[req[r].alg]) = {}
       THEN /\ active' = active \cup {[by |-> r, alg |-> req[r].alg]}
            /\ Goto(r, "cache") /\ Change(r)
       ELSE Goto(r, "done") /\ UNCHANGED <<active, muddled>>
  /\ NoCacheChange /\ UNCHANGED <<data, eval>>

\* The mapping of the kind is given the algorithm in place; none may be left, which
\* is no error (generic_update_if_present).
ReplaceMapping(r) ==
  /\ At(r, "activate", "replace")
  /\ active' = {IF KindOfMapping(m) = KindOf[req[r].alg]
                  THEN [m EXCEPT !.alg = req[r].alg] ELSE m : m \in active}
  /\ Goto(r, "cache") /\ Change(r)
  /\ NoCacheChange /\ UNCHANGED <<data, eval>>

\* cache_routing_algorithm: the version found first; a failure is logged.
CacheAlgorithm(r) ==
  /\ At(r, "activate", "cache")
  /\ \/ /\ cache' = {[alg |-> req[r].alg, data |-> req[r].seen]}
        /\ doubtful' = (r \in muddled)
     \/ Faults /\ UNCHANGED cache /\ doubtful' = TRUE
  /\ Goto(r, "done")
  /\ NoChange /\ UNCHANGED eval

\* The mapping to delete, by its id; without one there is nothing to do.
FindActive(r) ==
  /\ At(r, "deactivate", "mapper")
  /\ \/ \E m \in active :
          /\ m.alg = req[r].alg
          /\ req' = [req EXCEPT ![r].pc = "remove", ![r].seen = m.by]
     \/ (Faults \/ \A m \in active : m.alg # req[r].alg) /\ Goto(r, "done")
  /\ NoChange /\ NoCacheChange /\ UNCHANGED eval

\* What req[r] found, under whatever algorithm it is by now.
Found(r) == {m \in Active(KindOf[req[r].alg]) : m.by = req[r].seen}

\* Mutant: the cache is left to its TTL.
RemoveMappingUncached(r) ==
  /\ At(r, "deactivate", "remove")
  /\ active' = active \ Found(r) /\ Goto(r, "done") /\ Change(r)
  /\ NoCacheChange /\ UNCHANGED <<data, eval>>

\* generic_delete fails when the row is gone.
RemoveMapping(r) ==
  /\ At(r, "deactivate", "remove")
  /\ IF Found(r) # {}
       THEN active' = active \ Found(r) /\ Goto(r, "invalidate") /\ Change(r)
       ELSE Goto(r, "done") /\ UNCHANGED <<active, muddled>>
  /\ NoCacheChange /\ UNCHANGED <<data, eval>>

Inactive(a) == \A m \in active : m.alg # a

\* Mutant: a running algorithm may be edited.
EnsureInactiveEdits(r) ==
  /\ req[r].pc = "idle"
  /\ \E op \in {"edit", "delete"}, a \in Algorithms :
       /\ op = "delete" => Inactive(a)
       /\ req' = [req EXCEPT ![r] = [pc |-> "write", op |-> op, alg |-> a,
                                     seen |-> Earlier]]
  /\ NoChange /\ NoCacheChange /\ UNCHANGED eval

\* ensure_routing_algorithm_inactive, the first read of edits and deletions.
EnsureInactive(r) ==
  /\ req[r].pc = "idle"
  /\ \E op \in {"edit", "delete"}, a \in Algorithms :
       /\ Inactive(a)
       /\ req' = [req EXCEPT ![r] = [pc |-> "write", op |-> op, alg |-> a,
                                     seen |-> Earlier]]
  /\ NoChange /\ NoCacheChange /\ UNCHANGED eval

\* update_routing_rule loads the row, then writes it; delete_routing_rule deletes it.
\* Without a row both fail.
WriteAlgorithm(r) ==
  /\ req[r].pc = "write"
  /\ IF data[req[r].alg] = Absent
       THEN Goto(r, "done") /\ UNCHANGED <<data, muddled>>
       ELSE /\ data' = [data EXCEPT ![req[r].alg] =
                          IF req[r].op = "edit" THEN r ELSE Absent]
            /\ Goto(r, "invalidate") /\ Change(r)
  /\ NoCacheChange /\ UNCHANGED <<active, eval>>

\* invalidate_routing_algorithm_cache: a failure is logged.
Invalidate(r) ==
  /\ req[r].pc = "invalidate"
  /\ \/ cache' = {} /\ doubtful' = FALSE
     \/ Faults /\ UNCHANGED cache /\ doubtful' = TRUE
  /\ Goto(r, "done")
  /\ NoChange /\ UNCHANGED eval

\* A statement fails, or the caller goes away and the request is dropped where it is.
Abandon(r) ==
  /\ Faults /\ req[r].pc \notin {"idle", "done"}
  /\ Goto(r, "done")
  /\ doubtful' = (doubtful \/ req[r].pc \in {"cache", "invalidate"})
  /\ NoChange /\ UNCHANGED <<cache, eval>>

-----------------------------------------------------------------------------
(* Evaluations.  One that finds an entry answers with it and changes        *)
(* nothing; one that misses, or cannot read, reads the tables.             *)

Wait(e) == eval' = [eval EXCEPT ![e] = Waiting]

\* The mapper is read for the merchant, whatever the kind.
Miss(e) ==
  /\ eval[e].pc = "idle" /\ (cache = {} \/ Faults)
  /\ \E m \in active :
       eval' = [eval EXCEPT ![e] = [pc |-> "fetch", alg |-> m.alg, data |-> Earlier]]
  /\ muddled' = muddled \ {e}
  /\ NoCacheChange /\ UNCHANGED <<tables, req>>

\* The algorithm; without its row the call fails.
Fetch(e) ==
  /\ eval[e].pc = "fetch"
  /\ IF data[eval[e].alg] = Absent THEN Wait(e)
     ELSE eval' = [eval EXCEPT ![e].pc = "fill", ![e].data = data[eval[e].alg]]
  /\ NoChange /\ NoCacheChange /\ UNCHANGED req

Fill(e) ==
  /\ eval[e].pc = "fill"
  /\ \/ /\ cache' = {[alg |-> eval[e].alg, data |-> eval[e].data]}
        /\ doubtful' = (e \in muddled)
     \/ Faults /\ NoCacheChange
  /\ Wait(e)
  /\ NoChange /\ UNCHANGED req

\* Mutant: the key is set without a TTL.
CacheExpireNever == FALSE

\* service_config_ttl.
CacheExpire ==
  /\ cache # {}
  /\ cache' = {} /\ doubtful' = FALSE
  /\ NoChange /\ UNCHANGED <<req, eval>>

-----------------------------------------------------------------------------
Step(r) ==
  \/ FindMapping(r) \/ InsertMapping(r) \/ ReplaceMapping(r) \/ CacheAlgorithm(r)
  \/ FindActive(r) \/ RemoveMapping(r)
  \/ WriteAlgorithm(r) \/ Invalidate(r)

Evaluate(e) == Miss(e) \/ Fetch(e) \/ Fill(e)

Next ==
  \/ \E r \in Requests :
       Create(r) \/ Find(r) \/ EnsureInactive(r) \/ Step(r) \/ Abandon(r)
  \/ \E e \in Evaluations : Evaluate(e)
  \/ CacheExpire

\* A request or evaluation under way proceeds, and the key has a TTL; nobody need
\* make a request.
Fairness ==
  /\ \A r \in Requests : WF_vars(Step(r))
  /\ \A e \in Evaluations : WF_vars(Fetch(e) \/ Fill(e))
  /\ WF_vars(CacheExpire)

Spec == Init /\ [][Next]_vars
FairSpec == Spec /\ Fairness

-----------------------------------------------------------------------------
(* Properties.                                                             *)

Pcs == {"idle", "mapper", "insert", "replace", "cache", "remove", "write",
        "invalidate", "done"}

\* Every variable keeps its type, and the merchant has one mapping of a kind.
TypeOK ==
  /\ data \in [Algorithms -> Writers \cup {Absent}]
  /\ active \subseteq Mappings
  /\ OneOfAKind
  /\ cache = {} \/ \E c \in Entries : cache = {c}
  /\ req \in [Requests -> [pc : Pcs, op : Ops, alg : Algorithms, seen : Writers]]
  /\ eval \in [Evaluations -> [pc : {"idle", "fetch", "fill"}, alg : Algorithms,
                               data : Writers]]
  /\ muddled \subseteq Requests \cup Evaluations
  /\ doubtful \in BOOLEAN

\* The entry is an active algorithm in the version the table has.
Agrees == \A c \in cache : ~Inactive(c.alg) /\ data[c.alg] = c.data

\* What evaluations take from the cache is what is active, while nobody is between
\* the tables and the cache, unless the entry was written by one that had read the
\* rows before they changed, or an entry that Redis did not replace.
CacheReflectsActive ==
  doubtful \/ Agrees
    \/ \E r \in Requests : req[r].pc \in {"cache", "invalidate"}

\* A running algorithm is not edited or deleted, and so no mapping left without its
\* row, unless it became active after the writer of that change had looked
\* (ensure_routing_algorithm_inactive).
RunningIsLeftAlone ==
  [][\A a \in Algorithms :
       data[a] # Absent /\ data'[a] # data[a] /\ ~Inactive(a)
         => \E r \in muddled \cap Requests :
              /\ At(r, "edit", "write") \/ At(r, "delete", "write")
              /\ req[r].alg = a /\ req'[r].pc = "invalidate"]_vars

\* When no more requests write, what is served becomes and stays what is active,
\* whatever races and failures left in the cache.
ServedSettles == <>[]Agrees
=============================================================================
