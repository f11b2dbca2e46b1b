------------------------------ MODULE Hierarchy ------------------------------
(***************************************************************************)
(* The account tree.  A sync places profiles in it: it writes, row by row, *)
(* the place of a profile on the profile's account, and then, name by      *)
(* name, the entries that list the profiles of each merchant, the          *)
(* merchants of each org, and the orgs.  Sessions expand the node they     *)
(* were granted along those entries.  Every process remembers the accounts *)
(* it loads.  Neither table has a key that refuses a second row.           *)
(***************************************************************************)
EXTENDS Naturals

CONSTANTS Profiles,      \* ids of accounts
          HsMerchants,   \* the level above them
          Orgs,          \* the level above that
          Root,          \* HIERARCHY_ORG_INDEX, the list of orgs
          Unplaced,      \* the ancestry of an account without one
          Syncs,         \* sync requests, of one org each
          TreeOf,        \* the profiles a sync places, and under which merchant
          OrgOf,         \* and its org
          Walks,         \* requests that load a profile or expand a merchant or org
          Nodes,         \* processes
          NodeOf,        \* the process a request runs in
          MaxMishaps     \* statements that fail, processes that stop, accounts that
                         \* are deleted

Requests == Syncs \cup Walks
Names == HsMerchants \cup Orgs \cup {Root}
Places == HsMerchants \X Orgs
Ancestries == Places \cup {Unplaced}

\* The keys of merchants' and of orgs' entries have prefixes of their own, and no org
\* has the id that makes its key the list of orgs (merchant_key, org_key, org_index_key).
HierarchyAssumption ==
  /\ HsMerchants \cap Orgs = {} /\ Root \notin HsMerchants \cup Orgs
  /\ \A s \in Syncs : DOMAIN TreeOf[s] \subseteq Profiles /\ OrgOf[s] \in Orgs
  /\ \A s \in Syncs : \A p \in DOMAIN TreeOf[s] : TreeOf[s][p] \in HsMerchants
  /\ NodeOf \in [Requests -> Nodes]
  /\ MaxMishaps \in Nat

VARIABLES rows,      \* the rows of each account: the ancestry each holds
          entries,   \* the rows of each name: the ids each lists
          mem,       \* the accounts each process remembers
          sync,      \* the syncs
          walk,      \* the walks
          mishaps,   \* how many there were
          placedBy,  \* ghost: the sync that placed a profile, if the place stands
          wrote,     \* ghost: the syncs that wrote each name
          blind,     \* ghost: syncs whose read of a name failed or is out of date
          lost,      \* ghost: syncs whose ids such a write may have dropped
          stale      \* ghost: profiles a process may remember as they were

tables == <<rows, entries>>
ghosts == <<placedBy, wrote, blind, lost>>
vars == <<rows, entries, mem, sync, walk, mishaps, placedBy, wrote, blind, lost, stale>>

Place(s, p) == <<TreeOf[s][p], OrgOf[s]>>

\* What a sync lists under a name.
Listed(s, name) ==
  IF name \in HsMerchants THEN {p \in DOMAIN TreeOf[s] : TreeOf[s][p] = name}
  ELSE IF name \in Orgs THEN {TreeOf[s][p] : p \in DOMAIN TreeOf[s]}
  ELSE {OrgOf[s]}

NamesOf(s) == Listed(s, OrgOf[s]) \cup {OrgOf[s], Root}

Init ==
  /\ rows \in [Profiles -> {{}, {Unplaced}}]
  /\ entries = [name \in Names |-> {}]
  /\ mem = [n \in Nodes |-> [p \in Profiles |-> {}]]
  /\ sync = [s \in Syncs |-> [pc |-> "scopes", left |-> DOMAIN TreeOf[s],
                              at |-> Root, val |-> Unplaced]]
  /\ walk = [w \in Walks |-> [pc |-> "idle", node |-> Root, above |-> {}, left |-> {},
                              at |-> Root, val |-> Unplaced, found |-> {}]]
  /\ mishaps = 0
  /\ placedBy = [p \in Profiles |-> {}]
  /\ wrote = [name \in Names |-> {}]
  /\ blind = {}
  /\ lost = {}
  /\ stale = [n \in Nodes |-> {}]

Mishap == mishaps < MaxMishaps /\ mishaps' = mishaps + 1

-----------------------------------------------------------------------------
(* The accounts a process remembers.                                       *)

\* Requests of a process that have read the row of p and are to remember it.
Filling(n, p) ==
  \/ \E s \in Syncs : NodeOf[s] = n /\ sync[s].pc = "fill" /\ sync[s].at = p
  \/ \E w \in Walks : NodeOf[w] = n /\ walk[w].pc = "fill" /\ walk[w].at = p

\* Mutant: the row stays in memory.
KeptInMind(n, p) == mem

Forgotten(n, p) == [mem EXCEPT ![n][p] = {}]

\* The row of p has changed: whoever remembers it, or is about to, is behind.
Outdate(p) ==
  stale' = [n \in Nodes |->
    IF mem[n][p] # {} \/ Filling(n, p) THEN stale[n] \cup {p} ELSE stale[n]]

Evict(n, p) ==
  /\ mem' = Forgotten(n, p)
  /\ stale' = [stale EXCEPT ![n] = IF Filling(n, p) THEN @ ELSE @ \ {p}]

Remember(n, p, v) == mem' = [mem EXCEPT ![n][p] = {v}]

\* service_config_ttl.
Forget(n, p) ==
  /\ mem[n][p] # {}
  /\ Evict(n, p)
  /\ UNCHANGED <<tables, sync, walk, mishaps, ghosts>>

-----------------------------------------------------------------------------
(* A sync writes the forward direction: its profiles one after the other.   *)

\* The profile is done; after the last of them come the entries.
NextScope(s, p) ==
  LET left == sync[s].left \ {p} IN
  sync' = [sync EXCEPT ![s] =
    IF left = {} THEN [pc |-> "entries", left |-> NamesOf(s), at |-> Root, val |-> {}]
    ELSE [pc |-> "scopes", left |-> left, at |-> Root, val |-> Unplaced]]

Turn(s, pc, at, v) ==
  sync' = [sync EXCEPT ![s] = [pc |-> pc, left |-> @.left, at |-> at, val |-> v]]

\* A place that is there already is left alone; that it is there is what this process
\* knows, which need not be what the table says.
Decide(s, p, v) ==
  IF v = Place(s, p)
  THEN /\ NextScope(s, p)
       /\ placedBy' = IF rows[p] = {v} THEN [placedBy EXCEPT ![p] = {s}] ELSE placedBy
  ELSE Turn(s, "update", p, v) /\ UNCHANGED placedBy

\* load_merchant_by_merchant_id: from memory, or from the table, where a failed read
\* is no account, and any row of several will do.
LoadScope(s) ==
  /\ sync[s].pc = "scopes"
  /\ \E p \in sync[s].left :
       LET known == mem[NodeOf[s]][p] IN
       \/ (\E v \in known : Decide(s, p, v)) /\ UNCHANGED mishaps
       \/ /\ known = {} /\ UNCHANGED <<mishaps, placedBy>>
          /\ \/ \E v \in rows[p] : Turn(s, "fill", p, v)
             \/ rows[p] = {} /\ Turn(s, "insert", p, Unplaced)
       \/ known = {} /\ Mishap /\ Turn(s, "insert", p, Unplaced) /\ UNCHANGED placedBy
  /\ UNCHANGED <<tables, mem, walk, wrote, blind, lost, stale>>

FillScope(s) ==
  LET p == sync[s].at IN
  /\ sync[s].pc = "fill"
  /\ Remember(NodeOf[s], p, sync[s].val)
  /\ Decide(s, p, sync[s].val)
  /\ UNCHANGED <<tables, walk, mishaps, wrote, blind, lost, stale>>

InsertScope(s) ==
  LET p == sync[s].at IN
  /\ sync[s].pc = "insert"
  /\ rows' = [rows EXCEPT ![p] = @ \cup {Unplaced}]
  /\ placedBy' = [placedBy EXCEPT ![p] = {}]
  /\ Turn(s, "update", p, Unplaced)
  /\ Outdate(p)
  /\ UNCHANGED <<entries, mem, walk, mishaps, wrote, blind, lost>>

\* update_merchant_hierarchy writes every row of the profile; without one it fails.
UpdateScope(s) ==
  LET p == sync[s].at IN
  /\ sync[s].pc = "update"
  /\ IF rows[p] = {}
       THEN Turn(s, "failed", Root, Unplaced) /\ UNCHANGED <<rows, placedBy, stale>>
       ELSE /\ rows' = [rows EXCEPT ![p] = {Place(s, p)}]
            /\ placedBy' = [placedBy EXCEPT ![p] = {s}]
            /\ Turn(s, "evict", p, Unplaced) /\ Outdate(p)
  /\ UNCHANGED <<entries, mem, walk, mishaps, wrote, blind, lost>>

EvictScope(s) ==
  LET p == sync[s].at IN
  /\ sync[s].pc = "evict"
  /\ Evict(NodeOf[s], p) /\ NextScope(s, p)
  /\ UNCHANGED <<tables, walk, mishaps, ghosts>>

-----------------------------------------------------------------------------
(* And then the reverse one (write_reverse_indexes).                        *)

\* The merchants of the org, the org, the list of orgs.
Ready(left) ==
  IF left \cap HsMerchants # {} THEN left \cap HsMerchants
  ELSE IF left \cap Orgs # {} THEN left \cap Orgs ELSE left

\* read_entry: none, and any of several.
Entry(name) == IF entries[name] = {} THEN {{}} ELSE entries[name]

\* Mutant: what the sync carries is all there is.
Replaced(ids, own) == own

\* merge_ids.
Merged(ids, own) == ids \cup own

\* A read that fails counts as no entry.
ReadEntry(s) ==
  /\ sync[s].pc = "entries"
  /\ \E name \in Ready(sync[s].left) :
       \/ /\ \E ids \in Entry(name) : Turn(s, "look", name, Merged(ids, Listed(s, name)))
          /\ UNCHANGED <<mishaps, blind>>
       \/ Mishap /\ blind' = blind \cup {s} /\ Turn(s, "look", name, Listed(s, name))
  /\ UNCHANGED <<tables, mem, walk, placedBy, wrote, lost, stale>>

\* write_entry asks again whether the name is there; so does a failed answer count.
LookEntry(s) ==
  LET name == sync[s].at IN
  /\ sync[s].pc = "look"
  /\ \/ /\ Turn(s, IF entries[name] = {} THEN "add" ELSE "replace", name, sync[s].val)
        /\ UNCHANGED <<mishaps, blind>>
     \/ Mishap /\ blind' = blind \cup {s} /\ Turn(s, "add", name, sync[s].val)
  /\ UNCHANGED <<tables, mem, walk, placedBy, wrote, lost, stale>>

NextName(s) ==
  LET left == sync[s].left \ {sync[s].at} IN
  sync' = [sync EXCEPT ![s] = [pc |-> IF left = {} THEN "done" ELSE "entries",
                              left |-> left, at |-> Root, val |-> {}]]

\* Whoever has read the name before this write goes on without what it added.
WriteEntry(s) ==
  LET name == sync[s].at
      adds == sync[s].pc = "add"
      reading == {t \in Syncs \ {s} : sync[t].pc \in {"look", "add", "replace"}
                                        /\ sync[t].at = name} IN
  /\ sync[s].pc \in {"add", "replace"}
  /\ entries' = [entries EXCEPT ![name] =
                   IF adds THEN @ \cup {sync[s].val} ELSE {sync[s].val}]
  /\ wrote' = [wrote EXCEPT ![name] = @ \cup {s}]
  /\ blind' = (blind \ {s}) \cup reading
  /\ lost' = IF s \notin blind THEN lost
             ELSE lost \cup (wrote[name] \ {s}) \cup (IF adds THEN {s} ELSE {})
  /\ NextName(s)
  /\ UNCHANGED <<rows, mem, walk, mishaps, placedBy, stale>>

\* A statement fails, or the process stops: the request ends where it is.
FailSync(s) ==
  /\ sync[s].pc \notin {"done", "failed"} /\ Mishap
  /\ Turn(s, "failed", Root, Unplaced)
  /\ blind' = blind \ {s}
  /\ UNCHANGED <<tables, mem, walk, placedBy, wrote, lost, stale>>

-----------------------------------------------------------------------------
(* Sessions, and operators that delete an account.                         *)

Under(v, node) == v # Unplaced /\ node \in {v[1], v[2]}

\* Mutant: the entry that led to a profile is believed.
Believed(p, v, node) == TRUE

\* granted_profile: the profile itself must say that it is under the node.
Confirmed(p, v, node) == p = node \/ Under(v, node)

\* scopes_for_grant: a profile, a merchant, or the merchants an org lists.  What cannot
\* be read is left out.
Begin(w) ==
  /\ walk[w].pc = "idle"
  /\ \E node \in Profiles \cup HsMerchants \cup Orgs :
       \/ /\ \E above \in IF node \in Orgs THEN Entry(node) ELSE {{node} \cap HsMerchants} :
               walk' = [walk EXCEPT ![w].pc = "walk", ![w].node = node,
                                    ![w].above = above, ![w].left = {node} \cap Profiles]
          /\ UNCHANGED mishaps
       \/ /\ node \in Orgs /\ Mishap
          /\ walk' = [walk EXCEPT ![w].pc = "walk", ![w].node = node]
  /\ UNCHANGED <<tables, mem, sync, ghosts, stale>>

\* scopes_under_merchant.
OpenMerchant(w) ==
  /\ walk[w].pc = "walk" /\ walk[w].left = {}
  /\ \E m \in walk[w].above :
       \/ /\ \E ids \in Entry(m) :
               walk' = [walk EXCEPT ![w].above = @ \ {m}, ![w].left = ids]
          /\ UNCHANGED mishaps
       \/ Mishap /\ walk' = [walk EXCEPT ![w].above = @ \ {m}]
  /\ UNCHANGED <<tables, mem, sync, ghosts, stale>>

Offer(w, p, v) ==
  walk' = [walk EXCEPT ![w].pc = "walk", ![w].left = @ \ {p}, ![w].at = Root, ![w].val = Unplaced,
    ![w].found = IF Confirmed(p, v, walk[w].node) THEN @ \cup {p} ELSE @]

LoadCandidate(w) ==
  /\ walk[w].pc = "walk"
  /\ \E p \in walk[w].left :
       LET known == mem[NodeOf[w]][p] IN
       \/ (\E v \in known : Offer(w, p, v)) /\ UNCHANGED mishaps
       \/ /\ known = {} /\ ((rows[p] = {} /\ UNCHANGED mishaps) \/ Mishap)
          /\ walk' = [walk EXCEPT ![w].left = @ \ {p}]
       \/ /\ known = {} /\ UNCHANGED mishaps
          /\ \E v \in rows[p] :
               walk' = [walk EXCEPT ![w].pc = "fill", ![w].at = p, ![w].val = v]
  /\ UNCHANGED <<tables, mem, sync, ghosts, stale>>

FillCandidate(w) ==
  /\ walk[w].pc = "fill"
  /\ Remember(NodeOf[w], walk[w].at, walk[w].val)
  /\ Offer(w, walk[w].at, walk[w].val)
  /\ UNCHANGED <<tables, sync, mishaps, ghosts, stale>>

\* delete_merchant_account, in some process.
DeleteAccount(n, p) ==
  /\ rows[p] # {} /\ Mishap
  /\ rows' = [rows EXCEPT ![p] = {}]
  /\ placedBy' = [placedBy EXCEPT ![p] = {}]
  /\ mem' = Forgotten(n, p)
  /\ stale' = [k \in Nodes |->
       IF Filling(k, p) \/ (k # n /\ mem[k][p] # {}) THEN stale[k] \cup {p}
       ELSE IF k = n THEN stale[k] \ {p} ELSE stale[k]]
  /\ UNCHANGED <<entries, sync, walk, wrote, blind, lost>>

-----------------------------------------------------------------------------
WriteForward(s) ==
  LoadScope(s) \/ FillScope(s) \/ InsertScope(s) \/ UpdateScope(s) \/ EvictScope(s)
WriteReverse(s) == ReadEntry(s) \/ LookEntry(s) \/ WriteEntry(s)
Expand(w) == Begin(w) \/ OpenMerchant(w) \/ LoadCandidate(w) \/ FillCandidate(w)

Next ==
  \/ \E s \in Syncs : WriteForward(s) \/ WriteReverse(s) \/ FailSync(s)
  \/ \E w \in Walks : Expand(w)
  \/ \E n \in Nodes, p \in Profiles : Forget(n, p) \/ DeleteAccount(n, p)

Spec == Init /\ [][Next]_vars

-----------------------------------------------------------------------------
(* Properties.                                                             *)

\* Every session that starts above p comes to p, whichever row it finds, and is
\* confirmed by it.
Reachable(p, place) ==
  /\ rows[p] = {place}
  /\ \A ids \in Entry(place[1]) : p \in ids
  /\ \A ids \in Entry(place[2]) : place[1] \in ids
  /\ \A ids \in Entry(Root) : place[2] \in ids

\* A profile that a completed sync placed can be reached from above for as long as it
\* stays there, whatever syncs of other profiles do before, between and after, and
\* wherever they or earlier ones stopped: unless another sync wrote an entry from a
\* read that failed or that this sync's write had made out of date
\* (write_reverse_indexes: it merges, and re-running the sync repairs the tree).
SyncedIsReachable ==
  \A s \in Syncs \ lost : sync[s].pc = "done" =>
    \A p \in DOMAIN TreeOf[s] : placedBy[p] = {s} => Reachable(p, Place(s, p))

\* What a walk offers a profile on: the row it has read, or the row there is now, which
\* is what its process remembers unless that is stale.
Evidence(w, p) == IF walk[w].pc = "fill" THEN {walk[w].val} ELSE rows[p]

\* A session is offered only profiles that are under the node it was granted, also when
\* an entry still names one that has moved, as soon as the process that moved it has
\* evicted it; other processes follow when their memory expires (granted_profile,
\* update_merchant_hierarchy).
GrantsFollowTree ==
  [][\A w \in Walks : \A p \in walk'[w].found \ walk[w].found :
       \/ p \in stale[NodeOf[w]] \/ p = walk[w].node
       \/ \E v \in Evidence(w, p) : Under(v, walk[w].node)]_vars
=============================================================================
