# Formal models of the decision engine

The decision engine picks the payment gateway of every transaction, learns from
the outcome of each attempt, and keeps a cost model beside the success rates.
It is a stateless HTTP service (axum/tokio): what it remembers lives in Redis,
in a SQL database and in ClickHouse, and almost every hard behaviour comes from
many tasks working on these stores without a lock between their round trips.
The modules here describe that part: who reads and writes what, in which order,
what may fail in between, and what holds all the same.

Source paths below are relative to the repository's `src/` directory.

## 1. Inventory

### Components, their state and operations

| Component | State | Operations | Source |
|---|---|---|---|
| SR v3 window | per gateway and dimension: a Redis list of the newest outcomes and a cold-start score key; an in-process score cache | create keys, push and trim, read at decision time, reset lagging gateways, flush | `feedback/gateway_selection_scoring_v3/flow.rs`, `feedback/utils.rs`, `decider/gatewaydecider/{utils,gw_scoring}.rs`, `routes/gateway_score.rs` |
| Gateway score update | GatewayScoringData and lock keys in Redis; tracked and untracked tasks | receive a status, GSM filter, classify, lock, latency window, SR and elimination dispatch; drain at SIGTERM | `routes/update_gateway_score.rs`, `feedback/gateway_scoring_service.rs`, `app.rs` |
| Elimination scoring | per-key score, timestamp, transaction count, merchants array in Redis | penalise, reward, refresh on TTL, trim, reset at decision time | `feedback/gateway_elimination_scoring/flow.rs`, `decider/gatewaydecider/gw_scoring.rs` |
| A/B experiments | one in-flight record per payment in Redis | intercept, store, record cost, emit outcome | `decider/gatewaydecider/ab_test/` |
| Cost ingestion queue | `cost_ingestion` rows in SQL; `cost_daily_stats` in ClickHouse | enqueue (webhook, poller), claim, run, mark, upload, delete | `cost_ingestion/{store,worker,poller,pipeline,sink}.rs`, `routes/{report_upload,settlement_webhook}.rs` |
| Cost fit and serving | `cost_model*` tables in ClickHouse; an in-process snapshot | clear, fit, summarise, purge; periodic and per-merchant refresh | `cost_ingestion/{fit,serving,blended,rollup,segment}.rs` |
| Connector reports | none of its own | detect, parse, map, preflight, credentials | `cost_ingestion/{connectors,creds,source,mapping,preflight}` |
| Auto-calibration | the merchant's SR configuration row; a Redis key per interval | once per interval: read stats, rewrite bucket and hedging settings | `sr_auto_calibration.rs` |
| Decider pipeline | reads everything above; writes GatewayScoringData | filter, order, score, outage, hedging, random selection | `decider/gatewaydecider/` |
| Multi-objective and network routing | none | pick by cost and success rate; order debit networks | `decider/gatewaydecider/multi_objective`, `decider/network_decider` |
| Euclid rules | routing programs in SQL | validate and interpret a program; constraint graph | `euclid/` |
| Redis access | pool, mem caches, feature flags | get/set with TTL, MULTI blocks, percentage rollout | `redis/` |
| Analytics | two bounded queues and their depth gauges | enqueue or drop, batch, publish | `analytics/` |
| Accounts and access | users and keys in SQL; the account tree in the rows of accounts and in index entries; accounts in the memory of each process | sign in, check role, issue keys; sync the tree, expand a session's node | `auth/`, `routes/{user_auth,api_key,hierarchy}.rs`, `types/merchant/{hierarchy,merchant_account}.rs` |
| GSM rules, storage, crypto, email, logging, dashboard, charts | lookups and plumbing | | `src/crates/gsm`, `storage/`, `crypto/`, `email/`, `logger/` |

### How they interact

A routing call (`/decide-gateway`) may be intercepted by an A/B experiment,
filters the gateways, reads the SR windows through the score cache, may reset
the lagging windows, reads the elimination scores, and stores the payment's
GatewayScoringData in Redis.  The outcome call (`/update-gateway-score`)
answers at once and spawns a tracked task: it emits the A/B outcome, applies
the GSM filter, finds the GatewayScoringData, takes a lock of the outcome's
class, pushes an entry to the SR window and spawns one untracked task per
elimination key.  The auto-calibration job changes the bucket size under both.
Settlement reports arrive by webhook, by the poller or by upload; all three
insert rows in one table that workers claim; what a job stages in ClickHouse is
fitted and then served to the multi-objective choice from a cache.

### What is hard, and what correctness means

* SR window: list and score key are created, pushed, trimmed, reset and flushed
  by tasks that decide on answers which may be out of date.  Correct: the list
  is the newest part of what was written, nobody is scored below 1 without a
  failure or a reset, list and score key agree, a recorded window is not lost
  without cause.
* Score update: repeated and reordered deliveries, locks with a TTL, data that
  expires half way, a shutdown.  Correct: one entry per outcome class, pending
  outcomes not counted early, every accepted call ends, a rejected delivery
  locks nobody out.
* A/B record: a read-modify-write in two round trips by routing calls and
  outcomes.  Correct: one first attempt and one success per record, no record
  half written.
* Cost queue: several replicas, a claim in two statements, crashes, a deletion
  that checks first and acts later.  Correct: one run per job, one row per
  report, no staged bucket without a row to undo it by, every job ends.
* Elimination keys: read, changed and written back by feedback tasks and by
  deciders.  Correct: a score is explained by counted failures, nothing is counted
  twice, a record lives out its TTL, a reset is not repeated at once.
* Fit and serving: four ClickHouse statements make a fit, two JSON lists index the
  fee overrides, a cache is rebuilt by a ticker and after every change.  Correct: the
  newest snapshot is of what is staged, an override that is stored is listed, the
  cache comes to be what the tables hold.
* Configuration of a merchant: operators, the calibrator of every replica and hard
  refreshes rewrite one document without a lock that holds.  Correct: one row, a
  calibration leaves alone what humans wrote, both caches catch up.
* Eligibility: some twenty filters change two lists that must agree, some load
  accounts again.  Correct: the lists agree, what was refused stays refused, each
  gateway has one account and serves the method.
* Decision: steps overwrite scores and labels of earlier ones.  Correct: only an
  eligible gateway is decided on, a penalty never promotes, exploration is labelled,
  a promotion by cost saves cost.
* Account tree: written forward on the accounts and in reverse in entries that list the
  children, by syncs of any subtree that read, merge and write back; each process
  remembers accounts.  Correct: what a sync placed is found from above, and a session
  finds nothing that is not under its node.
* Routing algorithms: two tables, one cache key for all kinds, requests without
  transactions.  Correct: a running algorithm is left alone, the cache comes to agree
  with the tables.

`PROJECT.json` lists the hazards at their lines.

## 2. Plan

The modules in the order of the plan, the most important behaviour first.  All of
these are written, checked and, where a proof module is named, proved about.

1. `SrWindow` implementing `SrContract`, with `SrWindowProofs`.
2. `ScoreUpdate`, with `ScoreUpdateProofs`: what decides whether an entry reaches
   the window of module 1 at all.
3. `AbTest`, with `AbTestProofs`: the A/B record that the same two calls share.
4. `CostJobs` implementing `JobContract`, with `CostJobsProofs`: the ingestion queue
   and the buckets.
5. `Elimination`, with `EliminationProofs`: read, change and write back of a key.
6. `CostServing`, proved about in `DeciderProofs`: concurrent fits, fee overrides,
   and the cache decisions read.
7. `GatewayFilter`, with `RoutingProofs`: the chain of eligibility filters.
8. `Decider`, with `DeciderProofs`: scores, outages, elimination, hedging and cost.
9. `RoutingRules`, with `RoutingProofs`: the life of a routing algorithm and its cache.
10. `ServiceConfig`, with `ServiceConfigProofs`: a merchant's document, its two
    caches, and the calibrator that rewrites it.
11. `Hierarchy`, proved about in `AbTestProofs`: the account tree, its syncs and the
    sessions that expand it.

`Routing`, `AccountTree` and `Serving` are thin: each declares the constants and
variables of `RoutingRules`, `Hierarchy` or `CostServing`, instantiates it, assumes what
it assumes of its constants and names its properties, so that one run or one proof
module can take it beside another component with variables of the same names.

What a next step would be, and why it is not here:

* A composition of `ScoreUpdate` and `SrWindow`, in which the dispatch of an update
  starts the feedback task of the window.  The two share no state but that step, so
  each is checked with the other's part left free: `SrWindow` takes any number of
  feedback tasks for a gateway, `ScoreUpdate` counts the entries it hands over.
* A third refinement, of `CostServing` to a store in which a fit is one step.  It
  would say what `SnapshotReflectsStaging` says, under the same conditions.
* The bounded analytics queues and their depth gauge: best-effort export, which
  nothing in the service reads back.
* Euclid's interpreter and the ordering of debit networks: sequential functions of
  their input.

## 3. The modules

### SrWindow, SrContract

`queue` and `score` are the two Redis keys of each gateway, `bucket` the bucket
size the configuration holds, `fb` the feedback tasks, `dec` the deciders,
`cache` the score cache.  A Redis round trip is one action; a MULTI block is one
action because Redis executes it atomically.

| Action | Code |
|---|---|
| `StartFeedback`, `AskQueue`, `AskScore`, `CreateKeys`, `UpdateQueue` | `update_sr_v3_score`, `createKeysIfNotExist`, `isKeyExistsRedis`, `updateQueue` |
| `StartDecision`, `ReadScore`, `ChooseReset`, `ResetGateway` | `get_cached_scores_based_on_srv3`, `get_score_from_redis`, `reset_sr_v3_score`, `reset_gateway_for_sr_v3` |
| `DropPanicked` | the request task that panics in `clamp(2, bucket)` when the bucket holds one entry |
| `CacheExpire`, `Resize` | the cache's TTL; a new bucket size |
| `StartFlush`, `FlushKey` | the hard refresh of `routes/gateway_score.rs`: SCAN, then DEL one by one |

A score is the exact fraction of successes; the standard deviation and the
factor that choose the lagging gateways are abstracted to "some set of gateways
below all the others", which is every set the threshold can produce.  The
zeros a reset spreads over the list are computed exactly.  The code computes
their positions in doubles: for some pairs of bucket size and zeros, (22, 20)
the smallest, the last position rounds above the last index and that zero is not
placed.  The constant `LostZeros` holds such pairs; a zero in between that
rounding moves by one slot is not modelled.  With `RedisFaults` an EXISTS answers
FALSE and a MULTI block has no effect, both of which the code ignores, and a score is
read from the score key, or taken for full, although there is a list
(`ScoresFromRedis`; the read of the list and that of the score key are one step).
Ghosts: `hist` and `pushed` (what was written since the window was created),
`blamed` (a failure or a reset happened), `misled` (the task's answers no longer
hold).

`SrContract` is the abstract specification: windows open full of successes, take
outcomes one at a time, show the newest part of what they took, are penalised on
purpose and forgotten whole.  `KeepsContract` is the refinement, with `queue`,
`hist` and `blamed` mapped to themselves.

### ScoreUpdate

One payment.  `task` holds the tracked task of each delivery of
`/update-gateway-score`; its program counter follows
`update_score_gateway` through `check_and_update_gateway_score_` and
`update_gateway_score`.  `data` is whether GatewayScoringData is still in Redis,
`locks` the keys of `gateway_scores_lock` (one per outcome class and gateway),
`detached` the elimination updates left to `tokio::spawn`, `server` the
shutdown sequence of `app.rs`.  The classification
`ScoringType` is translated in full: `enforce_dynamic_routing_failure` is looked
at first, then the status, then the time since the payment.  The GSM verdict,
the producer switches and the latency window are choices, within what the class
allows.  With `Faults`, a read answers nothing, SET NX answers "held" whether or
not the server applied it, and the merchant lookup panics.

### AbTest

`rec` is the key `ab_test_inflight:<payment>`, as a set of at most one record.  A
routing call (`dec`) reads the flag and writes the record, on an SR arm twice; an
outcome (`out`) reads the record, then marks or deletes it and emits its event.
`life` numbers the records that came into being, and `disturbed` says that
a writer replaced a record it had not read, or that a command failed.  The
arm, the cost figures and the attribution fields are reduced to what the
properties tell apart.

### CostJobs, JobContract

`jobs` are the rows, ids handed out in `created_at` order; `stats` is
`cost_daily_stats` by day and job, its value the order of `ingested_at` (0 when
there is no row version), a ReplacingMergeTree whose merges are the action
`MergeParts`.  `Announce`/`FindExisting`/`InsertPending` are `enqueue_pending`
called by the webhook and the poller, `List`/`Claim`/`EndClaim` are
`claim_pending`, `Fetch`/`Stage`/`Fit`/`Mark` a job's run, `Upload` the two upload
flows, `ReadRow`/`WipeRows`/`DropRow` `delete_ingestion`.  `Lose` is a crash, a panic or
a dropped request of a runner.  The unique constraint on the notification id
is that of the migration.

`JobContract` is the abstract specification, of jobs and holders alone: a report enters
while it has no row and waits, an upload enters in its task's hands; a waiting job that
nobody holds is taken, and ended by its holder; a holder that stops leaves the row as it
is; and a job that is held or processing is not deleted, unless it was taken while its
deletion was under way.  Buckets, deliveries, lists and errors do not occur in it.
`QueueKeepsContract` is the refinement, with `held` mapped to what each runner has
claimed and `contested` to `hasty`.

### Elimination

`key` is one record per elimination key of a gateway: each merchant's own and the
global ones, whose array holds one entry per merchant.  `fb` are the spawned
updates (`updateKeyScoreForKeysFromConsumer`), `dec` the deciders that found a
gateway below its threshold and try to raise it.  Both read a key with one round
trip and write it back with another.

| Action | Code |
|---|---|
| `Spawn`, `ReadScore`, `WriteScore` | `update_gateway_score`, then `updateKeyScoreForKeysFromConsumer` up to its GET and up to its SETX |
| `Evaluate`, `Trigger` | `update_current_score`, the threshold filter, `evaluate_reset_gateway_score`, `trigger_reset_gateway_score` |
| `ReadAgain`, `WriteBack` | the two round trips of `reset_gateway_score` |
| `Drop`, `Tick` | eviction and expiry; the clock all replicas share |

Scores are counted in penalties, from `Top` (1.0) down to 0 (the minimum score),
as a penalty multiplies the score by a fixed factor; a reward is `RewardStep` of
them.  Of the code's peculiarities these are kept:

* A GET that fails is taken for a missing key, and the record starts anew.
* The age `timestamp - cached.timestamp` is unsigned: when the record is younger than
  the task's own time it wraps in a release build, and the record is replaced
  (a debug build panics there).
* The remaining TTL is computed in milliseconds and handed to Redis as seconds, so
  that in practice only the age check retires a record; the decider hands over 0 at
  exactly the end of the TTL, and SETX refuses it.
* A merchant that joins an array is counted once with a full score, also for a
  success; at the maximum length it is not recorded at all.
* A decider writes a score that is not due for a reset back as it read it.

The ghost `stale` names the writers whose answer no longer holds, because
somebody wrote the key since or Redis misinformed them.

### CostServing

`staged` is `cost_daily_stats`, `model` and `tiers` the two fitted tables by
merchant and day.  A report is inserted in chunks, one request after another; a row is
known by the pieces (report and number of the chunk) it was made from.  `fit` holds the
ingestions and the deletions, `edit` the fee-override requests, `pull` every
refresh by the task that runs it, `served` the in-process cache.

| Action | Code |
|---|---|
| `StartIngest`, `StageChunk`, `EndStaging`, `DeleteRows` | what precedes a fit in `pipeline.rs`, `sink.rs` and `routes/report_upload.rs` |
| `ClearSnapshot`, `ReadRows`, `InsertRows`, `CountRows`, `PurgeModel` | `fit_snapshot`: CLEAR, FIT (what it reads, then what it inserts), SUMMARY, PURGE |
| `ClearTiers`, `ReadTierStats`, `InsertTiers` | the segments of capped clusters |
| `ReadIndex`, `WriteIndex`, `PruneGlobal`, `ReadGlobal`, `WriteGlobal` | `overrides::put`, `overrides::delete`, `prune_global_index` |
| `PullCosts`, `PullTiers`, `PullFees`, `Swap` | `refresh_inner`, global or of one merchant |

A chunk that fails, written or not, ends the ingestion as failed and without a fit;
the chunks before it stay (`sink.rs:65-71` calls them harmless, as a re-run overwrites
them).  A later fit of the merchant takes them up like any other rows, and a deletion
of the failed ingestion removes them.

The regression is a verdict per cluster: one line fits it, none does (the cluster is
capped and gets tiers), or there is too little of it.  Two behaviours show in the
model and are no finding: a deletion's refit that fails leaves the model fitted
from data that is gone (`routes/report_upload.rs:171-174` logs it), and tiers of
earlier days stay served, as the purge deletes from the flat table only
(`fit.rs:227,250`).

### GatewayFilter

`newGwFilters`: `pc` names the filter that runs next, `gws` and `mgas` are the
writer's two lists, `txn` what of the payment the filters look at.  Each filter is
an action.  What a filter finds in tables of its own (BINs, EMI plans, tokens,
validation capabilities) is a choice of a subset; which gateways serve a method only,
or as well, comes from lists in Redis, one read per filter, and a read that fails
gives an empty list.  Lists are sets: the code removes duplicates where it matters.
Three peculiarities that the properties had to be worded around:

* For payments over all reference ids, and when accounts are validated, accounts are
  loaded again and some that an earlier filter refused come back (`reloaded`).
* A gateway may stay functional through another account of its own that survived.
* The selection of one account per gateway is skipped or relaxed in the same cases.

### Decider

`run_decider_flow` from the list of eligible gateways to the answer.  A score is an
integer (`Unit` is 1.0), in a unit in which each division the code makes is
exact.  `approach` is the label the feedback reads later, `routing` the one of the
response.

| Action | Code |
|---|---|
| `PreferredGateway`, `PriorityLogic`, `Enforce` | merchant preference, priority logic, `handle_fallback_logic`, enforcement |
| `SingleGateway`, `Explore`, `SrRouting`, `RandomTraffic`, `Priority` | the ways to score; hedging |
| `Outage` | `update_score_for_outage`, at most two per gateway |
| `NoElimination`, `GlobalElimination`, `MerchantElimination` | the two rounds of elimination and their labels |
| `DecideByScore`, `DecideByCost`, `NoGatewayFound` | the maximum, the margin rules, the error |

What the steps read (success rates, outages, which gateways are eliminated, costs) is
chosen within the constants.  The ghosts `low`, `outages` and `hedged` remember what
a later step overwrites.  Kept from the code: an outage inserts its gateway
into the score map whether eligible or not; a single gateway gets no outage step; an
enforced list and its fallback yield the same `functional` set, as
`handle_fallback_logic` returns the primary output; a gateway listed more than ten
places down reaches a score of 0 or less, which is why `PenaltiesNeverPromote` asks
for a positive initial score.

### RoutingRules

`data` and `active` are the tables `routing_algorithm` and
`routing_algorithm_mapper`, `cache` the merchant's one evaluation entry, `req` the
requests, `eval` the evaluations.  A statement is an action; a request may fail or be
dropped between any two of them.  Programs are versions; the interpreter is left
out.  Visible in the model: one cache key serves algorithms of all kinds; a
deactivation deletes the mapping it found, by id, even if an activation has put
another algorithm into that row since; an activation whose mapping was
deactivated meanwhile still writes the cache.

### ServiceConfig

`rows` are the rows of the name `SR_V3_INPUT_CONFIG_<merchant>`, `redis` and `mem`
its two caches, `lock` the calibrator's key of the interval.

| Action | Code |
|---|---|
| `Create`, `Replace`, `Delete` | `routes/rule_configuration.rs` |
| `TakeLock`, `ReadConfig` | `acquire_lock` (fails open), `calibrate_merchant` |
| `Clear` | `clear_autopilot_sublevel_overrides` of the hard refresh |
| `Insert`, `Update`, `PutRedis`, `PutMemory` | the write, then the two caches |
| `LookRedis`, `LookTable`, `Share`, `Remember` | a lookup, which also caches that there is no row |
| `Forget`, `Expire`, `Abandon` | the TTLs; a request that is dropped or fails |

A document is its defaults and an owner per cluster, human or calibrator.  The name
has no unique key in the schema.  A read that fails is taken by the calibrator for
a missing row.

`misled` names the actors whose read failed or is out of date, `doubled` says that
one of them inserted.

### Hierarchy

`rows` are the rows of each account, known by the place (merchant and org) they hold,
`entries` the rows of each index name, known by the ids they list, `mem` what each
process remembers of accounts.  Neither table has a key that refuses a second row, and
a lookup takes any of several.  `sync` are the syncs, of one org each, `walk` the
requests that load an account or expand a merchant or an org.

| Action | Code |
|---|---|
| `LoadScope`, `FillScope`, `InsertScope`, `UpdateScope`, `EvictScope` | `sync_hierarchy`, per profile: `load_merchant_by_merchant_id`, `insert_merchant_account`, `update_merchant_hierarchy` |
| `ReadEntry`, `LookEntry`, `WriteEntry` | `write_reverse_indexes`, per name: `read_entry`, then the two statements of `write_entry` |
| `Begin`, `OpenMerchant`, `LoadCandidate`, `FillCandidate` | `scopes_for_grant`, `scopes_under_merchant`, `granted_profile` |
| `DeleteAccount`, `Forget`, `FailSync` | `delete_merchant_account`; the TTL of the memory; a failed statement or a stop |

A read that fails counts as no account and as an empty entry.  The read that
`update_merchant_hierarchy` makes to keep other metadata is one step with its
write; names, the cap of 500 scopes and the table read that reports stranded scopes
are left out.  A row that failed to be read may be inserted again.  The ghosts: `blind` and
`lost` name the syncs that are about to write an entry from a read that no longer
holds, and those whose ids such a write may have dropped; `placedBy` is the sync whose
place a profile has; `stale` says which profiles a process may remember as they were.

## 4. The runs

| Run | Checks | Shows |
|---|---|---|
| `sr_feedback` | `WindowIsNewest`, `ScoreExplained`, `WipeOnlyWhenMisled` | two tasks and a decider race on one gateway with two bucket sizes, faults and a flush: the list stays the newest part of its history, and a complete window is wiped only by a task whose answers were falsified |
| `sr_reset` | `ListMatchesScoreKey`, `KeepsContract` | a decider resets one of two gateways among feedback and a flush, at a bucket size that loses a zero to rounding; the keys implement `SrContract` |
| `score_update` | `OneEntryPerClass`, `LockMeansClassified`, `Settles`, `HolderFinishes` | two deliveries of a success or a pending status race for the locks under faults, expiries and a stop; accepted calls end, and whoever holds a lock ends past it |
| `score_drain` | `CleanDrainLosesNothing`, violated | the clean drain loses a spawned elimination update |
| `abtest` | `FirstOnceIfUndisturbed`, `SuccessEndsLifeIfUndisturbed`; `SyncedIsReachable`, `GrantsFollowTree` | two routing calls and two outcomes, with failing Redis; or two syncs of the account tree and a session in two processes, with a failure, a stop or a deletion |
| `cost_jobs` | `OneRunPerJob`, `ReportQueuedOnce`, `AckedMeansQueued`, `BucketsHaveAJob` | two workers, an upload, two deliveries, a deletion, with failures and crashes |
| `cost_live` | `JobsFinish`, `QueueKeepsContract` | without crashes every queued job ends, also those lost to another worker or to a deletion; the table implements `JobContract` |
| `elimination` | `LowScoreIsCounted`, `CountedOnce`, `RecordOutlivesItsTtl`, `ResetsAreSpaced` | two updates and two deciders on the keys of two merchants and a global one, with failing Redis, eviction and a clock that passes both TTLs |
| `cost_serving` | `SnapshotReflectsStaging`, `OverridesAreListed`, `ServedCatchesUp` | an ingestion of two chunks and a deletion, or two fee edits, with their refreshes and the ticker's, over two days with a failing statement |
| `routing` | `GatewaysAreThoseOfAccounts`, `RefusedStaysRefused`, `OneAccountEach`, `MethodIsServed`; `CacheReflectsActive`, `RunningIsLeftAlone`, `ServedSettles` | a payment of any kind through all filters; or two requests and an evaluation on the routing algorithms |
| `decider` | `EligibleUnlessOut`, `PenaltiesNeverPromote`, `HedgedStaysHedged`, `PromotionSavesCost` | one payment decided in every way over three gateways |
| `service_config` | `OneRowUnlessRaced`, `TuningKeepsOperatorsPart`, `ConfigSettles` | an edit, two turns of calibration or refresh, lookups, failures and stops |

`routing` checks two modules that share nothing, `GatewayFilter` and `RoutingRules`,
and `abtest` two others, `AbTest` and `Hierarchy`; a behaviour is of one of them,
chosen at the start (`part`), and stutters on the variables of the other.  `TypeOK` is
not among the checks: types are proved, as `TypeOK` or as part of the inductive
invariant (section 5).

### Findings

`score_drain` shows a disagreement between the code and a line of its own comments,
which `PROJECT.json` quotes: the drain at SIGTERM reports that all feedback tasks ended
while elimination updates, spawned outside the tracker, are still to run.

Some properties carry a condition that the runs show to be needed, because the
code does not exclude what the condition excludes:

* `FirstOnceIfUndisturbed` and `SuccessEndsLifeIfUndisturbed` hold while calls do not
  overlap.  A routing call that reads the flag before an outcome marks the record
  and writes it afterwards puts the flag back down (`outcome.rs:55-57` says it must
  not), and two deliveries of a success that both read the record before either
  deletes it are both emitted.
* `BucketsHaveAJob` leaves out jobs claimed while a deletion held them: the deletion
  checks the status first (`report_upload.rs:110-111`, "In-progress jobs can't be
  deleted") and deletes the row whatever the status has become.
* `ReportQueuedOnce` counts the rows that are there.  The row is the only memory of a
  report, so one whose ingestion was deleted is queued again by the next poll.
* `OneEntryPerClass` leaves out locks whose TTL ran out.
* `WipeOnlyWhenMisled` leaves out tasks whose EXISTS answers no longer hold:
  `createKeysIfNotExist` acts on them in a later round trip, so of two first
  deliveries for a gateway, the one that asked first wipes the window the other
  has created and filled.
* `RecordOutlivesItsTtl` and `ResetsAreSpaced` leave out writers in `stale`: two
  updates that read the same record lose one of the two outcomes, one that
  overlaps a reset undoes it, and two overlapping deciders both reset.
  `RecordOutlivesItsTtl` also leaves out the wrap described above.
* `SnapshotReflectsStaging` holds of overlapping fits of a day, and of rows that come and
  go while they run.  It leaves out what an ingestion that is still staging, or failed
  half way, has staged since the last fit, as only a fit looks at it.  And it leaves out a
  merchant in `muddled`, from a step that left its snapshot wrong with no other fit
  about to clear it: a statement of the fit failed; it inserted what it had read before a
  deletion, or before another report was staged; it purged on a count that
  another fit's insert had outdated.  A fit that is not of the merchant's newest day, or
  meets a fit of another day, muddles it too.  Each ends with the next clear that meets
  no such fit.  A model without any one of these violates the property: nothing
  serialises fits, although `fit.rs:531` says that the result exactly reflects the staging.
* `OverridesAreListed` leaves out edits that failed half way or met another: nothing
  serialises these either.
* `TuningKeepsOperatorsPart` leaves out a calibration whose read is out of date: an
  operator's edit between the read and the write-back is lost, although the comment
  at `sr_auto_calibration.rs:311-312` says that fields the calibrator does not
  manage are preserved.  `OneRowUnlessRaced` leaves out inserts on a failed or
  outdated read.
* `CacheReflectsActive` and `RunningIsLeftAlone` leave out writers whose read is out
  of date; `ServedSettles` says that the TTL repairs the cache.
* `SyncedIsReachable` leaves out a sync whose ids another sync dropped, by writing an
  entry it had read before, or could not read: `routes/hierarchy.rs:429` says that
  every level merges, and a failed read replaces the list.  It speaks of profiles that
  have the sync's place: a sync in a process that remembers a profile as it was before a
  move takes a move back for unchanged, and leaves the profile where it is.
* `GrantsFollowTree` leaves out profiles in `stale`: a move is evicted from one process
  only, and a load that has read the row before puts it back.  `user_auth.rs:629-630`
  says that a moved scope stops being reachable at the next attempt, and
  `merchant_account.rs:315-316` that the next read serves the new tree; elsewhere this
  takes `service_config_ttl`.
* `EligibleUnlessOut` leaves out gateways an outage inserted: `docs/introduction.mdx:8`
  speaks of eligible gateways only.

Behaviours that the models show and no property forbids: the zero lost to rounding;
the panic of a reset with a bucket of one entry; a job whose worker is lost after its
claim, which nothing lists again as it is processing; a pending status that
is emitted as the A/B attempt's failed outcome, with the success that follows as a
second event (`gateway_scoring_service.rs:459`); tiers fitted from deleted data that
are served until a fit replaces them; a promotion to a dearer gateway when the
margin does not cover the head's cost; and a cost step on priority scores.

### Bounds, and why they are enough

* SrWindow: two racing tasks and a decider on one gateway; two gateways for one to
  lag.  Sizes 1 and 2 include the smallest bucket, where the clamp panics, and one
  that is trimmed; a window never needs to be longer than one entry more than the
  largest bucket.  Size 22 is the smallest that loses a zero.
* ScoreUpdate: the lock is between two deliveries, and each class and gateway has its
  own, so two of each on one gateway make every pair collide.  A pending status
  changes its class with time, a success does not; the other statuses classify as one
  of the two.  One elimination key is enough for a task that outlives its parent.
* AbTest: a retry and its outcome against a first attempt and its outcome.
* CostJobs: a batch of two rows for two workers makes lists overlap; two ids allow a
  row to be deleted and its report queued again; `MaxJobs` is the only cap on a
  counter.  `cost_live` has one delivery, and neither faults nor losses; that the
  contract survives those too is the theorem's to say.
* Elimination: two updates and two deciders, so that any two of a kind or of both
  collide; an array limited to 1 or 2 entries with two merchants; a hard TTL of 3
  with a margin of 1 and a soft TTL of 1 let both TTLs pass within `MaxTime` = 4,
  the only cap on the clock.  Two penalties from 1.0 to the minimum are enough for
  a score to cross the threshold.
* CostServing: two days, so that a snapshot may be older than the newest; one failing
  statement; reports of at most two chunks (`MaxChunks`), so that one may be staged and
  the next fail; one merchant that ingests and one that has nothing, so that a
  refresh of all has something to overwrite.  Fits and edits are in behaviours of
  their own (`Apart`), as they meet only in the entry a refresh puts together.  At
  most two refreshes are under way at once, and none while two tasks stage or fit
  (`FitsApart`): two fits meet in every order, and a refresh meets every point of one fit.
  Behaviours in which tasks that stopped keep the ticker out for ever are therefore not
  among those that `ServedCatchesUp` is checked of; a refresh reads the tables alone, whoever
  stopped after writing them.
* GatewayFilter: four gateways and six accounts give a gateway with two accounts, one
  under another reference id, and gateways on each kind of list.
* Decider: three gateways, so that a penalised one may fall behind one and not
  another; rates 1.0, 0.9 and 0.18, of which the last lies below a penalised first; five
  lists, one with a repetition; three cost tables, with equal costs and with a
  gateway that has none; margins below, at and above the costs.
* RoutingRules: three algorithms of two kinds (two compete for a kind, the third
  for the cache key), two requests, one evaluation at a time.
* ServiceConfig: one cluster, one edit, two tuners in two processes; the edit meets
  each tuner in every order.  Lookups are watched in one process, as each
  process has a map of its own.
* Hierarchy: two syncs, of which the second moves the profile of the first and adds
  another to its merchant, so that they meet on a row and on three entries; a process
  that the session shares with one of them; one mishap (`MaxMishaps`), which is a failed
  statement, a stop or a deletion anywhere.
* No model caps a counter otherwise: tasks and calls are finite sets.
  Symmetry is used among tasks, deliveries, workers, reports and merchants in runs
  that check invariants and action properties, never in a run that checks liveness.
* `CHECK_DEADLOCK FALSE` is given where every call may have been made and have
  ended, after which the model rightly stops.

### Fairness

* `score_update`: each spawned task and each elimination update is weakly fair, as
  the tokio executor polls every task that is ready, and the shutdown sequence goes
  on by itself.  Receiving a call, faults, expiry and signals are not fair; a stop
  ends a task too.
* `cost_live`: a worker's cycle is started again by its ticker and the job it holds
  proceeds; deliveries, uploads and deletions are not fair, since nothing
  obliges anyone to make a request.
* `cost_serving`: only the ticker's refresh is fair (`spawn` loops for ever); requests
  may stop anywhere, and the ticker alone makes the cache catch up.
* `routing`: a request that was begun goes on or is dropped, an evaluation ends, and
  the cache entry expires.
* `service_config`: writes and reads under way go on, the memory cache forgets and
  Redis expires; nobody need ask.

## 5. Proofs

The proofs hold for every value of the constants that satisfies the named
assumptions of the modules.  Types come first in each module, as `TypeOK` or a
strengthening of it.

`SrWindowProofs` proves, from `Gateways # {}`, a non-empty set of positive bucket
sizes and, for the last theorem alone, that a pair of `LostZeros` is one of a reset, which
spreads at least two zeros (the clamp of `reset_sr_v3_score`):

* `TypeInvariant`: `TypeOK`.  Part of it is that a reset's zeros never exceed the
  bucket it was computed for, which the subtraction for the score key needs.
* `WindowIsNewestHolds`: each step that writes a list is either a creation, after
  which list and history are equal, a push and trim, or a deletion; the lemma on
  `PushTrim` says the trimmed list is a prefix of the extended history and no
  shorter than the smallest bucket.
* `ScoreExplainedHolds`: needs `WindowIsNewest` no further than the typing; a
  window only takes a 0 in a step that blames its gateway.
* `KeysKeepContract`: initial states map to initial states of `SrContract`, and every
  step to `Open`, `Record`, `Penalise`, `Forget` or a stutter.  A reset whose command
  fails and a creation with no effect are stutters.
* `WipesAreMisled`: the inductive invariant says that a task that is not misled
  still has true answers, hence creates only where a key is missing.
* `ListMatchesScoreKeyHolds`: the property says what the two keys contain and is not
  inductive; `FreshWindows` says what wrote them.  While no outcome has reached a
  window, its list is the seed of some bucket size or the list of a reset, and the score
  key, unless a flush took it, is that size less the zeros; a decider about to reset
  has two zeros at least and no more than its bucket holds.  That this gives the
  property is arithmetic: zeros spaced by `(b - 1) / (z - 1) >= 1` and rounded up never
  fall on the same slot (`SpacingIncreases`), and none falls off the list
  (`SpacingFits`), so that the map from zeros to slots is a bijection and the list holds
  as many as were spread.

`ScoreUpdateProofs` proves `TypeInvariant`, `OneEntryPerClassHolds` and
`LockMeansClassifiedHolds`.  The first property is not inductive; the strengthening
relates an entry to the delivery the lock let through: a lock key that has not
expired has at most one winner, a task past the lock is a winner of its own key, and
whoever wrote an entry is a winner of the key of that entry.  For the second, a
winner stays a delivery that was classified with the key's class, whatever ends it.

`AbTestProofs` proves the two properties of the record that the run checks, and that a
record is always well formed (`RecordsConsistent`).  `NoneAhead` says that no
record is numbered beyond `life`.  `Tidy` relates the key to the events while
nothing was disturbed: what a caller has read is what the key holds unless it is
stale, no success was emitted for a record that still exists, and a first attempt
emitted for it has left its mark.

It also proves the two of `Hierarchy`, for any profiles, merchants, orgs, syncs, sessions
and processes, from names of merchants, orgs and the root that differ:

* `SyncedReachable`: `TreeInv` adds what a sync has behind it and what it carries.  A name
  that a sync wrote has rows, each of which lists its ids unless it is in `lost`
  (`Listing`); a sync about to write, unless it is `blind`, carries its own ids and all
  that those before it wrote there (`Carried`); a profile placed by one sync alone has
  one row, with that place (`Placed`).
* `GrantsFollow`: what a process remembers, or has read and is about to remember, of a
  profile that is not in `stale` is one of the rows there are (`InMind`).

`CostJobsProofs` proves, from `Manual \notin Reports` and `Workers \cap Uploads = {}`,
`TypeInvariant`, all four safety invariants of the queue and its refinement.  `QueueInv` is
inductive: ids are handed out in order, a job in someone's hands is processing (or
was deleted under a stale request), nobody shares a job, and a delete request holds
a row that existed and that nobody held when it was read; once it is about to drop the
row, the row has no buckets left unless it was claimed in between.  From it follow
`OneRunPerJobHolds` and `BucketsHaveAJobHolds`.  `EnqueueInv` (live rows of a report are
one row; an acknowledged delivery named a report with a row) gives
`ReportQueuedOnceHolds` and `AckedMeansQueuedHolds`.  For `QueueKeepsContractHolds`
there is one lemma per step that changes a row or a claim; every other step is a
stutter.  `LifeInv` is what these need beyond the two invariants: a runner between two
cycles holds nothing, and a row that is processing while a delete request holds it
was claimed since the request read it.

`EliminationProofs` proves all five properties of `Elimination`, from disjoint sets of
merchants and global keys, finitely many updates and ordered bounds.

* `LowScoreIsCountedHolds`: the invariant speaks of every record around, in a key or in
  the hands of a task or a decider, and each operation on one record keeps it.
* `CountedOnceHolds`: a record in a key counts no more than the updates that are done,
  one in the hands of a task no more than those and the task itself.  A task that is
  done stays done, so what was counted once may be written back later by anyone.
* `RecordOutlivesItsTtlHolds`, `ResetsAreSpacedHolds`: the invariant says what a writer
  that is not stale holds: something made from the record that is in its key now, by
  an update or a reset, or a new record and the reason for it.

`RoutingProofs` proves, of `GatewayFilter`, for any accounts and lists:

* `ListsAgree`, `RefusedStays`: every filter ends in one of three ways of setting the
  lists, and one lemma for each says that agreement and refusal survive it.
* `FlowsEnforced`: `FlowsAreThePayments` is established by the load and kept, as
  accounts only leave afterwards.
* `AccountDetermined`: at the end from what the selection of accounts leaves.
* `MethodServed`: the invariant says which conditions on the remaining gateways each
  stage of the chain has established; gateways only leave, so that each stays.

and of `RoutingRules`, for any algorithms, kinds, requests and evaluations, from marks
outside the values and requests that are no evaluations:

* `CacheReflects`, `RunningLeftAlone`: neither is inductive, as both speak of a moment
  when nobody is on the way.  `RulesInv` says what a request or an evaluation knows
  that is not in `muddled`: an activation still carries the row as it is in the table, and
  before it writes the cache its algorithm is active; an edit or a deletion about to
  write has an inactive one; an evaluation about to fill the cache holds an active
  algorithm in the table's version.  Every write of the tables puts all others
  that carry a read into `muddled`, and its own request stands before the cache until it
  has written it or failed to.

`DeciderProofs` proves the four properties of `Decider`.

* `DecidedIsEligible`: the scored gateways are functional or out, at each stage.
* `PenaltiesHold`: the scores at the decision are the initial ones, those hit divided
  by five per round; scores not hit are as they were.  Multiplication and integer
  division need lemmas of their own.
* `HedgedStays`: the label of an exploring payment keeps its kind until the decision,
  and the cost step is not entered with it.
* `PromotionsSaveCost`: with a score that is not negative and a margin at least the
  head's cost, a higher expected value at no higher score needs a lower cost.

and of `CostServing`, for any merchants, clusters, connectors and tasks, any number of days
and of faults, from disjoint tasks and finitely many clusters:

* `SnapshotReflects`: the invariant (`Fitted`) adds to the property what holds of a
  merchant not in `muddled` while fits are under way.  As long as one of them is still to
  clear, nothing need hold, as the clear makes up for what the others do.  Once none is,
  they are all of one day, no later snapshot hides theirs, that holds nothing but
  what is staged, and it lacks nothing either, or one of the fits will yet write what it
  lacks (`OneSnapshot`, `Writers`).  Staging a chunk keeps this, as the ingestion
  accounts for what the snapshot lacks while it stages or when it fails, and
  comes to its own clear otherwise; so does a deletion, in the step that removes the
  rows.  A step after which none of this holds muddles the merchant.
* `OverridesListed`: `Untangled` says what is left to the one edit there is: which of the
  value, the merchant's list and the global list it has brought into agreement, and that
  the list it has read is still the one that is stored.  All other merchants agree.
* Both need `PullsAreDue`: a refresh under way belongs to a task that has come to it, so
  that its end ends no fit and no edit still at work.

`ServiceConfigProofs` proves, from disjoint actors and marks outside the values:

* `OneRow`, `OperatorsKept`: an actor that is not misled and is about to write holds
  what it made of the rows there are now: about to insert, there is none; about to
  update, the operators' part of its document is that of a row.  Every write
  makes the other actors about to write misled.

Every invariant and every action property that a passing run checks is so a theorem, and
so are the refinements of `SrContract` and `JobContract`.  What only the model checker shows are the liveness
properties (`Settles`, `HolderFinishes`, `JobsFinish`, `ServedCatchesUp`,
`ServedSettles`, `ConfigSettles`), whose fairness and ENABLED the prover does not handle,
and the violation in `score_drain`.  That each theorem also holds of the composed
instances the runs check is by construction: a composite only chooses which component
moves.

## 6. What is not modelled

* How keys, dimensions and sub-level configurations are looked up: a model's
  gateway stands for one key.  The fallback chain of `findByNameFromRedisWithDefault`.
* The numbers: SR is an exact fraction, and an elimination score a number of
  penalties; the factors themselves, and their dependence on the key type and on
  the V2 features, are not computed.  What the calibrator tunes a cluster to.
* Reading the global elimination keys at decision time, and outage keys as a kind of
  their own: their verdicts are choices of `Decider`.
* SR windows and documents of more than one merchant: merchants share none.  Routing
  algorithms of more than one: a request names the merchant and the algorithm, and
  activation and deletion do not check that the one owns the other
  (`euclid/handlers/routing_rules.rs:877-1012`, `1249-1289`); only requests that name a merchant's own
  algorithms are modelled.
* `gw_filter_new.rs`, which nothing calls, and the wording of failure reasons
  (`flows.rs`).
* The list of fallback gateways in a decision, and the debug records.
* Parsing of reports and documents, connector credentials, HTTP, templates, metrics
  and logs.
* The Euclid interpreter, the validation of a program and the eligibility graph; the
  debit networks (`decider/network_decider`): sequential functions of their input.
* Fee overrides of clusters and invoice add-ons, which take the path of connector
  fees; the reporting queries of `blended.rs`.
* Analytics: best-effort export through bounded queues that nothing in the service
  reads back.
* Of the account tree: several orgs in one request, the reconcile report, names.
* Sign-in, tokens, invitations and API keys, GSM rules, the dashboard, charts and
  migrations: request-scoped reads and writes of rows without a protocol of their
  own.
