----------------------------- MODULE CostServing -----------------------------
(***************************************************************************)
(* From staged reports to the cost model a decision is priced with.  An    *)
(* ingestion stages its report in chunks and fits the merchant's clusters  *)
(* into a snapshot of the day; deleting an ingestion fits again; each of   *)
(* these is a series of separate ClickHouse statements, any of which may   *)
(* fail with the ones before it done.  A refresh, of one merchant          *)
(* after a change or of all by a ticker, reads the snapshots and tiers and *)
(* the merchants' own fees, one query at a time, and swaps the result into *)
(* the in-process cache.  Fees are edited through indices that are JSON    *)
(* lists, read and written back in separate statements.                    *)
(***************************************************************************)
EXTENDS Integers, FiniteSets

CONSTANTS Merchants,   \* merchants, each with one connector account
          Clusters,    \* cost clusters reports have rows of
          Connectors,  \* connectors a merchant may set a fee for
          Ingests,     \* ingestion tasks; each one's report is named after it
          Undos,       \* delete requests
          Editors,     \* fee-override requests
          Before,      \* ingestions of one merchant that ended before the start
          Ticker,      \* the periodic refresh
          Capped,      \* reports after which no single line fits a cluster
          Sparse,      \* reports too small to grade a cluster by themselves
          MaxChunks,   \* bound: requests that the rows of a report are sent in
          MaxDay,      \* bound: days that pass
          MaxFaults    \* bound: statements that fail

\* The kinds of tasks are told apart, and reports have finitely many clusters.
ServingAssumption ==
  /\ Capped \subseteq Ingests /\ Sparse \subseteq Ingests /\ Before \subseteq Ingests
  /\ Ingests \cap Undos = {} /\ Ingests \cap Editors = {} /\ Undos \cap Editors = {}
  /\ Ticker \notin Ingests \cup Undos \cup Editors
  /\ Merchants # {} /\ Connectors # {} /\ IsFiniteSet(Clusters)
  /\ MaxChunks \in Nat \ {0} /\ MaxDay \in Nat \ {0} /\ MaxFaults \in Nat

VARIABLES day,      \* today
          staged,   \* cost_daily_stats: pieces with rows, by merchant and cluster
          model,    \* cost_fee_model: pieces a row was fitted from, by day
          tiers,    \* cost_fee_model_segment, likewise
          fit,      \* ingestions and deletions
          fee,      \* stored overrides of each merchant
          index,    \* the merchant's list of connectors with an override
          globals,  \* the list of merchants with an override
          edit,     \* fee-override requests
          pull,     \* refreshes, by the task that runs them
          served,   \* the cache decisions read
          faults,   \* statements that have failed
          muddled,  \* ghost: merchants whose snapshot a fit left wrong
          tangled   \* ghost: an edit overlapped another, or failed

tables == <<staged, model, tiers>>
overlays == <<fee, index, globals, edit, tangled>>
vars == <<day, tables, fit, overlays, pull, served, faults, muddled>>

Days == 1..MaxDay
Fitters == Ingests \cup Undos
Actors == Fitters \cup Editors
Refreshers == Actors \cup {Ticker}

\* What one insert request puts into a cluster: a report's chunk of that number.
Pieces == Ingests \X (1..MaxChunks)
Rows == [Clusters -> SUBSET Pieces]
NoRows == [c \in Clusters |-> {}]
EmptyEntry == [flat |-> NoRows, tiers |-> NoRows, fees |-> {}]

AMerchant == CHOOSE m \in Merchants : TRUE
AConnector == CHOOSE k \in Connectors : TRUE
IdleFit == [pc |-> "idle", m |-> AMerchant, day |-> 0, chunks |-> 0, stats |-> NoRows]
IdleEdit == [pc |-> "idle", m |-> AMerchant, k |-> AConnector, op |-> "put",
             list |-> {}]
IdlePull == [pc |-> "idle", entry |-> [m \in Merchants |-> EmptyEntry]]

\* The whole-cluster verdict over the rows of some reports' pieces.
Verdict(pieces) ==
  LET reports == {p[1] : p \in pieces} IN
  IF reports \cap Capped # {} THEN "capped"
  ELSE IF reports \subseteq Sparse THEN "thin" ELSE "good"

Only(verdict, rows) ==
  [c \in Clusters |-> IF Verdict(rows[c]) = verdict THEN rows[c] ELSE {}]

\* The snapshot of the latest day that has one: max(report_date).
Latest(snapshots) ==
  IF \A d \in Days : snapshots[d] = NoRows THEN NoRows
  ELSE snapshots[CHOOSE d \in Days :
                   /\ snapshots[d] # NoRows
                   /\ \A e \in Days : e > d => snapshots[e] = NoRows]

Init ==
  /\ day = 1
  /\ staged = [m \in Merchants |-> IF m = AMerchant
                                  THEN [c \in Clusters |-> Before \X {1}] ELSE NoRows]
  /\ model = [m \in Merchants |-> [d \in Days |-> IF d = 1 THEN staged[m] ELSE NoRows]]
  /\ tiers = [m \in Merchants |-> [d \in Days |->
                IF d = 1 THEN Only("capped", staged[m]) ELSE NoRows]]
  /\ fit = [t \in Fitters |-> IF t \in Before THEN [IdleFit EXCEPT !.pc = "done"]
                              ELSE IdleFit]
  /\ fee = [m \in Merchants |-> {}]
  /\ index = [m \in Merchants |-> {}]
  /\ globals = {}
  /\ edit = [e \in Editors |-> IdleEdit]
  /\ pull = [x \in Refreshers |-> IdlePull]
  /\ served = [m \in Merchants |->
       [EmptyEntry EXCEPT !.flat = Only("good", staged[m]),
                          !.tiers = Only("capped", staged[m])]]
  /\ faults = 0 /\ muddled = {} /\ tangled = FALSE

Fault == faults < MaxFaults /\ faults' = faults + 1
NoFault == UNCHANGED faults

Goto(t, pc) == fit' = [fit EXCEPT ![t].pc = pc]
At(m, pcs) == {t \in Fitters : fit[t].m = m /\ fit[t].pc \in pcs}
Fitting(m) == At(m, {"clear", "fit", "insert", "count", "purge"})

-----------------------------------------------------------------------------
(* Ingestion and deletion up to the fit.                                    *)

\* ingest_report_reader: the day of the snapshot is fixed before parsing.
StartIngest(t) ==
  /\ fit[t].pc = "idle"
  /\ \E m \in Merchants :
       fit' = [fit EXCEPT ![t] = [IdleFit EXCEPT !.pc = "stage", !.m = m, !.day = day]]
  /\ UNCHANGED <<day, tables, overlays, pull, served, faults, muddled>>

StagingEnds(t, pc) == fit' = [fit EXCEPT ![t].pc = pc, ![t].chunks = 0]

\* insert_daily_stats: the next request of a report's rows.  One that fails ends the
\* ingestion without a fit, and leaves what the requests before it, or the failed one
\* itself, have written.  A report that does not parse fails before the first.
StageChunk(t) ==
  /\ fit[t].pc = "stage"
  /\ LET chunk == fit[t].chunks + 1 IN
     \/ /\ chunk <= MaxChunks
        /\ \E cs \in (SUBSET Clusters) \ {{}} :
             staged' = [staged EXCEPT ![fit[t].m] =
               [c \in Clusters |-> IF c \in cs THEN @[c] \cup {<<t, chunk>>} ELSE @[c]]]
        /\ \/ fit' = [fit EXCEPT ![t].chunks = chunk] /\ NoFault
           \/ Fault /\ StagingEnds(t, "failed")
     \/ Fault /\ StagingEnds(t, "failed") /\ UNCHANGED staged
  /\ UNCHANGED <<day, model, tiers, overlays, pull, served, muddled>>

\* The rows are written, all of them, or there are none: the fit follows.
EndStaging(t) ==
  /\ fit[t].pc = "stage"
  /\ StagingEnds(t, "clear")
  /\ UNCHANGED <<day, tables, overlays, pull, served, faults, muddled>>

\* delete_ingestion: the rows of one ingestion that has ended go, then a refit
\* stamped today.
DeleteRows(t) ==
  /\ fit[t].pc = "idle"
  /\ \E r \in Ingests :
       /\ fit[r].pc \in {"refresh", "done", "failed"}
       /\ staged' = [staged EXCEPT ![fit[r].m] =
                       [c \in Clusters |-> {p \in @[c] : p[1] # r}]]
       /\ fit' = [fit EXCEPT ![t] = [IdleFit EXCEPT !.pc = "clear", !.m = fit[r].m,
                                                    !.day = day]]
  /\ UNCHANGED <<day, model, tiers, overlays, pull, served, faults, muddled>>

NextDay ==
  /\ day < MaxDay /\ day' = day + 1
  /\ UNCHANGED <<tables, fit, overlays, pull, served, faults, muddled>>

-----------------------------------------------------------------------------
(* fit_snapshot.  The first four statements end the fit when they fail; the *)
(* tiers are best effort.                                                   *)

\* Fitted rows reflect the staging when they are staged, and what they lack is of the
\* merchant's ingestions that still stage, or failed to.
Reflects(rows, m) ==
  \A c \in Clusters :
    /\ rows[c] \subseteq staged[m][c]
    /\ \A p \in staged[m][c] \ rows[c] : p[1] \in At(m, {"stage", "failed"})

\* Fits of the merchant that will yet replace its snapshot by what is staged.
Writers(m) ==
  At(m, {"clear", "fit"}) \cup {t \in At(m, {"insert"}) : Reflects(fit[t].stats, m)}

\* A fit that leaves a wrong snapshot muddles it, unless another is about to clear it.
Muddle(t, wrong) ==
  muddled' = IF wrong /\ At(fit[t].m, {"clear"}) \ {t} = {} THEN muddled \cup {fit[t].m}
             ELSE muddled

\* A deletion serves what there is after a failed refit, an ingestion does not.
AfterFailure(t) == IF t \in Undos THEN "refresh" ELSE "done"

FitFails(t) == Fault /\ Goto(t, AfterFailure(t)) /\ Muddle(t, TRUE)

\* The fits of the merchant are of one day, and no later snapshot hides it.
Undisturbed(t) ==
  LET m == fit[t].m IN
  /\ \A o \in Fitting(m) : fit[o].day = fit[t].day
  /\ \A d \in Days : d > fit[t].day => model[m][d] = NoRows

Cleared(snapshots, d) == [snapshots EXCEPT ![d] = NoRows]

\* The snapshot goes, and with it what earlier fits of the day left wrong.
ClearSnapshot(t) ==
  /\ fit[t].pc = "clear"
  /\ LET m == fit[t].m IN
     \/ /\ model' = [model EXCEPT ![m] = Cleared(@, fit[t].day)]
        /\ Goto(t, "fit") /\ NoFault
        /\ muddled' = IF Undisturbed(t) THEN muddled \ {m} ELSE muddled \cup {m}
     \/ FitFails(t) /\ UNCHANGED model
  /\ UNCHANGED <<day, staged, tiers, overlays, pull, served>>

\* FIT_SQL reads what is staged when it starts, and inserts when it has fitted it.
ReadRows(t) ==
  /\ fit[t].pc = "fit"
  /\ fit' = [fit EXCEPT ![t].pc = "insert", ![t].stats = staged[fit[t].m]]
  /\ UNCHANGED <<day, tables, overlays, pull, served, faults, muddled>>

\* Newer rows of a cluster replace older ones, rows of other clusters stay.
Inserted(snapshot, rows) ==
  [c \in Clusters |-> IF rows[c] = {} THEN snapshot[c] ELSE rows[c]]

InsertRows(t) ==
  /\ fit[t].pc = "insert"
  /\ LET m == fit[t].m IN
     \/ /\ model' = [model EXCEPT ![m][fit[t].day] = Inserted(@, fit[t].stats)]
        /\ fit' = [fit EXCEPT ![t].pc = "count", ![t].stats = NoRows]
        /\ Muddle(t, ~Reflects(fit[t].stats, m)) /\ NoFault
     \/ FitFails(t) /\ UNCHANGED model
  /\ UNCHANGED <<day, staged, tiers, overlays, pull, served>>

\* Mutant: an empty refit leaves the earlier snapshots.
ShouldPurgeNever(count) == FALSE

ShouldPurge(count) == count = 0

CountRows(t) ==
  /\ fit[t].pc = "count"
  /\ LET count == Cardinality({c \in Clusters : model[fit[t].m][fit[t].day][c] # {}}) IN
     \/ /\ Goto(t, IF ShouldPurge(count) THEN "purge" ELSE "clearTiers")
        /\ NoFault /\ UNCHANGED muddled
     \/ FitFails(t)
  /\ UNCHANGED <<day, tables, overlays, pull, served>>

PurgeModel(t) ==
  /\ fit[t].pc = "purge"
  /\ \/ /\ model' = [model EXCEPT ![fit[t].m] = [d \in Days |-> NoRows]]
        /\ Goto(t, "clearTiers") /\ NoFault
        /\ Muddle(t, ~Reflects(NoRows, fit[t].m) /\ Writers(fit[t].m) = {})
     \/ FitFails(t) /\ UNCHANGED model
  /\ UNCHANGED <<day, staged, tiers, overlays, pull, served>>

\* refresh_segments: an error leaves the fit a success.
ClearTiers(t) ==
  /\ fit[t].pc = "clearTiers"
  /\ \/ /\ tiers' = [tiers EXCEPT ![fit[t].m] = Cleared(@, fit[t].day)]
        /\ Goto(t, "readTiers") /\ NoFault
     \/ Fault /\ Goto(t, "refresh") /\ UNCHANGED tiers
  /\ UNCHANGED <<day, staged, model, overlays, pull, served, muddled>>

\* Only clusters that one line does not fit, and tiers do, get rows.
ReadTierStats(t) ==
  /\ fit[t].pc = "readTiers"
  /\ LET capped == Only("capped", staged[fit[t].m]) IN
     \/ /\ fit' = [fit EXCEPT ![t].stats = capped,
                     ![t].pc = IF capped = NoRows THEN "refresh" ELSE "insertTiers"]
        /\ NoFault
     \/ Fault /\ Goto(t, "refresh")
  /\ UNCHANGED <<day, tables, overlays, pull, served, muddled>>

InsertTiers(t) ==
  /\ fit[t].pc = "insertTiers"
  /\ fit' = [fit EXCEPT ![t].pc = "refresh", ![t].stats = NoRows]
  /\ \/ /\ tiers' = [tiers EXCEPT ![fit[t].m][fit[t].day] = Inserted(@, fit[t].stats)]
        /\ NoFault
     \/ Fault /\ UNCHANGED tiers
  /\ UNCHANGED <<day, staged, model, overlays, pull, served, muddled>>

-----------------------------------------------------------------------------
(* overrides::put and overrides::delete.  A list is read in one statement   *)
(* and written back in another.                                             *)

EditTo(e, pc) == edit' = [edit EXCEPT ![e].pc = pc]
Editing == {e \in Editors : edit[e].pc \notin {"idle", "refresh", "done"}}

EditFails(e) ==
  Fault /\ EditTo(e, "done") /\ tangled' = TRUE

\* The value is written or deleted; deleting what is not there is an error.
StartEdit(e) ==
  /\ edit[e].pc = "idle"
  /\ \E m \in Merchants, k \in Connectors, op \in {"put", "drop"} :
       /\ op = "drop" => k \in fee[m]
       /\ fee' = [fee EXCEPT ![m] = IF op = "put" THEN @ \cup {k} ELSE @ \ {k}]
       /\ edit' = [edit EXCEPT ![e] = [pc |-> "readIndex", m |-> m, k |-> k, op |-> op,
                                       list |-> {}]]
  /\ tangled' = (tangled \/ Editing # {})
  /\ UNCHANGED <<day, tables, fit, index, globals, pull, served, faults, muddled>>

ReadIndex(e) ==
  /\ edit[e].pc = "readIndex"
  /\ \/ /\ edit' = [edit EXCEPT ![e].pc = "writeIndex", ![e].list = index[edit[e].m]]
        /\ NoFault /\ UNCHANGED tangled
     \/ EditFails(e)
  /\ UNCHANGED <<day, tables, fit, fee, index, globals, pull, served, muddled>>

WriteIndex(e) ==
  /\ edit[e].pc = "writeIndex"
  /\ LET m == edit[e].m
         k == edit[e].k IN
     \/ /\ index' = [index EXCEPT ![m] =
              IF edit[e].op = "drop" THEN edit[e].list \ {k}
              ELSE IF k \in edit[e].list THEN @ ELSE edit[e].list \cup {k}]
        /\ EditTo(e, IF edit[e].op = "put" THEN "readGlobal" ELSE "prune")
        /\ NoFault /\ UNCHANGED tangled
     \/ EditFails(e) /\ UNCHANGED index
  /\ UNCHANGED <<day, tables, fit, fee, globals, pull, served, muddled>>

\* Mutant: the merchant stays on the global index.
PrunesNever(list) == FALSE

Prunes(list) == list = {}

PruneGlobal(e) ==
  /\ edit[e].pc = "prune"
  /\ \/ /\ EditTo(e, IF Prunes(index[edit[e].m]) THEN "readGlobal" ELSE "refresh")
        /\ NoFault /\ UNCHANGED tangled
     \/ EditFails(e)
  /\ UNCHANGED <<day, tables, fit, fee, index, globals, pull, served, muddled>>

ReadGlobal(e) ==
  /\ edit[e].pc = "readGlobal"
  /\ \/ /\ edit' = [edit EXCEPT ![e].pc = "writeGlobal", ![e].list = globals]
        /\ NoFault /\ UNCHANGED tangled
     \/ EditFails(e)
  /\ UNCHANGED <<day, tables, fit, fee, index, globals, pull, served, muddled>>

WriteGlobal(e) ==
  /\ edit[e].pc = "writeGlobal"
  /\ LET m == edit[e].m IN
     \/ /\ globals' = IF edit[e].op = "drop" THEN edit[e].list \ {m}
                      ELSE IF m \in edit[e].list THEN globals ELSE edit[e].list \cup {m}
        /\ edit' = [edit EXCEPT ![e].pc = "refresh", ![e].list = {}]
        /\ NoFault /\ UNCHANGED tangled
     \/ EditFails(e) /\ UNCHANGED globals
  /\ UNCHANGED <<day, tables, fit, fee, index, pull, served, muddled>>

-----------------------------------------------------------------------------
(* refresh_inner: the model, the tiers, the overlays, and the swap.          *)

MerchantOf(x) == IF x \in Fitters THEN fit[x].m ELSE edit[x].m
Scope(x) == IF x = Ticker THEN Merchants ELSE {MerchantOf(x)}

\* The task has come to its refresh; the ticker comes to it again and again.
Due(x) == \/ x = Ticker
          \/ x \in Fitters /\ fit[x].pc = "refresh"
          \/ x \in Editors /\ edit[x].pc = "refresh"

PullTo(x, pc, entry) == pull' = [pull EXCEPT ![x] = [pc |-> pc, entry |-> entry]]

\* A task whose refresh has ended, either way, is done.
EndTask(x) ==
  /\ fit' = IF x \in Fitters THEN [fit EXCEPT ![x].pc = "done"] ELSE fit
  /\ edit' = IF x \in Editors THEN [edit EXCEPT ![x].pc = "done"] ELSE edit

PullFails(x) ==
  Fault /\ pull' = [pull EXCEPT ![x] = IdlePull] /\ EndTask(x)

\* What a query or an overlay puts into the entries under construction.
Filled(x, part, value) ==
  [m \in Merchants |-> IF m \in Scope(x) THEN [pull[x].entry[m] EXCEPT ![part] = value[m]]
                       ELSE pull[x].entry[m]]

PullCosts(x) ==
  /\ Due(x) /\ pull[x].pc = "idle"
  /\ \/ /\ PullTo(x, "costs",
               Filled(x, "flat", [m \in Merchants |-> Only("good", Latest(model[m]))]))
        /\ NoFault /\ UNCHANGED <<fit, edit>>
     \/ PullFails(x)
  /\ UNCHANGED <<day, tables, fee, index, globals, tangled, served, muddled>>

\* Without the tiers the merchant is served flat.
PullTiers(x) ==
  /\ pull[x].pc = "costs"
  /\ \/ /\ PullTo(x, "tiers", Filled(x, "tiers", [m \in Merchants |-> Latest(tiers[m])]))
        /\ NoFault
     \/ Fault /\ PullTo(x, "tiers", pull[x].entry)
  /\ UNCHANGED <<day, tables, fit, overlays, served, muddled>>

\* overrides::list skips connectors without a value; the ticker only looks at
\* merchants of the global index.  Without an answer there is no overlay.
Listed(x, m) == IF x = Ticker /\ m \notin globals THEN {} ELSE index[m] \cap fee[m]

PullFees(x) ==
  /\ pull[x].pc = "tiers"
  /\ \/ /\ PullTo(x, "fees", Filled(x, "fees", [m \in Merchants |-> Listed(x, m)]))
        /\ NoFault
     \/ Fault /\ PullTo(x, "fees", pull[x].entry)
  /\ UNCHANGED <<day, tables, fit, overlays, served, muddled>>

\* Mutant: the global rebuild keeps the merchants it found nothing of.
InstalledOver(x, m) ==
  IF m \in Scope(x) /\ ~(x = Ticker /\ pull[x].entry[m] = EmptyEntry)
    THEN pull[x].entry[m] ELSE served[m]

\* A merchant's own refresh leaves the others' entries as they are; one of all
\* replaces the cache by what it read, however long ago.
Installed(x, m) == IF m \in Scope(x) THEN pull[x].entry[m] ELSE served[m]

Swap(x) ==
  /\ pull[x].pc = "fees"
  /\ served' = [m \in Merchants |-> Installed(x, m)]
  /\ pull' = [pull EXCEPT ![x] = IdlePull]
  /\ EndTask(x)
  /\ UNCHANGED <<day, tables, fee, index, globals, tangled, faults, muddled>>

-----------------------------------------------------------------------------
IngestStep(t) == StageChunk(t) \/ EndStaging(t)
FitStep(t) ==
  \/ ClearSnapshot(t) \/ ReadRows(t) \/ InsertRows(t) \/ CountRows(t) \/ PurgeModel(t)
  \/ ClearTiers(t) \/ ReadTierStats(t) \/ InsertTiers(t)
EditStep(e) ==
  \/ ReadIndex(e) \/ WriteIndex(e) \/ PruneGlobal(e) \/ ReadGlobal(e) \/ WriteGlobal(e)
PullStep(x) == PullCosts(x) \/ PullTiers(x) \/ PullFees(x) \/ Swap(x)

Next ==
  \/ \E t \in Ingests : StartIngest(t) \/ IngestStep(t)
  \/ \E t \in Undos : DeleteRows(t)
  \/ \E t \in Fitters : FitStep(t)
  \/ \E e \in Editors : StartEdit(e) \/ EditStep(e)
  \/ \E x \in Refreshers : PullStep(x)
  \/ NextDay

Spec == Init /\ [][Next]_vars

\* The ticker ticks; requests and tasks may stop anywhere.
Fairness == WF_vars(PullStep(Ticker))

FairSpec == Spec /\ Fairness

-----------------------------------------------------------------------------
(* Properties.                                                              *)

Entry == [flat : Rows, tiers : Rows, fees : SUBSET Connectors]
FitPcs == {"idle", "stage", "failed", "clear", "fit", "insert", "count", "purge",
           "clearTiers", "readTiers", "insertTiers", "refresh", "done"}
FitRecord == [pc : FitPcs, m : Merchants, day : 0..MaxDay, chunks : Nat, stats : Rows]
EditPcs == {"idle", "readIndex", "writeIndex", "prune", "readGlobal", "writeGlobal",
            "refresh", "done"}
EditRecord == [pc : EditPcs, m : Merchants, k : Connectors, op : {"put", "drop"},
               list : SUBSET (Connectors \cup Merchants)]
PullRecord == [pc : {"idle", "costs", "tiers", "fees"}, entry : [Merchants -> Entry]]

\* Every variable keeps its type.
TypeOK ==
  /\ day \in Days
  /\ staged \in [Merchants -> Rows]
  /\ model \in [Merchants -> [Days -> Rows]] /\ tiers \in [Merchants -> [Days -> Rows]]
  /\ fit \in [Fitters -> FitRecord] /\ edit \in [Editors -> EditRecord]
  /\ fee \in [Merchants -> SUBSET Connectors] /\ index \in [Merchants -> SUBSET Connectors]
  /\ globals \subseteq Merchants
  /\ pull \in [Refreshers -> PullRecord] /\ served \in [Merchants -> Entry]
  /\ faults \in 0..MaxFaults /\ muddled \subseteq Merchants /\ tangled \in BOOLEAN

\* Once a merchant's fits are over, its latest snapshot holds nothing that is not
\* staged, and all that is, but for rows of an ingestion whose staging goes on or
\* stopped half way; so there is none when nothing is staged.  Fits that overlap are
\* no excuse, nor are rows that come and go meanwhile.  Excused is a merchant where,
\* with no other fit about to clear the snapshot, a statement of a fit failed, a fit
\* inserted what it had read before a deletion or another report, or a fit purged on
\* a count taken before another's insert; or where fits of two days met, or one was
\* older than the newest snapshot; until a fit next clears it (fit_snapshot,
\* insert_daily_stats, CLEAR_SNAPSHOT_SQL, FIT_SQL, PURGE_MODEL_SQL).
SnapshotReflectsStaging ==
  \A m \in Merchants \ muddled :
    Fitting(m) = {} => Reflects(Latest(model[m]), m)

\* Unless two edits overlapped or one failed half way, an override that is
\* stored is listed by its merchant, and a merchant that lists any is on the
\* global index, so that neither kind of refresh forgets it (overrides::put,
\* overrides::delete, prune_global_index).
OverridesAreListed ==
  ~tangled /\ Editing = {} =>
    fee = index /\ globals = {m \in Merchants : index[m] # {}}

\* What decisions are priced with comes to be what the tables hold, also after
\* a slow rebuild of everything overwrote a merchant's own newer refresh, or a
\* refresh lost a part to an error (refresh_inner, spawn).
ServedNow(m) ==
  [flat |-> Only("good", Latest(model[m])),
   tiers |-> Latest(tiers[m]), fees |-> Listed(Ticker, m)]
ServedCatchesUp == <>[](\A m \in Merchants : served[m] = ServedNow(m))

=============================================================================
