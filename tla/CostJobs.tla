------------------------------ MODULE CostJobs ------------------------------
(***************************************************************************)
(* The cost_ingestion table as a work queue, for one (connector, account,  *)
(* merchant): deliveries enqueue pending jobs, workers claim them with a   *)
(* compare-and-swap and run them, uploads insert and run a job of their    *)
(* own, undos remove one, and the daily buckets in ClickHouse remember the *)
(* job that wrote them.  Every step is a database or ClickHouse round      *)
(* trip; processes may be lost between any two.                            *)
(***************************************************************************)
EXTENDS Integers, FiniteSets

CONSTANTS Reports,     \* notification ids of reports that can be announced
          Days,        \* transaction days a report may cover
          MaxJobs,     \* bound: rows ever inserted
          Batch,       \* worker_batch_size
          Deliveries,  \* webhook requests and poller cycles
          Workers,     \* ingest workers
          Uploads,     \* manual and sample uploads
          Undos,       \* delete requests
          Faults,      \* the database and ClickHouse may answer with errors
          Losses       \* a process may crash, or a task panic or be dropped

ASSUME BoundsAssumption == MaxJobs \in Nat /\ Batch \in Nat \ {0}
ASSUME SwitchesAssumption == Faults \in BOOLEAN /\ Losses \in BOOLEAN
ASSUME ActorsAssumption == Workers \cap Uploads = {}
ASSUME ReportsAssumption == "manual" \notin Reports

VARIABLES jobs,    \* rows by id, ids handed out in created_at order
          used,    \* ids handed out
          stats,   \* cost_daily_stats: ingested_at by day and job, 0 when absent
          run,     \* workers and upload tasks
          deliv,   \* deliveries in progress
          undo,    \* delete requests in progress
          hasty    \* ghost: jobs claimed while a delete request held them

vars == <<jobs, used, stats, run, deliv, undo, hasty>>

Ids == 1..MaxJobs
Runners == Workers \cup Uploads
Manual == "manual"
Statuses == {"absent", "pending", "processing", "completed", "failed", "deleted"}

Absent == [status |-> "absent", report |-> Manual]
IdleRun == [pc |-> "idle", listed |-> {}, claimed |-> {}, days |-> {}]
IdleDeliv == [pc |-> "idle", report |-> Manual, ok |-> FALSE]
IdleUndo == [pc |-> "idle", job |-> 0]

Init ==
  /\ jobs = [j \in Ids |-> Absent]
  /\ used = 0
  /\ stats = [d \in Days |-> [j \in Ids |-> 0]]
  /\ run = [r \in Runners |-> IdleRun]
  /\ deliv = [d \in Deliveries |-> IdleDeliv]
  /\ undo = [u \in Undos |-> IdleUndo]
  /\ hasty = {}

Live(j) == jobs[j].status \notin {"absent", "deleted"}
Pending == {j \in Ids : jobs[j].status = "pending"}
Rows(report) == {j \in Ids : Live(j) /\ jobs[j].report = report}

\* Rows are created with the next id.
Create(status, report) ==
  /\ used < MaxJobs
  /\ used' = used + 1
  /\ jobs' = [jobs EXCEPT ![used + 1] = [status |-> status, report |-> report]]

\* Mutant: a row that is gone is written again.
SetStatusUpsert(j, status) == jobs' = [jobs EXCEPT ![j].status = status]

SetStatus(j, status) ==
  jobs' = IF Live(j) THEN [jobs EXCEPT ![j].status = status] ELSE jobs

-----------------------------------------------------------------------------
(* enqueue_pending: find, then insert under the unique constraint.  What is *)
(* answered with an error is delivered again, and so is what was not.       *)

Announce(d) ==
  /\ deliv[d].pc \in {"idle", "done"}
  /\ \E report \in Reports :
       deliv' = [deliv EXCEPT ![d] = [pc |-> "find", report |-> report, ok |-> FALSE]]
  /\ UNCHANGED <<jobs, used, stats, run, undo, hasty>>

Answer(d, ok) == deliv' = [deliv EXCEPT ![d].pc = "done", ![d].ok = ok]

FindExisting(d) ==
  /\ deliv[d].pc = "find"
  /\ \/ Rows(deliv[d].report) # {} /\ Answer(d, TRUE)
     \/ Rows(deliv[d].report) = {} /\ deliv' = [deliv EXCEPT ![d].pc = "insert"]
     \/ Faults /\ Answer(d, FALSE)
  /\ UNCHANGED <<jobs, used, stats, run, undo, hasty>>

\* Mutant: whatever the insert says, the delivery is acknowledged.
InsertPendingAcked(d) ==
  /\ deliv[d].pc = "insert"
  /\ \/ Rows(deliv[d].report) = {} /\ Create("pending", deliv[d].report)
     \/ (Rows(deliv[d].report) # {} \/ Faults) /\ UNCHANGED <<jobs, used>>
  /\ Answer(d, TRUE)
  /\ UNCHANGED <<stats, run, undo, hasty>>

\* Mutant: the row is inserted whether or not the notification has one.
InsertPendingUnguarded(d) ==
  /\ deliv[d].pc = "insert"
  /\ Create("pending", deliv[d].report) /\ Answer(d, TRUE)
  /\ UNCHANGED <<stats, run, undo, hasty>>

InsertPending(d) ==
  /\ deliv[d].pc = "insert"
  /\ \/ /\ Rows(deliv[d].report) = {}
        /\ Create("pending", deliv[d].report) /\ Answer(d, TRUE)
     \/ /\ Rows(deliv[d].report) # {} \/ Faults
        /\ Answer(d, FALSE) /\ UNCHANGED <<jobs, used>>
  /\ UNCHANGED <<stats, run, undo, hasty>>

-----------------------------------------------------------------------------
(* claim_pending: list, then one compare-and-swap per listed row.           *)

\* The oldest pending rows, at most Batch of them.
Oldest(S) ==
  /\ S \subseteq Pending /\ S # {}
  /\ \A j \in S, k \in Pending \ S : j < k
  /\ Cardinality(S) = Batch \/ (S = Pending /\ Cardinality(S) < Batch)

List(w) ==
  /\ run[w].pc = "idle"
  /\ \E S \in SUBSET Pending :
       /\ Oldest(S)
       /\ run' = [run EXCEPT ![w] = [IdleRun EXCEPT !.pc = "claim", !.listed = S]]
  /\ UNCHANGED <<jobs, used, stats, deliv, undo, hasty>>

BeingUndone(j) == \E u \in Undos : undo[u].job = j

IsFirst(j, S) == j \in S /\ \A k \in S : j <= k

\* Mutant: the update forgets its condition on the status.
SwapBlind(j) == Live(j)

\* The row is updated where its status is still pending.
Swap(j) == jobs[j].status = "pending"

Win(w, j) ==
  /\ SetStatus(j, "processing")
  /\ run' = [run EXCEPT ![w].listed = @ \ {j}, ![w].claimed = @ \cup {j}]
  /\ hasty' = IF BeingUndone(j) THEN hasty \cup {j} ELSE hasty

\* Mutant: a row lost to another worker ends the cycle.
ClaimStops(w) ==
  /\ run[w].pc = "claim"
  /\ \E j \in Ids :
       /\ IsFirst(j, run[w].listed)
       /\ IF Swap(j) THEN Win(w, j)
          ELSE run' = [run EXCEPT ![w] = IdleRun] /\ UNCHANGED <<jobs, hasty>>
  /\ UNCHANGED <<used, stats, deliv, undo>>

\* A row another worker flipped is skipped; an error is returned for the whole
\* batch, rows already flipped included.
Claim(w) ==
  /\ run[w].pc = "claim"
  /\ \E j \in Ids :
       /\ IsFirst(j, run[w].listed)
       /\ \/ Swap(j) /\ Win(w, j)
          \/ /\ ~Swap(j) /\ UNCHANGED <<jobs, hasty>>
             /\ run' = [run EXCEPT ![w].listed = @ \ {j}]
          \/ /\ Faults /\ UNCHANGED <<jobs, hasty>>
             /\ run' = [run EXCEPT ![w] = IdleRun]
  /\ UNCHANGED <<used, stats, deliv, undo>>

EndClaim(w) ==
  /\ run[w].pc = "claim" /\ run[w].listed = {}
  /\ run' = [run EXCEPT ![w].pc = IF run[w].claimed = {} THEN "idle" ELSE "fetch"]
  /\ UNCHANGED <<jobs, used, stats, deliv, undo, hasty>>

\* upload_report and the sample flow insert the row they are about to run.
Upload(u) ==
  /\ run[u].pc = "idle"
  /\ Create("processing", Manual)
  /\ run' = [run EXCEPT ![u] = [IdleRun EXCEPT !.pc = "fetch", !.claimed = {used + 1}]]
  /\ UNCHANGED <<stats, deliv, undo, hasty>>

-----------------------------------------------------------------------------
(* One job: download and parse, stage the days, fit, record the outcome.    *)
(* Any of the first three may fail, and the job is then marked failed.      *)

Fail(r) == run' = [run EXCEPT ![r].pc = "failed", ![r].days = {}]

Fetch(r) ==
  /\ run[r].pc = "fetch"
  /\ \/ \E days \in SUBSET Days :
          run' = [run EXCEPT ![r].pc = "stage", ![r].days = days]
     \/ Fail(r)
  /\ UNCHANGED <<jobs, used, stats, deliv, undo, hasty>>

\* The stamp of the next version of a day.
NextStamp(d, t) ==
  /\ \A k \in Ids : stats[d][k] < t
  /\ t = 1 \/ \E k \in Ids : stats[d][k] = t - 1

\* A day written again keeps its older versions until the parts are merged.
Stage(r) ==
  /\ run[r].pc = "stage" /\ run[r].days # {}
  /\ \/ \E d \in run[r].days, j, t \in Ids :
          /\ IsFirst(j, run[r].claimed) /\ NextStamp(d, t)
          /\ stats' = [stats EXCEPT ![d][j] = t]
          /\ run' = [run EXCEPT ![r].days = @ \ {d}]
     \/ Fail(r) /\ UNCHANGED stats
  /\ UNCHANGED <<jobs, used, deliv, undo, hasty>>

Fit(r) ==
  /\ run[r].pc = "stage" /\ run[r].days = {}
  /\ run' = [run EXCEPT ![r].pc = "completed"] \/ Fail(r)
  /\ UNCHANGED <<jobs, used, stats, deliv, undo, hasty>>

\* After its last job the worker is idle again, and an upload task is over.
AfterLast(r) == IF r \in Uploads THEN "done" ELSE "idle"

NextJob(r, j) ==
  run' = [run EXCEPT ![r].claimed = @ \ {j},
                     ![r].pc = IF run[r].claimed = {j} THEN AfterLast(r) ELSE "fetch"]

\* mark_completed or mark_failed; their own failure is only logged.
Mark(r) ==
  /\ run[r].pc \in {"completed", "failed"}
  /\ \E j \in Ids :
       /\ IsFirst(j, run[r].claimed)
       /\ SetStatus(j, run[r].pc) \/ (Faults /\ UNCHANGED jobs)
       /\ NextJob(r, j)
  /\ UNCHANGED <<used, stats, deliv, undo, hasty>>

\* The process stops, the cycle panics, or the request is dropped.
Lose(r) ==
  /\ Losses
  /\ run[r].pc \notin {"idle", "done"}
  /\ run' = [run EXCEPT ![r] = [IdleRun EXCEPT !.pc = AfterLast(r)]]
  /\ UNCHANGED <<jobs, used, stats, deliv, undo, hasty>>

-----------------------------------------------------------------------------
(* delete_ingestion.                                                        *)

\* Mutant: a job that is processing may be deleted too.
ReadAnyRow(u) ==
  /\ undo[u].pc = "idle"
  /\ \E j \in Ids :
       /\ Live(j)
       /\ undo' = [undo EXCEPT ![u] = [pc |-> "wipe", job |-> j]]
  /\ UNCHANGED <<jobs, used, stats, run, deliv, hasty>>

ReadRow(u) ==
  /\ undo[u].pc = "idle"
  /\ \E j \in Ids :
       /\ Live(j) /\ jobs[j].status # "processing"
       /\ undo' = [undo EXCEPT ![u] = [pc |-> "wipe", job |-> j]]
  /\ UNCHANGED <<jobs, used, stats, run, deliv, hasty>>

EndUndo(u) == undo' = [undo EXCEPT ![u] = IdleUndo]

\* Every version the job wrote is deleted; one that it hid is seen again if
\* the parts were not merged yet.
WipeRows(u) ==
  /\ undo[u].pc = "wipe"
  /\ \/ /\ stats' = [d \in Days |-> [stats[d] EXCEPT ![undo[u].job] = 0]]
        /\ undo' = [undo EXCEPT ![u].pc = "drop"]
     \/ (Faults \/ Losses) /\ EndUndo(u) /\ UNCHANGED stats
  /\ UNCHANGED <<jobs, used, run, deliv, hasty>>

\* The refit between the two has no effect on the table and may fail.
DropRow(u) ==
  /\ undo[u].pc = "drop"
  /\ EndUndo(u)
  /\ SetStatus(undo[u].job, "deleted") \/ ((Faults \/ Losses) /\ UNCHANGED jobs)
  /\ UNCHANGED <<used, stats, run, deliv, hasty>>

\* ClickHouse merges parts in the background: the newest version stays.
MergeParts(d) ==
  /\ \E j \in Ids :
       /\ \A k \in Ids : stats[d][k] <= stats[d][j]
       /\ \E k \in Ids \ {j} : stats[d][k] > 0
       /\ stats' = [stats EXCEPT ![d] = [k \in Ids |-> IF k = j THEN @[k] ELSE 0]]
  /\ UNCHANGED <<jobs, used, run, deliv, undo, hasty>>

-----------------------------------------------------------------------------

DeliveryStep(d) == Announce(d) \/ FindExisting(d) \/ InsertPending(d)
RunStep(r) == Fetch(r) \/ Stage(r) \/ Fit(r) \/ Mark(r)
WorkerStep(w) == List(w) \/ Claim(w) \/ EndClaim(w) \/ RunStep(w)
UndoStep(u) == ReadRow(u) \/ WipeRows(u) \/ DropRow(u)

Next ==
  \/ \E d \in Deliveries : DeliveryStep(d)
  \/ \E w \in Workers : WorkerStep(w)
  \/ \E u \in Uploads : Upload(u) \/ RunStep(u)
  \/ \E r \in Runners : Lose(r)
  \/ \E u \in Undos : UndoStep(u)
  \/ \E d \in Days : MergeParts(d)

Spec == Init /\ [][Next]_vars

\* The ticker starts a cycle again and again, and a task that was spawned runs.
Fairness ==
  /\ \A w \in Workers : WF_vars(WorkerStep(w))
  /\ \A u \in Uploads : WF_vars(RunStep(u))

FairSpec == Spec /\ Fairness

-----------------------------------------------------------------------------
(* Properties.                                                              *)

JobRow == [status : Statuses, report : Reports \cup {Manual}]
RunPcs == {"idle", "claim", "fetch", "stage", "completed", "failed", "done"}
RunRecord == [pc : RunPcs, listed : SUBSET Ids, claimed : SUBSET Ids,
              days : SUBSET Days]
DelivRecord == [pc : {"idle", "find", "insert", "done"},
                report : Reports \cup {Manual}, ok : BOOLEAN]
UndoRecord == [pc : {"idle", "wipe", "drop"}, job : Ids \cup {0}]

\* Every variable keeps its type.
TypeOK ==
  /\ jobs \in [Ids -> JobRow] /\ used \in 0..MaxJobs
  /\ stats \in [Days -> [Ids -> Nat]]
  /\ run \in [Runners -> RunRecord]
  /\ deliv \in [Deliveries -> DelivRecord]
  /\ undo \in [Undos -> UndoRecord]
  /\ hasty \subseteq Ids

\* A job is in the hands of one worker or upload at most, and is then neither
\* offered to others nor finished, however the lists of the workers overlap
\* (claim_pending's compare-and-swap).
OneRunPerJob ==
  /\ \A r, s \in Runners : r # s => run[r].claimed \cap run[s].claimed = {}
  /\ \A r \in Runners : \A j \in run[r].claimed :
       jobs[j].status \in {"processing", "deleted"}

\* Overlapping deliveries of a report leave one row for it (enqueue_pending and
\* the unique constraint).
ReportQueuedOnce == \A report \in Reports : Cardinality(Rows(report)) <= 1

\* A delivery is acknowledged only when its report has, or had, a row
\* (settlement_webhook answers with what enqueue_pending returns).
AckedMeansQueued ==
  \A d \in Deliveries : deliv[d].ok =>
    \E j \in Ids : jobs[j].report = deliv[d].report

\* Whatever failed, crashed or was undone, a day's bucket belongs to a job whose
\* row is still there, so that it can be undone, unless the job was claimed
\* while it was being undone (delete_ingestion wipes before it drops).
BucketsHaveAJob ==
  \A d \in Days, j \in Ids : stats[d][j] > 0 => Live(j) \/ j \in hasty

\* While nothing crashes and the database answers, a queued job ends: claimed
\* with others or after losing them to another worker, it is completed, failed
\* or deleted.
JobsFinish ==
  \A j \in Ids : jobs[j].status \in {"pending", "processing"} ~>
                 jobs[j].status \notin {"pending", "processing"}

\* Whatever the lists of the workers, the deliveries, the deletions, failures and
\* crashes make of it, the table keeps the life of a job: one holder at a time, whose
\* outcome is the last word, and no deletion of a job that is being processed, unless
\* it was claimed after the check (claim_pending, mark_completed, delete_ingestion).
HeldBy == [r \in Runners |-> run[r].claimed]
Contract == INSTANCE JobContract WITH held <- HeldBy, contested <- hasty
QueueKeepsContract == Contract!Spec

=============================================================================
