--------------------------- MODULE CostJobsProofs ----------------------------
(***************************************************************************)
(* Proofs about CostJobs for any number of rows, days, deliveries, workers,*)
(* uploads and delete requests, with or without faults and losses.         *)
(***************************************************************************)
EXTENDS CostJobs, FiniteSetTheorems, TLAPS

USE BoundsAssumption, SwitchesAssumption, ReportsAssumption

-----------------------------------------------------------------------------
(* Rows.                                                                   *)

\* Ids are handed out in order: the rows that exist are the first ones.
Numbered ==
  \A j \in Ids : /\ j > used => jobs[j] = Absent
                 /\ j <= used => jobs[j].status # "absent"

\* Everything a new row changes.
LEMMA CreateMakes ==
  ASSUME TypeOK, NEW status \in Statuses, NEW report \in Reports \cup {Manual},
         Create(status, report)
  PROVE  /\ used + 1 \in Ids /\ used' = used + 1 /\ used' \in 0..MaxJobs
         /\ jobs' \in [Ids -> JobRow]
         /\ jobs'[used + 1].status = status /\ jobs'[used + 1].report = report
         /\ \A k \in Ids \ {used + 1} : jobs'[k] = jobs[k]
BY DEF Create, TypeOK, JobRow, Ids

\* A new status for a row that is there, and nothing for one that is not.
LEMMA SetStatusMoves ==
  ASSUME TypeOK, NEW j \in Ids, NEW status \in Statuses, SetStatus(j, status)
  PROVE  /\ jobs' \in [Ids -> JobRow]
         /\ Live(j) => jobs'[j].status = status
         /\ ~Live(j) => jobs'[j] = jobs[j]
         /\ jobs'[j].report = jobs[j].report
         /\ \A k \in Ids \ {j} : jobs'[k] = jobs[k]
<1>1. CASE Live(j)
  <2>1. jobs' = [jobs EXCEPT ![j].status = status] /\ jobs[j] \in JobRow
    BY <1>1 DEF SetStatus, TypeOK
  <2> QED
    BY <1>1, <2>1 DEF TypeOK, JobRow
<1>2. CASE ~Live(j)
  BY <1>2 DEF SetStatus, TypeOK
<1> QED
  BY <1>1, <1>2

-----------------------------------------------------------------------------
(* Type correctness.                                                       *)

LEMMA InitTypeOK == Init => TypeOK
BY DEF Init, TypeOK, JobRow, RunRecord, RunPcs, DelivRecord, UndoRecord, Absent,
       IdleRun, IdleDeliv, IdleUndo, Ids, Statuses

LEMMA DeliveryTypeOK ==
  ASSUME TypeOK, NEW d \in Deliveries, DeliveryStep(d) PROVE TypeOK'
<1>0. deliv \in [Deliveries -> DelivRecord] /\ deliv[d] \in DelivRecord
      /\ deliv[d].report \in Reports \cup {Manual}
  BY DEF TypeOK, DelivRecord
<1>a. ASSUME NEW ok \in BOOLEAN, Answer(d, ok)
      PROVE  deliv' \in [Deliveries -> DelivRecord]
  BY <1>0, <1>a DEF Answer, DelivRecord
<1>1. CASE Announce(d)
  <2>1. deliv' \in [Deliveries -> DelivRecord]
    BY <1>0, <1>1 DEF Announce, DelivRecord
  <2> QED
    BY <1>1, <2>1 DEF Announce, TypeOK
<1>2. CASE FindExisting(d)
  <2>1. CASE deliv' = [deliv EXCEPT ![d].pc = "insert"]
    <3>1. deliv' \in [Deliveries -> DelivRecord]
      BY <1>0, <2>1 DEF DelivRecord
    <3> QED
      BY <1>2, <3>1 DEF FindExisting, TypeOK
  <2>2. CASE Answer(d, TRUE) \/ Answer(d, FALSE)
    BY <1>a, <1>2, <2>2 DEF FindExisting, TypeOK
  <2> QED
    BY <1>2, <2>1, <2>2 DEF FindExisting
<1>3. CASE InsertPending(d)
  <2>1. CASE Create("pending", deliv[d].report) /\ Answer(d, TRUE)
    <3>1. used' \in 0..MaxJobs /\ jobs' \in [Ids -> JobRow]
      BY <1>0, <2>1, CreateMakes DEF Statuses
    <3> QED
      BY <1>a, <1>3, <2>1, <3>1 DEF InsertPending, TypeOK
  <2>2. CASE Answer(d, FALSE) /\ UNCHANGED <<jobs, used>>
    BY <1>a, <1>3, <2>2 DEF InsertPending, TypeOK
  <2> QED
    BY <1>3, <2>1, <2>2 DEF InsertPending
<1> QED
  BY <1>1, <1>2, <1>3 DEF DeliveryStep

LEMMA ClaimTypeOK ==
  ASSUME TypeOK, NEW w \in Workers, List(w) \/ Claim(w) \/ EndClaim(w)
  PROVE  TypeOK'
<1>0. run \in [Runners -> RunRecord] /\ run[w] \in RunRecord /\ w \in Runners
  BY DEF TypeOK, Runners
<1>1. CASE List(w)
  <2>1. PICK S \in SUBSET Pending :
          run' = [run EXCEPT ![w] = [IdleRun EXCEPT !.pc = "claim", !.listed = S]]
    BY <1>1 DEF List
  <2>2. run' \in [Runners -> RunRecord]
    BY <1>0, <2>1 DEF IdleRun, RunRecord, RunPcs, Pending
  <2> QED
    BY <1>1, <2>2 DEF List, TypeOK
<1>2. CASE Claim(w)
  <2>1. PICK j \in Ids :
          \/ Swap(j) /\ Win(w, j)
          \/ /\ UNCHANGED <<jobs, hasty>>
             /\ run' = [run EXCEPT ![w].listed = @ \ {j}]
          \/ /\ UNCHANGED <<jobs, hasty>>
             /\ run' = [run EXCEPT ![w] = IdleRun]
    BY <1>2 DEF Claim
  <2>2. CASE Win(w, j)
    <3>1. run' \in [Runners -> RunRecord]
      BY <1>0, <2>2 DEF Win, RunRecord
    <3>2. jobs' \in [Ids -> JobRow]
      BY <2>2, SetStatusMoves DEF Win, Statuses
    <3>3. hasty' \subseteq Ids
      BY <2>2 DEF Win, TypeOK
    <3> QED
      BY <1>2, <3>1, <3>2, <3>3 DEF Claim, TypeOK
  <2>3. CASE run' = [run EXCEPT ![w].listed = @ \ {j}] /\ UNCHANGED <<jobs, hasty>>
    <3>1. run' \in [Runners -> RunRecord]
      BY <1>0, <2>3 DEF RunRecord
    <3> QED
      BY <1>2, <2>3, <3>1 DEF Claim, TypeOK
  <2>4. CASE run' = [run EXCEPT ![w] = IdleRun] /\ UNCHANGED <<jobs, hasty>>
    <3>1. run' \in [Runners -> RunRecord]
      BY <1>0, <2>4 DEF RunRecord, IdleRun, RunPcs
    <3> QED
      BY <1>2, <2>4, <3>1 DEF Claim, TypeOK
  <2> QED
    BY <2>1, <2>2, <2>3, <2>4
<1>3. CASE EndClaim(w)
  <2>1. PICK pc \in RunPcs : run' = [run EXCEPT ![w].pc = pc]
    BY <1>3 DEF EndClaim, RunPcs
  <2>2. run' \in [Runners -> RunRecord]
    BY <1>0, <2>1 DEF RunRecord
  <2> QED
    BY <1>3, <2>2 DEF EndClaim, TypeOK
<1> QED
  BY <1>1, <1>2, <1>3

LEMMA RunTypeOK ==
  ASSUME TypeOK, NEW r \in Runners, RunStep(r) \/ Lose(r) PROVE TypeOK'
<1>0. run \in [Runners -> RunRecord] /\ run[r] \in RunRecord
  BY DEF TypeOK
<1>a. ASSUME Fail(r) PROVE run' \in [Runners -> RunRecord]
  BY <1>0, <1>a DEF Fail, RunRecord, RunPcs
<1>1. CASE Fetch(r)
  <2>1. ASSUME NEW days \in SUBSET Days,
               run' = [run EXCEPT ![r].pc = "stage", ![r].days = days]
        PROVE  run' \in [Runners -> RunRecord]
    BY <1>0, <2>1 DEF RunRecord, RunPcs
  <2>2. run' \in [Runners -> RunRecord]
    BY <1>a, <1>1, <2>1 DEF Fetch
  <2> QED
    BY <1>1, <2>2 DEF Fetch, TypeOK
<1>2. CASE Stage(r)
  <2>1. CASE Fail(r) /\ UNCHANGED stats
    BY <1>a, <1>2, <2>1 DEF Stage, TypeOK
  <2>2. ASSUME NEW d \in Days, NEW j \in Ids, NEW t \in Ids,
               stats' = [stats EXCEPT ![d][j] = t],
               run' = [run EXCEPT ![r].days = @ \ {d}]
        PROVE  TypeOK'
    <3>1. run' \in [Runners -> RunRecord]
      BY <1>0, <2>2 DEF RunRecord
    <3>2. stats' \in [Days -> [Ids -> Nat]]
      BY <2>2 DEF TypeOK, Ids
    <3> QED
      BY <1>2, <3>1, <3>2 DEF Stage, TypeOK
  <2>3. run[r].days \subseteq Days
    BY <1>0 DEF RunRecord
  <2> QED
    BY <1>2, <2>1, <2>2, <2>3 DEF Stage
<1>3. CASE Fit(r)
  <2>1. CASE run' = [run EXCEPT ![r].pc = "completed"]
    <3>1. run' \in [Runners -> RunRecord]
      BY <1>0, <2>1 DEF RunRecord, RunPcs
    <3> QED
      BY <1>3, <3>1 DEF Fit, TypeOK
  <2> QED
    BY <1>a, <1>3, <2>1 DEF Fit, TypeOK
<1>4. CASE Mark(r)
  <2>1. PICK j \in Ids : /\ SetStatus(j, run[r].pc) \/ UNCHANGED jobs
                         /\ NextJob(r, j)
    BY <1>4 DEF Mark
  <2>2. run[r].pc \in Statuses
    BY <1>4 DEF Mark, Statuses
  <2>3. jobs' \in [Ids -> JobRow]
    BY <2>1, <2>2, SetStatusMoves DEF TypeOK
  <2>4. PICK pc \in RunPcs :
          run' = [run EXCEPT ![r].claimed = @ \ {j}, ![r].pc = pc]
    BY <2>1 DEF NextJob, AfterLast, RunPcs
  <2>5. run' \in [Runners -> RunRecord]
    BY <1>0, <2>4 DEF RunRecord
  <2> QED
    BY <1>4, <2>3, <2>5 DEF Mark, TypeOK
<1>5. CASE Lose(r)
  <2>1. PICK pc \in RunPcs : run' = [run EXCEPT ![r] = [IdleRun EXCEPT !.pc = pc]]
    BY <1>5 DEF Lose, AfterLast, RunPcs
  <2>2. run' \in [Runners -> RunRecord]
    BY <1>0, <2>1 DEF RunRecord, IdleRun
  <2> QED
    BY <1>5, <2>2 DEF Lose, TypeOK
<1> QED
  BY <1>1, <1>2, <1>3, <1>4, <1>5 DEF RunStep

LEMMA UploadTypeOK == ASSUME TypeOK, NEW u \in Uploads, Upload(u) PROVE TypeOK'
<1>1. /\ used + 1 \in Ids /\ used' \in 0..MaxJobs
      /\ jobs' \in [Ids -> JobRow]
  BY CreateMakes DEF Upload, Statuses
<1>2. run' \in [Runners -> RunRecord]
  BY <1>1 DEF Upload, TypeOK, RunRecord, RunPcs, IdleRun
<1> QED
  BY <1>1, <1>2 DEF Upload, TypeOK

LEMMA UndoTypeOK == ASSUME TypeOK, NEW u \in Undos, UndoStep(u) PROVE TypeOK'
<1>0. undo \in [Undos -> UndoRecord] /\ undo[u] \in UndoRecord
  BY DEF TypeOK
<1>a. ASSUME EndUndo(u) PROVE undo' \in [Undos -> UndoRecord]
  BY <1>0, <1>a DEF EndUndo, IdleUndo, UndoRecord
<1>1. CASE ReadRow(u)
  <2>1. undo' \in [Undos -> UndoRecord]
    BY <1>0, <1>1 DEF ReadRow, UndoRecord
  <2> QED
    BY <1>1, <2>1 DEF ReadRow, TypeOK
<1>2. CASE WipeRows(u)
  <2>1. CASE EndUndo(u) /\ UNCHANGED stats
    BY <1>a, <1>2, <2>1 DEF WipeRows, TypeOK
  <2>2. CASE /\ stats' = [d \in Days |-> [stats[d] EXCEPT ![undo[u].job] = 0]]
             /\ undo' = [undo EXCEPT ![u].pc = "drop"]
    <3>1. undo' \in [Undos -> UndoRecord]
      BY <1>0, <2>2 DEF UndoRecord
    <3>2. stats' \in [Days -> [Ids -> Nat]]
      BY <2>2 DEF TypeOK
    <3> QED
      BY <1>2, <3>1, <3>2 DEF WipeRows, TypeOK
  <2> QED
    BY <1>2, <2>1, <2>2 DEF WipeRows
<1>3. CASE DropRow(u)
  <2>1. CASE UNCHANGED jobs
    BY <1>a, <1>3, <2>1 DEF DropRow, TypeOK
  <2>2. CASE SetStatus(undo[u].job, "deleted")
    <3>1. CASE undo[u].job \in Ids
      <4>1. jobs' \in [Ids -> JobRow]
        BY <2>2, <3>1, SetStatusMoves DEF Statuses
      <4> QED
        BY <1>a, <1>3, <4>1 DEF DropRow, TypeOK
    <3>2. CASE undo[u].job \notin Ids
      <4>1. jobs' = jobs
        BY <2>2, <3>2 DEF SetStatus, TypeOK
      <4> QED
        BY <1>a, <1>3, <4>1 DEF DropRow, TypeOK
    <3> QED
      BY <3>1, <3>2
  <2> QED
    BY <1>3, <2>1, <2>2 DEF DropRow
<1> QED
  BY <1>1, <1>2, <1>3 DEF UndoStep

LEMMA MergeTypeOK == ASSUME TypeOK, NEW d \in Days, MergeParts(d) PROVE TypeOK'
<1>1. stats' \in [Days -> [Ids -> Nat]]
  <2>1. PICK j \in Ids :
          stats' = [stats EXCEPT ![d] = [k \in Ids |-> IF k = j THEN @[k] ELSE 0]]
    BY DEF MergeParts
  <2> QED
    BY <2>1 DEF TypeOK
<1> QED
  BY <1>1 DEF MergeParts, TypeOK

LEMMA NextTypeOK == TypeOK /\ [Next]_vars => TypeOK'
<1> SUFFICES ASSUME TypeOK, [Next]_vars PROVE TypeOK'
  OBVIOUS
<1>1. CASE UNCHANGED vars
  BY <1>1 DEF vars, TypeOK
<1> QED
  BY <1>1, DeliveryTypeOK, ClaimTypeOK, RunTypeOK, UploadTypeOK, UndoTypeOK,
     MergeTypeOK DEF Next, WorkerStep, Runners

\* Whatever fails or is lost, the table, the buckets and every actor stay well
\* formed, and no id beyond the bound is handed out.
THEOREM TypeInvariant == Spec => []TypeOK
BY InitTypeOK, NextTypeOK, PTL DEF Spec

-----------------------------------------------------------------------------
(* Who holds a job.                                                        *)

\* A job in someone's hands is processing, unless it was claimed and deleted
\* under a delete request that had read it before.
Held ==
  \A r \in Runners : \A j \in run[r].claimed :
    jobs[j].status = "processing" \/ (jobs[j].status = "deleted" /\ j \in hasty)

Disjoint ==
  \A r, s \in Runners : r # s => run[r].claimed \cap run[s].claimed = {}

\* A delete request holds a row that was there and in nobody's hands, unless it
\* was claimed since; when it comes to drop the row, the row has no bucket.
Undoing ==
  \A u \in Undos :
    /\ undo[u].pc = "idle" <=> undo[u].job = 0
    /\ \A j \in Ids : undo[u].job = j =>
         /\ j <= used
         /\ \A r \in Runners : j \in run[r].claimed => j \in hasty
         /\ undo[u].pc = "drop" => j \in hasty \/ \A d \in Days : stats[d][j] = 0

\* The inductive invariant behind OneRunPerJob and BucketsHaveAJob.
QueueInv == Numbered /\ Held /\ Disjoint /\ Undoing /\ BucketsHaveAJob

LEMMA QueueInvImplies == TypeOK /\ QueueInv => OneRunPerJob
BY DEF QueueInv, Held, Disjoint, OneRunPerJob

\* Rows, claims and requests as they were: a step of no consequence.
LEMMA QueueInvQuiet ==
  ASSUME QueueInv, UNCHANGED <<jobs, used, stats, undo, hasty>>,
         \A r \in Runners : run'[r].claimed \subseteq run[r].claimed
  PROVE  QueueInv'
<1>1. Numbered' /\ BucketsHaveAJob'
  BY DEF QueueInv, Numbered, BucketsHaveAJob, Live
<1>2. Held'
  BY DEF QueueInv, Held
<1>3. Disjoint'
  BY DEF QueueInv, Disjoint
<1>4. Undoing'
  BY DEF QueueInv, Undoing
<1> QED
  BY <1>1, <1>2, <1>3, <1>4 DEF QueueInv

\* A new row, claimed by its creator r when it is processing.
LEMMA QueueInvCreate ==
  ASSUME TypeOK, QueueInv, NEW status \in {"pending", "processing"},
         NEW report \in Reports \cup {Manual}, Create(status, report),
         UNCHANGED <<stats, undo, hasty>>,
         \A r \in Runners : \A j \in run'[r].claimed \ run[r].claimed :
           /\ j = used + 1 /\ status = "processing"
           /\ \A s \in Runners \ {r} : run'[s].claimed = run[s].claimed
  PROVE  QueueInv'
<1>0. /\ used + 1 \in Ids /\ used' = used + 1 /\ used \in Nat
      /\ jobs'[used + 1].status = status
      /\ \A k \in Ids \ {used + 1} : jobs'[k] = jobs[k]
  BY CreateMakes DEF Statuses, TypeOK
<1>1. jobs[used + 1] = Absent
  BY <1>0 DEF QueueInv, Numbered
<1>2. \A r \in Runners : used + 1 \notin run[r].claimed
  BY <1>1 DEF QueueInv, Held, Absent
<1>a. \A r \in Runners : run[r].claimed \subseteq Ids
  BY DEF TypeOK, RunRecord
<1>3. Numbered'
  BY <1>0 DEF QueueInv, Numbered, Ids
<1>4. Held'
  <2> SUFFICES ASSUME NEW r \in Runners, NEW j \in run'[r].claimed
               PROVE  jobs'[j].status = "processing"
                      \/ (jobs'[j].status = "deleted" /\ j \in hasty)
    BY DEF Held
  <2>1. CASE j \in run[r].claimed
    BY <1>0, <1>2, <1>a, <2>1 DEF QueueInv, Held
  <2>2. CASE j \notin run[r].claimed
    BY <1>0, <2>2
  <2> QED
    BY <2>1, <2>2
<1>5. Disjoint'
  <2> SUFFICES ASSUME NEW r \in Runners, NEW s \in Runners, r # s,
                      NEW j \in run'[r].claimed, j \in run'[s].claimed
               PROVE  FALSE
    BY DEF Disjoint
  <2>1. CASE j \in run[r].claimed /\ j \in run[s].claimed
    BY <2>1 DEF QueueInv, Disjoint
  <2>2. CASE j \notin run[r].claimed
    BY <1>2, <2>2
  <2>3. CASE j \notin run[s].claimed
    BY <1>2, <2>3
  <2> QED
    BY <2>1, <2>2, <2>3
<1>6. Undoing'
  <2> SUFFICES ASSUME NEW u \in Undos, NEW j \in Ids, undo[u].job = j
               PROVE  /\ j <= used + 1
                      /\ \A r \in Runners : j \in run'[r].claimed => j \in hasty
    BY <1>0 DEF QueueInv, Undoing
  <2>1. j <= used /\ \A r \in Runners : j \in run[r].claimed => j \in hasty
    BY DEF QueueInv, Undoing
  <2>2. j # used + 1
    BY <1>0, <2>1 DEF Ids
  <2> QED
    BY <1>0, <2>1, <2>2 DEF Ids
<1>7. BucketsHaveAJob'
  BY <1>0, <1>1 DEF QueueInv, BucketsHaveAJob, Live, Absent
<1> QED
  BY <1>3, <1>4, <1>5, <1>6, <1>7 DEF QueueInv

LEMMA DeliveryQueueInv ==
  ASSUME TypeOK, QueueInv, NEW d \in Deliveries, DeliveryStep(d)
  PROVE  QueueInv'
<1>1. CASE Announce(d)
  BY <1>1, QueueInvQuiet DEF Announce
<1>2. CASE FindExisting(d)
  BY <1>2, QueueInvQuiet DEF FindExisting
<1>3. CASE InsertPending(d)
  <2>1. CASE UNCHANGED <<jobs, used>>
    BY <1>3, <2>1, QueueInvQuiet DEF InsertPending
  <2>2. CASE Create("pending", deliv[d].report)
    <3>1. deliv[d].report \in Reports \cup {Manual}
      BY DEF TypeOK, DelivRecord
    <3>2. UNCHANGED <<stats, undo, hasty, run>>
      BY <1>3 DEF InsertPending
    <3> QED
      BY <2>2, <3>1, <3>2, QueueInvCreate
  <2> QED
    BY <1>3, <2>1, <2>2 DEF InsertPending
<1> QED
  BY <1>1, <1>2, <1>3 DEF DeliveryStep

LEMMA UploadQueueInv ==
  ASSUME TypeOK, QueueInv, NEW u \in Uploads, Upload(u) PROVE QueueInv'
<1>1. run' = [run EXCEPT ![u] = [IdleRun EXCEPT !.pc = "fetch", !.claimed = {used + 1}]]
  BY DEF Upload
<1>2. [IdleRun EXCEPT !.pc = "fetch", !.claimed = {used + 1}].claimed = {used + 1}
  BY DEF IdleRun
<1>3. /\ run'[u].claimed = {used + 1}
      /\ \A s \in Runners \ {u} : run'[s] = run[s]
  BY <1>1, <1>2 DEF TypeOK, Runners
<1> QED
  BY <1>3, QueueInvCreate DEF Upload

\* A row goes from pending to processing into the hands of w.
LEMMA WinQueueInv ==
  ASSUME TypeOK, QueueInv, NEW w \in Workers, NEW j \in Ids,
         Swap(j), Win(w, j), UNCHANGED <<used, stats, undo>>
  PROVE  QueueInv'
<1>0. /\ jobs[j].status = "pending" /\ Live(j) /\ w \in Runners
      /\ run[w] \in RunRecord
  BY DEF Swap, Live, Runners, TypeOK
<1>1. /\ jobs'[j].status = "processing"
      /\ \A k \in Ids \ {j} : jobs'[k] = jobs[k]
  BY <1>0, SetStatusMoves DEF Win, Statuses
<1>2. \A r \in Runners : j \notin run[r].claimed
  BY <1>0 DEF QueueInv, Held
<1>3. /\ run'[w].claimed = run[w].claimed \cup {j}
      /\ \A r \in Runners \ {w} : run'[r] = run[r]
  BY <1>0 DEF Win, TypeOK, RunRecord
<1>4. hasty \subseteq hasty' /\ \A u \in Undos : undo[u].job = j => j \in hasty'
  BY DEF Win, BeingUndone
<1>a. \A r \in Runners : run[r].claimed \subseteq Ids
  BY DEF TypeOK, RunRecord
<1>5. Numbered'
  BY <1>0, <1>1 DEF QueueInv, Numbered, Absent
<1>6. Held'
  <2> SUFFICES ASSUME NEW r \in Runners, NEW k \in run'[r].claimed
               PROVE  jobs'[k].status = "processing"
                      \/ (jobs'[k].status = "deleted" /\ k \in hasty')
    BY DEF Held
  <2>1. k = j \/ k \in run[r].claimed
    BY <1>3
  <2> QED
    BY <1>1, <1>2, <1>4, <1>a, <2>1 DEF QueueInv, Held
<1>7. Disjoint'
  BY <1>2, <1>3 DEF QueueInv, Disjoint
<1>8. Undoing'
  BY <1>2, <1>3, <1>4 DEF QueueInv, Undoing
<1>9. BucketsHaveAJob'
  BY <1>1, <1>4 DEF QueueInv, BucketsHaveAJob, Live
<1> QED
  BY <1>5, <1>6, <1>7, <1>8, <1>9 DEF QueueInv

LEMMA ClaimQueueInv ==
  ASSUME TypeOK, QueueInv, NEW w \in Workers, List(w) \/ Claim(w) \/ EndClaim(w)
  PROVE  QueueInv'
<1>0. run \in [Runners -> RunRecord] /\ run[w] \in RunRecord /\ w \in Runners
  BY DEF TypeOK, Runners
<1>1. CASE List(w)
  <2>1. PICK S : run' = [run EXCEPT ![w] = [IdleRun EXCEPT !.pc = "claim", !.listed = S]]
    BY <1>1 DEF List
  <2>2. \A r \in Runners : run'[r].claimed \subseteq run[r].claimed
    BY <1>0, <2>1 DEF IdleRun
  <2> QED
    BY <1>1, <2>2, QueueInvQuiet DEF List
<1>2. CASE Claim(w)
  <2>1. PICK j \in Ids :
          \/ Swap(j) /\ Win(w, j)
          \/ /\ UNCHANGED <<jobs, hasty>>
             /\ run' = [run EXCEPT ![w].listed = @ \ {j}]
          \/ /\ UNCHANGED <<jobs, hasty>>
             /\ run' = [run EXCEPT ![w] = IdleRun]
    BY <1>2 DEF Claim
  <2>2. CASE Swap(j) /\ Win(w, j)
    BY <1>2, <2>2, WinQueueInv DEF Claim
  <2>3. CASE run' = [run EXCEPT ![w].listed = @ \ {j}] /\ UNCHANGED <<jobs, hasty>>
    <3>1. \A r \in Runners : run'[r].claimed \subseteq run[r].claimed
      BY <1>0, <2>3 DEF RunRecord
    <3> QED
      BY <1>2, <2>3, <3>1, QueueInvQuiet DEF Claim
  <2>4. CASE run' = [run EXCEPT ![w] = IdleRun] /\ UNCHANGED <<jobs, hasty>>
    <3>1. \A r \in Runners : run'[r].claimed \subseteq run[r].claimed
      BY <1>0, <2>4 DEF IdleRun
    <3> QED
      BY <1>2, <2>4, <3>1, QueueInvQuiet DEF Claim
  <2> QED
    BY <2>1, <2>2, <2>3, <2>4
<1>3. CASE EndClaim(w)
  <2>1. PICK pc : run' = [run EXCEPT ![w].pc = pc]
    BY <1>3 DEF EndClaim
  <2>2. \A r \in Runners : run'[r].claimed \subseteq run[r].claimed
    BY <1>0, <2>1 DEF RunRecord
  <2> QED
    BY <1>3, <2>2, QueueInvQuiet DEF EndClaim
<1> QED
  BY <1>1, <1>2, <1>3

\* The outcome is recorded and the job is nobody's any more.
LEMMA MarkQueueInv ==
  ASSUME TypeOK, QueueInv, NEW r \in Runners, Mark(r) PROVE QueueInv'
<1>0. run \in [Runners -> RunRecord] /\ run[r] \in RunRecord
  BY DEF TypeOK
<1>1. PICK j \in Ids : /\ j \in run[r].claimed
                       /\ SetStatus(j, run[r].pc) \/ UNCHANGED jobs
                       /\ NextJob(r, j)
  BY DEF Mark, IsFirst
<1>2. PICK pc : run' = [run EXCEPT ![r].claimed = @ \ {j}, ![r].pc = pc]
  BY <1>1 DEF NextJob
<1>3. /\ run'[r].claimed = run[r].claimed \ {j}
      /\ \A s \in Runners \ {r} : run'[s] = run[s]
  BY <1>0, <1>2 DEF RunRecord
<1>4. UNCHANGED <<used, stats, undo, hasty>>
  BY DEF Mark
<1>5. /\ \A k \in Ids \ {j} : jobs'[k] = jobs[k]
      /\ Live(j) => jobs'[j].status \in {"processing", "completed", "failed"}
      /\ ~Live(j) => jobs'[j] = jobs[j]
  <2>1. run[r].pc \in {"completed", "failed"}
    BY DEF Mark
  <2>2. Live(j) => jobs[j].status = "processing"
    BY <1>1 DEF QueueInv, Held, Live
  <2> QED
    BY <1>1, <2>1, <2>2, SetStatusMoves DEF Statuses
<1>6. \A s \in Runners : run'[s].claimed \subseteq run[s].claimed
                         /\ j \notin run'[s].claimed
  BY <1>1, <1>3 DEF QueueInv, Disjoint
<1>a. \A s \in Runners : run[s].claimed \subseteq Ids
  BY DEF TypeOK, RunRecord
<1>b. jobs[j].status # "absent"
  BY <1>1 DEF QueueInv, Held
<1>7. Numbered'
  BY <1>4, <1>5, <1>b DEF QueueInv, Numbered, Absent, Live
<1>8. Held'
  BY <1>4, <1>5, <1>6, <1>a DEF QueueInv, Held
<1>9. Disjoint'
  BY <1>6 DEF QueueInv, Disjoint
<1>10. Undoing'
  BY <1>4, <1>6 DEF QueueInv, Undoing
<1>11. BucketsHaveAJob'
  BY <1>4, <1>5 DEF QueueInv, BucketsHaveAJob, Live
<1> QED
  BY <1>7, <1>8, <1>9, <1>10, <1>11 DEF QueueInv

\* A bucket is written under a job in the writer's hands.
LEMMA StageQueueInv ==
  ASSUME TypeOK, QueueInv, NEW r \in Runners, Stage(r) PROVE QueueInv'
<1>0. run \in [Runners -> RunRecord] /\ run[r] \in RunRecord
  BY DEF TypeOK
<1>1. CASE Fail(r) /\ UNCHANGED stats
  <2>1. \A s \in Runners : run'[s].claimed \subseteq run[s].claimed
    BY <1>0, <1>1 DEF Fail, RunRecord
  <2> QED
    BY <1>1, <2>1, QueueInvQuiet DEF Stage
<1>2. ASSUME NEW d \in Days, NEW j \in Ids, NEW t \in Ids, j \in run[r].claimed,
             stats' = [stats EXCEPT ![d][j] = t],
             run' = [run EXCEPT ![r].days = @ \ {d}]
      PROVE  QueueInv'
  <2>1. \A s \in Runners : run'[s].claimed = run[s].claimed
    BY <1>0, <1>2 DEF RunRecord
  <2>2. UNCHANGED <<jobs, used, undo, hasty>>
    BY DEF Stage
  <2>3. \A e \in Days, k \in Ids : k # j => stats'[e][k] = stats[e][k]
    BY <1>2 DEF TypeOK
  <2>4. Live(j) \/ j \in hasty
    BY <1>2 DEF QueueInv, Held, Live
  <2>5. Numbered' /\ Held' /\ Disjoint'
    BY <2>1, <2>2 DEF QueueInv, Numbered, Held, Disjoint
  <2>6. Undoing'
    <3> SUFFICES ASSUME NEW u \in Undos, NEW k \in Ids, undo[u].job = k
                 PROVE  /\ k <= used
                        /\ \A s \in Runners : k \in run[s].claimed => k \in hasty
                        /\ undo[u].pc = "drop" =>
                             k \in hasty \/ \A e \in Days : stats'[e][k] = 0
      BY <2>1, <2>2 DEF QueueInv, Undoing
    <3>1. CASE k = j
      BY <1>2, <3>1 DEF QueueInv, Undoing
    <3>2. CASE k # j
      BY <2>3, <3>2 DEF QueueInv, Undoing
    <3> QED
      BY <3>1, <3>2
  <2>7. BucketsHaveAJob'
    BY <2>2, <2>3, <2>4 DEF QueueInv, BucketsHaveAJob, Live
  <2> QED
    BY <2>5, <2>6, <2>7 DEF QueueInv
<1>3. run[r].days \subseteq Days
  BY <1>0 DEF RunRecord
<1> QED
  BY <1>1, <1>2, <1>3 DEF Stage, IsFirst

LEMMA RunQueueInv ==
  ASSUME TypeOK, QueueInv, NEW r \in Runners, RunStep(r) \/ Lose(r)
  PROVE  QueueInv'
<1>0. run \in [Runners -> RunRecord] /\ run[r] \in RunRecord
  BY DEF TypeOK
<1>1. CASE Fetch(r)
  <2>1. PICK pc, days : run' = [run EXCEPT ![r].pc = pc, ![r].days = days]
    BY <1>1 DEF Fetch, Fail
  <2>2. \A s \in Runners : run'[s].claimed \subseteq run[s].claimed
    BY <1>0, <2>1 DEF RunRecord
  <2> QED
    BY <1>1, <2>2, QueueInvQuiet DEF Fetch
<1>2. CASE Fit(r)
  <2>1. \A s \in Runners : run'[s].claimed \subseteq run[s].claimed
    <3>1. CASE Fail(r)
      BY <1>0, <3>1 DEF Fail, RunRecord
    <3>2. CASE run' = [run EXCEPT ![r].pc = "completed"]
      BY <1>0, <3>2 DEF RunRecord
    <3> QED
      BY <1>2, <3>1, <3>2 DEF Fit
  <2> QED
    BY <1>2, <2>1, QueueInvQuiet DEF Fit
<1>3. CASE Lose(r)
  <2>1. PICK pc : run' = [run EXCEPT ![r] = [IdleRun EXCEPT !.pc = pc]]
    BY <1>3 DEF Lose
  <2>2. \A s \in Runners : run'[s].claimed \subseteq run[s].claimed
    BY <1>0, <2>1 DEF IdleRun
  <2> QED
    BY <1>3, <2>2, QueueInvQuiet DEF Lose
<1> QED
  BY <1>1, <1>2, <1>3, StageQueueInv, MarkQueueInv DEF RunStep

\* A request reads a row nobody holds, wipes its buckets and then drops it.
LEMMA UndoQueueInv ==
  ASSUME TypeOK, QueueInv, NEW u \in Undos, UndoStep(u) PROVE QueueInv'
<1>0. undo \in [Undos -> UndoRecord] /\ undo[u] \in UndoRecord
  BY DEF TypeOK
<1>a. ASSUME EndUndo(u)
      PROVE  /\ undo'[u].pc = "idle" /\ undo'[u].job = 0
             /\ \A v \in Undos \ {u} : undo'[v] = undo[v]
  BY <1>0, <1>a DEF EndUndo, IdleUndo
<1>b. 0 \notin Ids
  BY DEF Ids
<1>1. CASE ReadRow(u)
  <2>1. PICK j \in Ids : /\ Live(j) /\ jobs[j].status # "processing"
                         /\ undo' = [undo EXCEPT ![u] = [pc |-> "wipe", job |-> j]]
    BY <1>1 DEF ReadRow
  <2>2. UNCHANGED <<jobs, used, stats, run, hasty>>
    BY <1>1 DEF ReadRow
  <2>3. \A r \in Runners : j \notin run[r].claimed
    BY <2>1 DEF QueueInv, Held, Live
  <2>4. j <= used
    BY <2>1 DEF QueueInv, Numbered, Live, Absent, Ids, TypeOK
  <2>5. /\ undo'[u].pc = "wipe" /\ undo'[u].job = j
        /\ \A v \in Undos \ {u} : undo'[v] = undo[v]
    BY <1>0, <2>1
  <2>6. Undoing'
    BY <1>b, <2>2, <2>3, <2>4, <2>5 DEF QueueInv, Undoing
  <2> QED
    BY <2>2, <2>6 DEF QueueInv, Numbered, Held, Disjoint, BucketsHaveAJob, Live
<1>2. CASE WipeRows(u)
  <2>0. UNCHANGED <<jobs, used, run, hasty>>
    BY <1>2 DEF WipeRows
  <2>1. CASE EndUndo(u) /\ UNCHANGED stats
    <3>1. Undoing'
      BY <1>a, <1>b, <2>0, <2>1 DEF QueueInv, Undoing
    <3> QED
      BY <2>0, <2>1, <3>1 DEF QueueInv, Numbered, Held, Disjoint,
                              BucketsHaveAJob, Live
  <2>2. CASE /\ stats' = [d \in Days |-> [stats[d] EXCEPT ![undo[u].job] = 0]]
             /\ undo' = [undo EXCEPT ![u].pc = "drop"]
    <3>1. /\ undo'[u].pc = "drop" /\ undo'[u].job = undo[u].job
          /\ \A v \in Undos \ {u} : undo'[v] = undo[v]
      BY <1>0, <2>2 DEF UndoRecord
    <3>2. \A d \in Days, j \in Ids :
            stats'[d][j] = IF j = undo[u].job THEN 0 ELSE stats[d][j]
      BY <2>2 DEF TypeOK
    <3>3. undo[u].pc = "wipe"
      BY <1>2 DEF WipeRows
    <3>4. Undoing'
      <4> SUFFICES ASSUME NEW v \in Undos
                   PROVE  /\ undo'[v].pc = "idle" <=> undo'[v].job = 0
                          /\ \A j \in Ids : undo'[v].job = j =>
                               /\ j <= used
                               /\ \A r \in Runners :
                                    j \in run[r].claimed => j \in hasty
                               /\ undo'[v].pc = "drop" =>
                                    j \in hasty \/ \A d \in Days : stats'[d][j] = 0
        BY <2>0 DEF Undoing
      <4>1. CASE v = u
        BY <3>1, <3>2, <3>3, <4>1 DEF QueueInv, Undoing
      <4>2. CASE v # u
        BY <3>1, <3>2, <4>2 DEF QueueInv, Undoing
      <4> QED
        BY <4>1, <4>2
    <3>5. BucketsHaveAJob'
      BY <2>0, <3>2 DEF QueueInv, BucketsHaveAJob, Live
    <3> QED
      BY <2>0, <3>4, <3>5 DEF QueueInv, Numbered, Held, Disjoint
  <2> QED
    BY <1>2, <2>1, <2>2 DEF WipeRows
<1>3. CASE DropRow(u)
  <2> DEFINE j == undo[u].job
  <2>1. UNCHANGED <<used, stats, run, hasty>> /\ undo[u].pc = "drop"
    BY <1>3 DEF DropRow
  <2>2. j \in Ids /\ (j \in hasty \/ \A d \in Days : stats[d][j] = 0)
    BY <1>0, <2>1 DEF QueueInv, Undoing, UndoRecord
  <2>3. \A r \in Runners : j \in run[r].claimed => j \in hasty
    BY <2>2 DEF QueueInv, Undoing
  <2>4. /\ \A k \in Ids \ {j} : jobs'[k] = jobs[k]
        /\ jobs'[j].status = "deleted" \/ jobs'[j] = jobs[j]
    BY <1>3, <2>2, SetStatusMoves DEF DropRow, Statuses
  <2>5. jobs[j].status # "absent"
    BY <2>2 DEF QueueInv, Undoing, Numbered
  <2>a. \A r \in Runners : run[r].claimed \subseteq Ids
    BY DEF TypeOK, RunRecord
  <2>b. EndUndo(u)
    BY <1>3 DEF DropRow
  <2> HIDE DEF j
  <2>6. Numbered'
    BY <2>1, <2>2, <2>4, <2>5 DEF QueueInv, Numbered, Absent
  <2>7. Held'
    BY <2>1, <2>3, <2>4, <2>a DEF QueueInv, Held
  <2>8. Undoing'
    BY <1>a, <1>b, <2>1, <2>b DEF QueueInv, Undoing
  <2>9. BucketsHaveAJob'
    BY <2>1, <2>2, <2>4 DEF QueueInv, BucketsHaveAJob, Live, TypeOK
  <2> QED
    BY <2>1, <2>6, <2>7, <2>8, <2>9 DEF QueueInv, Disjoint
<1> QED
  BY <1>1, <1>2, <1>3 DEF UndoStep

LEMMA MergeQueueInv ==
  ASSUME TypeOK, QueueInv, NEW d \in Days, MergeParts(d) PROVE QueueInv'
<1>1. UNCHANGED <<jobs, used, run, undo, hasty>>
  BY DEF MergeParts
<1>2. PICK j \in Ids :
        stats' = [stats EXCEPT ![d] = [k \in Ids |-> IF k = j THEN @[k] ELSE 0]]
  BY DEF MergeParts
<1>3. \A e \in Days, k \in Ids : stats'[e][k] \in {0, stats[e][k]}
  BY <1>2 DEF TypeOK
<1>4. Undoing'
  BY <1>1, <1>3 DEF QueueInv, Undoing
<1>5. BucketsHaveAJob'
  BY <1>1, <1>3 DEF QueueInv, BucketsHaveAJob, Live
<1> QED
  BY <1>1, <1>4, <1>5 DEF QueueInv, Numbered, Held, Disjoint

LEMMA NextQueueInv == TypeOK /\ QueueInv /\ [Next]_vars => QueueInv'
<1> SUFFICES ASSUME TypeOK, QueueInv, [Next]_vars PROVE QueueInv'
  OBVIOUS
<1>1. CASE UNCHANGED vars
  BY <1>1, QueueInvQuiet DEF vars
<1> QED
  BY <1>1, DeliveryQueueInv, ClaimQueueInv, RunQueueInv, UploadQueueInv,
     UndoQueueInv, MergeQueueInv DEF Next, WorkerStep, Runners

LEMMA SpecQueueInv == Spec => []QueueInv
<1>1. Init => QueueInv
  BY DEF Init, QueueInv, Numbered, Held, Disjoint, Undoing, BucketsHaveAJob,
         Absent, IdleRun, IdleUndo, Ids
<1> QED
  BY <1>1, TypeInvariant, NextQueueInv, PTL DEF Spec

\* However the workers' lists overlap, and whatever is lost or deleted, no job
\* is run by two of them (claim_pending).
THEOREM OneRunPerJobHolds == Spec => []OneRunPerJob
BY SpecQueueInv, TypeInvariant, QueueInvImplies, PTL

\* A day's bucket can be traced to a row, and so be undone, unless its job was
\* claimed while a request was deleting it (delete_ingestion).
THEOREM BucketsHaveAJobHolds == Spec => []BucketsHaveAJob
<1>1. QueueInv => BucketsHaveAJob
  BY DEF QueueInv
<1> QED
  BY <1>1, SpecQueueInv, PTL

-----------------------------------------------------------------------------
(* One row for a report.                                                   *)

\* Two live rows of a report are the same row.
OneRow ==
  \A report \in Reports : \A j, k \in Rows(report) : j = k

\* An acknowledged delivery named a report, and the report has or had a row.
Acknowledged ==
  \A d \in Deliveries :
    /\ deliv[d].pc \in {"find", "insert"} \/ deliv[d].ok => deliv[d].report \in Reports
    /\ deliv[d].ok => \E j \in Ids : jobs[j].report = deliv[d].report

\* The inductive invariant behind ReportQueuedOnce and AckedMeansQueued.
EnqueueInv == OneRow /\ Acknowledged

LEMMA EnqueueInvImplies ==
  TypeOK /\ EnqueueInv => ReportQueuedOnce /\ AckedMeansQueued
<1> SUFFICES ASSUME TypeOK, EnqueueInv PROVE ReportQueuedOnce /\ AckedMeansQueued
  OBVIOUS
<1>1. AckedMeansQueued
  BY DEF EnqueueInv, Acknowledged, AckedMeansQueued
<1>2. ASSUME NEW report \in Reports PROVE Cardinality(Rows(report)) <= 1
  <2>1. CASE Rows(report) = {}
    BY <2>1, FS_EmptySet
  <2>2. ASSUME NEW j \in Rows(report) PROVE Cardinality(Rows(report)) <= 1
    <3>1. Rows(report) = {j}
      BY <2>2 DEF EnqueueInv, OneRow
    <3>2. Cardinality({j}) = 1
      BY FS_Singleton
    <3> QED
      BY <3>1, <3>2
  <2> QED
    BY <2>1, <2>2
<1> QED
  BY <1>1, <1>2 DEF ReportQueuedOnce

\* Rows that keep their report, and do not come back to life.
LEMMA EnqueueInvQuiet ==
  ASSUME EnqueueInv, UNCHANGED deliv,
         \A j \in Ids : jobs'[j].report = jobs[j].report /\ (Live(j)' => Live(j))
  PROVE  EnqueueInv'
<1>1. OneRow'
  BY DEF EnqueueInv, OneRow, Rows
<1>2. Acknowledged'
  BY DEF EnqueueInv, Acknowledged
<1> QED
  BY <1>1, <1>2 DEF EnqueueInv

LEMMA SetStatusKeepsReports ==
  ASSUME TypeOK, NEW j \in Ids, NEW status \in Statuses, SetStatus(j, status)
  PROVE  \A k \in Ids : jobs'[k].report = jobs[k].report /\ (Live(k)' => Live(k))
BY SetStatusMoves DEF Live

\* A new row leaves the reports that were there alone.
LEMMA CreateKeepsReports ==
  ASSUME TypeOK, Numbered, NEW status \in Statuses,
         NEW report \in Reports \cup {Manual}, Create(status, report)
  PROVE  /\ \A other \in Reports \ {report} :
              \A j \in Ids : j \in Rows(other)' => j \in Rows(other)
         /\ \A j \in Ids : jobs[j].report \in Reports =>
                             jobs'[j].report = jobs[j].report
<1>1. /\ used + 1 \in Ids /\ used \in Nat /\ jobs'[used + 1].report = report
      /\ \A k \in Ids \ {used + 1} : jobs'[k] = jobs[k]
  BY CreateMakes DEF TypeOK
<1>2. jobs[used + 1].report \notin Reports
  BY <1>1 DEF Numbered, Absent, Manual
<1> QED
  BY <1>1, <1>2 DEF Rows, Live

LEMMA DeliveryEnqueueInv ==
  ASSUME TypeOK, Numbered, EnqueueInv, NEW d \in Deliveries, DeliveryStep(d)
  PROVE  EnqueueInv'
<1>0. deliv \in [Deliveries -> DelivRecord] /\ deliv[d] \in DelivRecord
  BY DEF TypeOK
<1>a. ASSUME NEW ok \in BOOLEAN, Answer(d, ok)
      PROVE  /\ deliv'[d].pc = "done" /\ deliv'[d].ok = ok
             /\ deliv'[d].report = deliv[d].report
             /\ \A e \in Deliveries \ {d} : deliv'[e] = deliv[e]
  BY <1>0, <1>a DEF Answer, DelivRecord
<1>1. CASE Announce(d)
  <2>1. PICK report \in Reports :
          deliv' = [deliv EXCEPT ![d] = [pc |-> "find", report |-> report, ok |-> FALSE]]
    BY <1>1 DEF Announce
  <2>2. /\ deliv'[d].report \in Reports /\ ~deliv'[d].ok
        /\ \A e \in Deliveries \ {d} : deliv'[e] = deliv[e]
    BY <1>0, <2>1
  <2>3. jobs' = jobs
    BY <1>1 DEF Announce
  <2>4. Acknowledged'
    BY <2>2, <2>3 DEF EnqueueInv, Acknowledged
  <2> QED
    BY <2>3, <2>4 DEF EnqueueInv, OneRow, Rows, Live
<1>2. CASE FindExisting(d)
  <2>0. jobs' = jobs /\ deliv[d].report \in Reports
    BY <1>2 DEF FindExisting, EnqueueInv, Acknowledged
  <2>1. CASE Rows(deliv[d].report) # {} /\ Answer(d, TRUE)
    <3>1. \E j \in Ids : jobs[j].report = deliv[d].report
      BY <2>1 DEF Rows
    <3>2. Acknowledged'
      BY <1>a, <2>0, <2>1, <3>1 DEF EnqueueInv, Acknowledged
    <3> QED
      BY <2>0, <3>2 DEF EnqueueInv, OneRow, Rows, Live
  <2>2. CASE deliv' = [deliv EXCEPT ![d].pc = "insert"]
    <3>1. /\ deliv'[d].report = deliv[d].report /\ deliv'[d].ok = deliv[d].ok
          /\ \A e \in Deliveries \ {d} : deliv'[e] = deliv[e]
      BY <1>0, <2>2 DEF DelivRecord
    <3>2. Acknowledged'
      BY <2>0, <3>1 DEF EnqueueInv, Acknowledged
    <3> QED
      BY <2>0, <3>2 DEF EnqueueInv, OneRow, Rows, Live
  <2>3. CASE Answer(d, FALSE)
    <3>1. Acknowledged'
      BY <1>a, <2>0, <2>3 DEF EnqueueInv, Acknowledged
    <3> QED
      BY <2>0, <3>1 DEF EnqueueInv, OneRow, Rows, Live
  <2> QED
    BY <1>2, <2>1, <2>2, <2>3 DEF FindExisting
<1>3. CASE InsertPending(d)
  <2>0. deliv[d].report \in Reports
    BY <1>3 DEF InsertPending, EnqueueInv, Acknowledged
  <2>1. CASE /\ Rows(deliv[d].report) = {}
             /\ Create("pending", deliv[d].report) /\ Answer(d, TRUE)
    <3> DEFINE report == deliv[d].report
    <3>1. /\ used + 1 \in Ids /\ jobs'[used + 1].report = report
          /\ \A k \in Ids \ {used + 1} : jobs'[k] = jobs[k]
      BY <2>0, <2>1, CreateMakes DEF Statuses
    <3>2. /\ \A other \in Reports \ {report} :
               \A j \in Ids : j \in Rows(other)' => j \in Rows(other)
          /\ \A j \in Ids : jobs[j].report \in Reports =>
                              jobs'[j].report = jobs[j].report
      BY <2>0, <2>1, CreateKeepsReports DEF Statuses
    <3>3. \A j \in Ids \ {used + 1} : ~(Live(j)' /\ jobs'[j].report = report)
      BY <2>1, <3>1 DEF Rows, Live
    <3>4. OneRow'
      <4> SUFFICES ASSUME NEW other \in Reports, NEW j \in Ids, NEW k \in Ids,
                          Live(j)', Live(k)',
                          jobs'[j].report = other, jobs'[k].report = other
                   PROVE  j = k
        BY DEF OneRow, Rows
      <4>1. CASE other = report
        BY <3>3, <4>1
      <4>2. CASE other # report
        <5>1. j \in Rows(other) /\ k \in Rows(other)
          BY <3>2, <4>2 DEF Rows
        <5> QED
          BY <5>1 DEF EnqueueInv, OneRow
      <4> QED
        BY <4>1, <4>2
    <3>5. Acknowledged'
      <4> SUFFICES ASSUME NEW e \in Deliveries
                   PROVE  /\ deliv'[e].pc \in {"find", "insert"} \/ deliv'[e].ok
                               => deliv'[e].report \in Reports
                          /\ deliv'[e].ok =>
                               \E j \in Ids : jobs'[j].report = deliv'[e].report
        BY DEF Acknowledged
      <4>1. CASE e = d
        BY <1>a, <2>0, <2>1, <3>1, <4>1
      <4>2. CASE e # d
        BY <1>a, <2>1, <3>2, <4>2 DEF EnqueueInv, Acknowledged
      <4> QED
        BY <4>1, <4>2
    <3> QED
      BY <3>4, <3>5 DEF EnqueueInv
  <2>2. CASE Answer(d, FALSE) /\ UNCHANGED <<jobs, used>>
    <3>1. Acknowledged'
      BY <1>a, <2>0, <2>2 DEF EnqueueInv, Acknowledged
    <3> QED
      BY <2>2, <3>1 DEF EnqueueInv, OneRow, Rows, Live
  <2> QED
    BY <1>3, <2>1, <2>2 DEF InsertPending
<1> QED
  BY <1>1, <1>2, <1>3 DEF DeliveryStep

LEMMA NextEnqueueInv ==
  TypeOK /\ Numbered /\ EnqueueInv /\ [Next]_vars => EnqueueInv'
<1> SUFFICES ASSUME TypeOK, Numbered, EnqueueInv, [Next]_vars PROVE EnqueueInv'
  OBVIOUS
<1>a. ASSUME UNCHANGED <<jobs, deliv>> PROVE EnqueueInv'
  BY <1>a, EnqueueInvQuiet DEF Live
<1>1. ASSUME NEW w \in Workers, List(w) \/ Claim(w) \/ EndClaim(w)
      PROVE  EnqueueInv'
  <2>1. CASE Claim(w)
    <3>1. PICK j \in Ids : UNCHANGED jobs \/ SetStatus(j, "processing")
      BY <2>1 DEF Claim, Win
    <3>2. UNCHANGED deliv
      BY <2>1 DEF Claim
    <3> QED
      BY <1>a, <3>1, <3>2, SetStatusKeepsReports, EnqueueInvQuiet DEF Statuses
  <2> QED
    BY <1>a, <1>1, <2>1 DEF List, EndClaim
<1>2. ASSUME NEW r \in Runners, RunStep(r) \/ Lose(r) PROVE EnqueueInv'
  <2>1. CASE Mark(r)
    <3>1. PICK j \in Ids : UNCHANGED jobs \/ SetStatus(j, run[r].pc)
      BY <2>1 DEF Mark
    <3>2. UNCHANGED deliv /\ run[r].pc \in Statuses
      BY <2>1 DEF Mark, Statuses
    <3> QED
      BY <1>a, <3>1, <3>2, SetStatusKeepsReports, EnqueueInvQuiet
  <2> QED
    BY <1>a, <1>2, <2>1 DEF RunStep, Fetch, Stage, Fit, Lose
<1>3. ASSUME NEW u \in Uploads, Upload(u) PROVE EnqueueInv'
  <2>1. /\ \A other \in Reports \ {Manual} :
             \A j \in Ids : j \in Rows(other)' => j \in Rows(other)
        /\ \A j \in Ids : jobs[j].report \in Reports =>
                            jobs'[j].report = jobs[j].report
        /\ UNCHANGED deliv
    BY <1>3, CreateKeepsReports DEF Upload, Statuses
  <2>2. \A other \in Reports : \A j \in Ids : j \in Rows(other)' => j \in Rows(other)
    BY <2>1 DEF Manual
  <2>3. OneRow'
    BY <2>2 DEF EnqueueInv, OneRow, Rows
  <2>4. Acknowledged'
    BY <2>1 DEF EnqueueInv, Acknowledged
  <2> QED
    BY <2>3, <2>4 DEF EnqueueInv
<1>4. ASSUME NEW u \in Undos, UndoStep(u) PROVE EnqueueInv'
  <2>1. CASE DropRow(u)
    <3>1. UNCHANGED deliv
      BY <2>1 DEF DropRow
    <3>2. CASE UNCHANGED jobs
      BY <1>a, <3>1, <3>2
    <3>3. CASE SetStatus(undo[u].job, "deleted") /\ undo[u].job \in Ids
      BY <3>1, <3>3, SetStatusKeepsReports, EnqueueInvQuiet DEF Statuses
    <3>4. CASE SetStatus(undo[u].job, "deleted") /\ undo[u].job \notin Ids
      <4>1. jobs' = jobs
        BY <3>4 DEF SetStatus, TypeOK
      <4> QED
        BY <1>a, <3>1, <4>1
    <3> QED
      BY <2>1, <3>2, <3>3, <3>4 DEF DropRow
  <2> QED
    BY <1>a, <1>4, <2>1 DEF UndoStep, ReadRow, WipeRows
<1>5. ASSUME NEW d \in Days, MergeParts(d) PROVE EnqueueInv'
  BY <1>a, <1>5 DEF MergeParts
<1>6. CASE UNCHANGED vars
  BY <1>a, <1>6 DEF vars
<1> QED
  BY <1>1, <1>2, <1>3, <1>4, <1>5, <1>6, DeliveryEnqueueInv
  DEF Next, WorkerStep, Runners

LEMMA SpecEnqueueInv == Spec => []EnqueueInv
<1>1. Init => EnqueueInv
  BY DEF Init, EnqueueInv, OneRow, Acknowledged, Rows, Live, Absent, IdleDeliv
<1>2. QueueInv => Numbered
  BY DEF QueueInv
<1> QED
  BY <1>1, <1>2, TypeInvariant, SpecQueueInv, NextEnqueueInv, PTL DEF Spec

\* Overlapping deliveries of a report, redelivered and failed ones included,
\* leave it one row (enqueue_pending).
THEOREM ReportQueuedOnceHolds == Spec => []ReportQueuedOnce
BY SpecEnqueueInv, TypeInvariant, EnqueueInvImplies, PTL

\* No delivery is acknowledged without a row for its report
\* (settlement_webhook).
THEOREM AckedMeansQueuedHolds == Spec => []AckedMeansQueued
BY SpecEnqueueInv, TypeInvariant, EnqueueInvImplies, PTL

-----------------------------------------------------------------------------
(* The contract of a job.                                                  *)

\* A runner between two cycles holds nothing, and a row that a delete request
\* has read is processing only if it was claimed since.
LifeInv ==
  /\ \A r \in Runners : run[r].pc \in {"idle", "done"} => run[r].claimed = {}
  /\ \A u \in Undos, j \in Ids :
       undo[u].job = j /\ jobs[j].status = "processing" => j \in hasty

\* Steps that set no row to processing and bring no runner to rest.
LEMMA LifeInvQuiet ==
  ASSUME LifeInv, UNCHANGED <<undo, hasty>>,
         \A j \in Ids : jobs'[j].status = "processing" => jobs[j].status = "processing",
         \A r \in Runners : run'[r].pc \in {"idle", "done"} =>
                              run'[r].claimed = {} \/ run'[r] = run[r]
  PROVE  LifeInv'
BY DEF LifeInv

LEMMA DeliveryLifeInv ==
  ASSUME TypeOK, Numbered, LifeInv, NEW d \in Deliveries, DeliveryStep(d)
  PROVE  LifeInv'
<1>1. UNCHANGED <<undo, hasty, run>>
  BY DEF DeliveryStep, Announce, FindExisting, InsertPending
<1>2. CASE UNCHANGED jobs
  BY <1>1, <1>2, LifeInvQuiet
<1>3. CASE Create("pending", deliv[d].report)
  <2>1. deliv[d].report \in Reports \cup {Manual}
    BY DEF TypeOK, DelivRecord
  <2>2. \A j \in Ids : jobs'[j].status = "processing" => jobs[j].status = "processing"
    BY <1>3, <2>1, CreateMakes DEF Statuses
  <2> QED
    BY <1>1, <2>2, LifeInvQuiet
<1> QED
  BY <1>2, <1>3 DEF DeliveryStep, Announce, FindExisting, InsertPending

LEMMA ClaimLifeInv ==
  ASSUME TypeOK, LifeInv, NEW w \in Workers, List(w) \/ Claim(w) \/ EndClaim(w)
  PROVE  LifeInv'
<1>0. run \in [Runners -> RunRecord] /\ run[w] \in RunRecord /\ w \in Runners
  BY DEF TypeOK, Runners
<1>1. CASE List(w)
  <2>1. PICK S : run' = [run EXCEPT ![w] = [IdleRun EXCEPT !.pc = "claim", !.listed = S]]
    BY <1>1 DEF List
  <2>2. run'[w].pc = "claim" /\ \A r \in Runners \ {w} : run'[r] = run[r]
    BY <1>0, <2>1 DEF IdleRun
  <2> QED
    BY <1>1, <2>2, LifeInvQuiet DEF List
<1>2. CASE Claim(w)
  <2>0. run[w].pc = "claim" /\ UNCHANGED undo
    BY <1>2 DEF Claim
  <2>1. PICK j \in Ids :
          \/ Swap(j) /\ Win(w, j)
          \/ /\ UNCHANGED <<jobs, hasty>>
             /\ run' = [run EXCEPT ![w].listed = @ \ {j}]
          \/ /\ UNCHANGED <<jobs, hasty>>
             /\ run' = [run EXCEPT ![w] = IdleRun]
    BY <1>2 DEF Claim
  <2>2. CASE Swap(j) /\ Win(w, j)
    <3>1. /\ \A k \in Ids \ {j} : jobs'[k] = jobs[k]
          /\ hasty \subseteq hasty'
          /\ \A u \in Undos : undo[u].job = j => j \in hasty'
      BY <2>2, SetStatusMoves DEF Win, Statuses, BeingUndone
    <3>2. run'[w].pc = "claim" /\ \A r \in Runners \ {w} : run'[r] = run[r]
      BY <1>0, <2>0, <2>2 DEF Win, RunRecord
    <3> QED
      BY <2>0, <3>1, <3>2 DEF LifeInv
  <2>3. CASE UNCHANGED <<jobs, hasty>> /\ run' = [run EXCEPT ![w].listed = @ \ {j}]
    <3>1. run'[w].pc = "claim" /\ \A r \in Runners \ {w} : run'[r] = run[r]
      BY <1>0, <2>0, <2>3 DEF RunRecord
    <3> QED
      BY <2>0, <2>3, <3>1, LifeInvQuiet
  <2>4. CASE UNCHANGED <<jobs, hasty>> /\ run' = [run EXCEPT ![w] = IdleRun]
    <3>1. run'[w].claimed = {} /\ \A r \in Runners \ {w} : run'[r] = run[r]
      BY <1>0, <2>4 DEF IdleRun
    <3> QED
      BY <2>0, <2>4, <3>1, LifeInvQuiet
  <2> QED
    BY <2>1, <2>2, <2>3, <2>4
<1>3. CASE EndClaim(w)
  <2>1. /\ run'[w].claimed = run[w].claimed
        /\ run'[w].pc = IF run[w].claimed = {} THEN "idle" ELSE "fetch"
        /\ \A r \in Runners \ {w} : run'[r] = run[r]
    BY <1>0, <1>3 DEF EndClaim, RunRecord
  <2> QED
    BY <1>3, <2>1, LifeInvQuiet DEF EndClaim
<1> QED
  BY <1>1, <1>2, <1>3

LEMMA RunLifeInv ==
  ASSUME TypeOK, QueueInv, LifeInv, NEW r \in Runners, RunStep(r) \/ Lose(r)
  PROVE  LifeInv'
<1>0. run \in [Runners -> RunRecord] /\ run[r] \in RunRecord
  BY DEF TypeOK
<1>1. UNCHANGED <<undo, hasty>>
  BY DEF RunStep, Fetch, Stage, Fit, Mark, Lose
<1>2. CASE Mark(r)
  <2>1. PICK j \in Ids : /\ j \in run[r].claimed
                         /\ SetStatus(j, run[r].pc) \/ UNCHANGED jobs
                         /\ NextJob(r, j)
    BY <1>2 DEF Mark, IsFirst
  <2>2. run[r].pc \in {"completed", "failed"}
    BY <1>2 DEF Mark
  <2>3. \A k \in Ids : jobs'[k].status = "processing" => jobs[k].status = "processing"
    BY <2>1, <2>2, SetStatusMoves DEF Statuses
  <2>4. /\ run'[r].claimed = run[r].claimed \ {j}
        /\ run'[r].pc = IF run[r].claimed = {j} THEN AfterLast(r) ELSE "fetch"
        /\ \A s \in Runners \ {r} : run'[s] = run[s]
    BY <1>0, <2>1 DEF NextJob, RunRecord
  <2> QED
    BY <1>1, <2>3, <2>4, LifeInvQuiet
<1>3. CASE Lose(r)
  <2>1. run'[r].claimed = {} /\ \A s \in Runners \ {r} : run'[s] = run[s]
    BY <1>0, <1>3 DEF Lose, IdleRun
  <2> QED
    BY <1>1, <1>3, <2>1, LifeInvQuiet DEF Lose
<1>4. CASE Fetch(r) \/ Stage(r) \/ Fit(r)
  <2>1. run'[r].pc \notin {"idle", "done"} /\ \A s \in Runners \ {r} : run'[s] = run[s]
    BY <1>0, <1>4 DEF Fetch, Stage, Fit, Fail, RunRecord
  <2> QED
    BY <1>1, <1>4, <2>1, LifeInvQuiet DEF Fetch, Stage, Fit
<1> QED
  BY <1>2, <1>3, <1>4 DEF RunStep

LEMMA UploadLifeInv ==
  ASSUME TypeOK, QueueInv, LifeInv, NEW u \in Uploads, Upload(u) PROVE LifeInv'
<1>1. /\ run'[u].pc = "fetch" /\ \A r \in Runners \ {u} : run'[r] = run[r]
      /\ UNCHANGED <<undo, hasty>>
  BY DEF Upload, TypeOK, Runners, IdleRun
<1>2. \A k \in Ids \ {used + 1} : jobs'[k] = jobs[k]
  BY CreateMakes DEF Upload, Statuses
<1>3. \A v \in Undos : undo[v].job # used + 1
  BY CreateMakes DEF Upload, Statuses, QueueInv, Undoing, TypeOK
<1> QED
  BY <1>1, <1>2, <1>3 DEF LifeInv

LEMMA UndoLifeInv ==
  ASSUME TypeOK, QueueInv, LifeInv, NEW u \in Undos, UndoStep(u) PROVE LifeInv'
<1>0. undo \in [Undos -> UndoRecord] /\ undo[u] \in UndoRecord /\ 0 \notin Ids
  BY DEF TypeOK, Ids
<1>1. CASE ReadRow(u)
  <2>1. PICK j \in Ids : /\ jobs[j].status # "processing"
                         /\ undo' = [undo EXCEPT ![u] = [pc |-> "wipe", job |-> j]]
    BY <1>1 DEF ReadRow
  <2>2. undo'[u].job = j /\ \A v \in Undos \ {u} : undo'[v] = undo[v]
    BY <1>0, <2>1
  <2> QED
    BY <1>1, <2>1, <2>2 DEF ReadRow, LifeInv
<1>2. ASSUME UNCHANGED <<run, hasty>>,
             \A v \in Undos : undo'[v].job = 0 \/ undo'[v].job = undo[v].job,
             \A j \in Ids : jobs'[j].status = "processing" =>
                              jobs[j].status = "processing"
      PROVE  LifeInv'
  BY <1>0, <1>2 DEF LifeInv
<1>3. ASSUME EndUndo(u)
      PROVE  \A v \in Undos : undo'[v].job = 0 \/ undo'[v].job = undo[v].job
  BY <1>0, <1>3 DEF EndUndo, IdleUndo
<1>4. CASE WipeRows(u)
  <2>1. CASE undo' = [undo EXCEPT ![u].pc = "drop"]
    <3>1. \A v \in Undos : undo'[v].job = undo[v].job
      BY <1>0, <2>1 DEF UndoRecord
    <3> QED
      BY <1>2, <1>4, <3>1 DEF WipeRows
  <2> QED
    BY <1>2, <1>3, <1>4, <2>1 DEF WipeRows
<1>5. CASE DropRow(u)
  <2>1. undo[u].job \in Ids
    BY <1>0, <1>5 DEF DropRow, QueueInv, Undoing, UndoRecord
  <2>2. \A j \in Ids : jobs'[j].status = "processing" => jobs[j].status = "processing"
    BY <1>5, <2>1, SetStatusMoves DEF DropRow, Statuses
  <2> QED
    BY <1>2, <1>3, <1>5, <2>2 DEF DropRow
<1> QED
  BY <1>1, <1>4, <1>5 DEF UndoStep

LEMMA NextLifeInv == TypeOK /\ QueueInv /\ LifeInv /\ [Next]_vars => LifeInv'
<1> SUFFICES ASSUME TypeOK, QueueInv, LifeInv, [Next]_vars PROVE LifeInv'
  OBVIOUS
<1>1. CASE UNCHANGED vars
  BY <1>1, LifeInvQuiet DEF vars
<1>2. ASSUME NEW d \in Days, MergeParts(d) PROVE LifeInv'
  BY <1>2, LifeInvQuiet DEF MergeParts
<1>3. Numbered
  BY DEF QueueInv
<1> QED
  BY <1>1, <1>2, <1>3, DeliveryLifeInv, ClaimLifeInv, RunLifeInv, UploadLifeInv,
     UndoLifeInv DEF Next, WorkerStep, Runners

LEMMA SpecLifeInv == Spec => []LifeInv
<1>1. Init => LifeInv
  BY DEF Init, LifeInv, IdleRun, Absent
<1> QED
  BY <1>1, TypeInvariant, SpecQueueInv, NextLifeInv, PTL DEF Spec

ContractStep == [Contract!Next]_<<jobs, HeldBy, hasty>>

\* What is neither a new row, a claim, an end nor a deletion is a stutter.
LEMMA ContractStutter ==
  ASSUME UNCHANGED <<jobs, hasty>>,
         \A r \in Runners : run'[r].claimed = run[r].claimed
  PROVE  ContractStep
BY DEF ContractStep, HeldBy

\* The steps that change a row or a claim, one by one.
LEMMA InsertKeepsContract ==
  ASSUME TypeOK, QueueInv, NEW report \in Reports, Rows(report) = {},
         Create("pending", report), UNCHANGED <<run, hasty>>
  PROVE  ContractStep
<1>0. used + 1 \in Ids /\ used \in Nat
  BY DEF Create, TypeOK, Ids
<1>1. /\ used + 1 \in Ids /\ used \in Nat
      /\ jobs' = [jobs EXCEPT ![used + 1] = [status |-> "pending", report |-> report]]
  BY <1>0 DEF Create
<1>2. \A k \in Ids : k < used + 1 <=> jobs[k].status # "absent"
  BY <1>1 DEF QueueInv, Numbered, Absent, Ids
<1>3. \A k \in Ids : jobs[k].report = report => jobs[k].status = "deleted"
  BY <1>1 DEF QueueInv, Numbered, Absent, Rows, Live, Ids, Manual
<1>4. UNCHANGED HeldBy
  BY DEF HeldBy
<1>5. Contract!Announced(used + 1, report)
  BY <1>1, <1>2, <1>3, <1>4 DEF Contract!Announced, Contract!Enter, Contract!Status
<1> QED
  BY <1>1, <1>5 DEF ContractStep, Contract!Next

LEMMA UploadKeepsContract ==
  ASSUME TypeOK, QueueInv, LifeInv, NEW u \in Uploads, Upload(u) PROVE ContractStep
<1>0. u \in Runners /\ used \in Nat /\ used + 1 \in Ids
  BY DEF Runners, Upload, Create, TypeOK, Ids
<1>1. PICK j \in Ids : j = used + 1
  BY <1>0
<1>2. jobs' = [jobs EXCEPT ![j] = [status |-> "processing", report |-> Manual]]
  BY <1>1 DEF Upload, Create
<1>3. \A k \in Ids : k < j <=> jobs[k].status # "absent"
  BY <1>0, <1>1 DEF QueueInv, Numbered, Absent, Ids
<1>4. /\ run'[u].claimed = {j} /\ run[u].claimed = {}
      /\ \A r \in Runners \ {u} : run'[r] = run[r]
  BY <1>0, <1>1 DEF Upload, TypeOK, IdleRun, LifeInv
<1>5. HeldBy[u] = {} /\ HeldBy' = [HeldBy EXCEPT ![u] = {j}]
  BY <1>0, <1>4 DEF HeldBy
<1>6. Contract!Uploaded(u, j)
  BY <1>2, <1>3, <1>5 DEF Contract!Uploaded, Contract!Enter, Contract!Status, Upload
<1> QED
  BY <1>0, <1>6 DEF ContractStep, Contract!Next

LEMMA WinKeepsContract ==
  ASSUME TypeOK, QueueInv, NEW w \in Workers, NEW j \in Ids, Swap(j), Win(w, j)
  PROVE  ContractStep
<1>0. w \in Runners /\ run[w] \in RunRecord /\ jobs[j].status = "pending" /\ Live(j)
  BY DEF Runners, TypeOK, Swap, Live
<1>1. \A r \in Runners : j \notin run[r].claimed
  BY <1>0 DEF QueueInv, Held
<1>2. /\ run'[w].claimed = run[w].claimed \cup {j}
      /\ \A r \in Runners \ {w} : run'[r] = run[r]
  BY <1>0 DEF Win, TypeOK, RunRecord
<1>3. ~Contract!InHands(j)
  BY <1>1 DEF Contract!InHands, HeldBy
<1>4. HeldBy' = [HeldBy EXCEPT ![w] = @ \cup {j}]
  BY <1>0, <1>2 DEF HeldBy
<1>5. jobs' = [jobs EXCEPT ![j].status = "processing"]
  BY <1>0 DEF Win, SetStatus
<1>6. Contract!Take(w, j)
  BY <1>0, <1>3, <1>4, <1>5 DEF Contract!Take, Contract!Status, Win
<1> QED
  BY <1>0, <1>6 DEF ContractStep, Contract!Next

\* A runner that stops holds nothing any more.
LEMMA StopKeepsContract ==
  ASSUME TypeOK, NEW r \in Runners, NEW rest, rest.claimed = {},
         run' = [run EXCEPT ![r] = rest], UNCHANGED <<jobs, hasty>>
  PROVE  ContractStep
<1>1. run'[r].claimed = {} /\ \A s \in Runners \ {r} : run'[s] = run[s]
  BY DEF TypeOK
<1>2. HeldBy' = [HeldBy EXCEPT ![r] = {}]
  <2>1. HeldBy' = [s \in Runners |-> IF s = r THEN {} ELSE run[s].claimed]
    BY <1>1 DEF HeldBy
  <2> QED
    BY <2>1 DEF HeldBy
<1>3. Contract!LetGo(r)
  BY <1>2 DEF Contract!LetGo
<1> QED
  BY <1>3 DEF ContractStep, Contract!Next

LEMMA MarkKeepsContract ==
  ASSUME TypeOK, QueueInv, NEW r \in Runners, Mark(r) PROVE ContractStep
<1>0. run[r] \in RunRecord
  BY DEF TypeOK
<1>1. PICK j \in Ids : /\ j \in run[r].claimed
                       /\ SetStatus(j, run[r].pc) \/ UNCHANGED jobs
                       /\ NextJob(r, j)
  BY DEF Mark, IsFirst
<1>2. run[r].pc \in {"completed", "failed"} /\ UNCHANGED hasty
  BY DEF Mark
<1>3. /\ run'[r].claimed = run[r].claimed \ {j}
      /\ \A s \in Runners \ {r} : run'[s] = run[s]
  BY <1>0, <1>1 DEF NextJob, TypeOK, RunRecord
<1>4. j \in HeldBy[r] /\ HeldBy' = [HeldBy EXCEPT ![r] = @ \ {j}]
  BY <1>1, <1>3 DEF HeldBy
<1>5. \/ UNCHANGED jobs
      \/ /\ jobs[j].status = "processing"
         /\ jobs' = [jobs EXCEPT ![j].status = run[r].pc]
  <2>1. jobs[j].status \in {"processing", "deleted"}
    BY <1>1 DEF QueueInv, Held
  <2> QED
    BY <1>1, <2>1 DEF SetStatus, Live
<1>6. Contract!End(r, j)
  BY <1>2, <1>4, <1>5 DEF Contract!End, Contract!Status
<1> QED
  BY <1>6 DEF ContractStep, Contract!Next

LEMMA DropKeepsContract ==
  ASSUME TypeOK, QueueInv, LifeInv, NEW u \in Undos, DropRow(u) PROVE ContractStep
<1>1. undo[u] \in UndoRecord /\ undo[u].pc = "drop" /\ UNCHANGED <<run, hasty>>
  BY DEF TypeOK, DropRow
<1>2. PICK j \in Ids : undo[u].job = j
  BY <1>1 DEF QueueInv, Undoing, UndoRecord
<1>3. CASE UNCHANGED jobs
  BY <1>1, <1>3, ContractStutter
<1>4. CASE SetStatus(j, "deleted") /\ Live(j)
  <2>1. jobs' = [jobs EXCEPT ![j].status = "deleted"]
    BY <1>4 DEF SetStatus
  <2>2. jobs[j].status \in {"pending", "processing", "completed", "failed"}
    BY <1>4 DEF TypeOK, JobRow, Statuses, Live
  <2>3. jobs[j].status = "processing" => j \in hasty
    BY <1>2 DEF LifeInv
  <2>4. Contract!InHands(j) => j \in hasty
    BY <1>2 DEF Contract!InHands, HeldBy, QueueInv, Undoing
  <2>5. UNCHANGED HeldBy
    BY <1>1 DEF HeldBy
  <2>6. Contract!Delete(j)
    BY <1>1, <2>1, <2>2, <2>3, <2>4, <2>5 DEF Contract!Delete, Contract!Status
  <2> QED
    BY <2>6 DEF ContractStep, Contract!Next
<1>5. CASE SetStatus(j, "deleted") /\ ~Live(j)
  BY <1>1, <1>5, ContractStutter DEF SetStatus
<1> QED
  BY <1>2, <1>3, <1>4, <1>5 DEF DropRow

LEMMA DeliveryKeepsContract ==
  ASSUME TypeOK, QueueInv, EnqueueInv, NEW d \in Deliveries, DeliveryStep(d)
  PROVE  ContractStep
<1>1. UNCHANGED <<run, hasty>>
  BY DEF DeliveryStep, Announce, FindExisting, InsertPending
<1>2. CASE UNCHANGED jobs
  BY <1>1, <1>2, ContractStutter
<1>3. CASE /\ deliv[d].pc = "insert" /\ Rows(deliv[d].report) = {}
           /\ Create("pending", deliv[d].report)
  <2>1. deliv[d].report \in Reports
    BY <1>3 DEF EnqueueInv, Acknowledged
  <2> QED
    BY <1>1, <1>3, <2>1, InsertKeepsContract
<1> QED
  BY <1>2, <1>3 DEF DeliveryStep, Announce, FindExisting, InsertPending

LEMMA WorkerKeepsContract ==
  ASSUME TypeOK, QueueInv, LifeInv, NEW w \in Workers,
         List(w) \/ Claim(w) \/ EndClaim(w)
  PROVE  ContractStep
<1>0. run \in [Runners -> RunRecord] /\ run[w] \in RunRecord /\ w \in Runners
  BY DEF TypeOK, Runners
<1>1. CASE List(w)
  <2>1. PICK S : run' = [run EXCEPT ![w] = [IdleRun EXCEPT !.pc = "claim", !.listed = S]]
    BY <1>1 DEF List
  <2>2. \A r \in Runners : run'[r].claimed = run[r].claimed
    BY <1>0, <1>1, <2>1 DEF IdleRun, List, LifeInv
  <2> QED
    BY <1>1, <2>2, ContractStutter DEF List
<1>2. CASE Claim(w)
  <2>1. PICK j \in Ids :
          \/ Swap(j) /\ Win(w, j)
          \/ /\ UNCHANGED <<jobs, hasty>>
             /\ run' = [run EXCEPT ![w].listed = @ \ {j}]
          \/ /\ UNCHANGED <<jobs, hasty>>
             /\ run' = [run EXCEPT ![w] = IdleRun]
    BY <1>2 DEF Claim
  <2>2. CASE Swap(j) /\ Win(w, j)
    BY <2>2, WinKeepsContract
  <2>3. CASE UNCHANGED <<jobs, hasty>> /\ run' = [run EXCEPT ![w].listed = @ \ {j}]
    <3>1. \A r \in Runners : run'[r].claimed = run[r].claimed
      BY <1>0, <2>3 DEF RunRecord
    <3> QED
      BY <2>3, <3>1, ContractStutter
  <2>4. CASE UNCHANGED <<jobs, hasty>> /\ run' = [run EXCEPT ![w] = IdleRun]
    <3>1. IdleRun.claimed = {}
      BY DEF IdleRun
    <3> QED
      BY <1>0, <2>4, <3>1, StopKeepsContract
  <2> QED
    BY <2>1, <2>2, <2>3, <2>4
<1>3. CASE EndClaim(w)
  <2>1. PICK pc : run' = [run EXCEPT ![w].pc = pc]
    BY <1>3 DEF EndClaim
  <2>2. \A r \in Runners : run'[r].claimed = run[r].claimed
    BY <1>0, <2>1 DEF RunRecord
  <2> QED
    BY <1>3, <2>2, ContractStutter DEF EndClaim
<1> QED
  BY <1>1, <1>2, <1>3

LEMMA RunKeepsContract ==
  ASSUME TypeOK, QueueInv, NEW r \in Runners, RunStep(r) \/ Lose(r)
  PROVE  ContractStep
<1>0. run \in [Runners -> RunRecord] /\ run[r] \in RunRecord
  BY DEF TypeOK
<1>1. CASE Fetch(r) \/ Stage(r) \/ Fit(r)
  <2>1. \A s \in Runners : run'[s].claimed = run[s].claimed
    BY <1>0, <1>1 DEF Fetch, Stage, Fit, Fail, RunRecord
  <2> QED
    BY <1>1, <2>1, ContractStutter DEF Fetch, Stage, Fit
<1>2. CASE Lose(r)
  <2>1. [IdleRun EXCEPT !.pc = AfterLast(r)].claimed = {}
    BY DEF IdleRun
  <2> QED
    BY <1>2, <2>1, StopKeepsContract DEF Lose
<1> QED
  BY <1>1, <1>2, MarkKeepsContract DEF RunStep

LEMMA NextKeepsContract ==
  TypeOK /\ QueueInv /\ EnqueueInv /\ LifeInv /\ [Next]_vars => ContractStep
<1> SUFFICES ASSUME TypeOK, QueueInv, EnqueueInv, LifeInv, [Next]_vars
             PROVE  ContractStep
  OBVIOUS
<1>1. CASE UNCHANGED vars
  BY <1>1, ContractStutter DEF vars
<1>2. ASSUME NEW d \in Days, MergeParts(d) PROVE ContractStep
  BY <1>2, ContractStutter DEF MergeParts
<1>3. ASSUME NEW u \in Undos, UndoStep(u) PROVE ContractStep
  <2>1. CASE ReadRow(u) \/ WipeRows(u)
    BY <2>1, ContractStutter DEF ReadRow, WipeRows
  <2> QED
    BY <1>3, <2>1, DropKeepsContract DEF UndoStep
<1> QED
  BY <1>1, <1>2, <1>3, DeliveryKeepsContract, WorkerKeepsContract,
     RunKeepsContract, UploadKeepsContract DEF Next, WorkerStep, Runners

\* Whatever the lists of the workers, the deliveries, the deletions, the failures
\* and the crashes make of it, the table keeps the life of a job: one holder at a
\* time, whose outcome is the last word, and no deletion of a job in progress that
\* was not claimed under the deletion (claim_pending, mark_completed,
\* delete_ingestion).
THEOREM QueueKeepsContractHolds == Spec => QueueKeepsContract
<1>1. Init => Contract!Init
  BY DEF Init, Contract!Init, HeldBy, IdleRun, Absent
<1>2. TypeOK /\ QueueInv /\ EnqueueInv /\ LifeInv /\ [Next]_vars
        => [Contract!Next]_<<jobs, HeldBy, hasty>>
  BY NextKeepsContract DEF ContractStep
<1>3. [Contract!Next]_<<jobs, HeldBy, hasty>> => [Contract!Next]_(Contract!vars)
  BY DEF Contract!vars
<1> QED
  BY <1>1, <1>2, <1>3, TypeInvariant, SpecQueueInv, SpecEnqueueInv, SpecLifeInv, PTL
     DEF Spec, QueueKeepsContract, Contract!Spec

=============================================================================
