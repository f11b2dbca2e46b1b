---------------------------- MODULE JobContract ----------------------------
(***************************************************************************)
(* What the ingestion queue promises of a job, with no list, delivery,     *)
(* bucket or database error in sight: a job enters once and waits, one     *)
(* holder takes it, only that holder ends it, a holder that stops leaves   *)
(* it as it is, and a job that is being processed is not deleted, unless   *)
(* it was taken while its deletion was under way.                          *)
(***************************************************************************)
EXTENDS Integers

CONSTANTS Ids, Runners, Reports, Manual

VARIABLES jobs,      \* the row of each id, or no row yet
          held,      \* the jobs in the hands of each runner
          contested  \* jobs taken while their deletion was under way

vars == <<jobs, held, contested>>

Status(j) == jobs[j].status
InHands(j) == \E r \in Runners : j \in held[r]

Init ==
  /\ jobs = [j \in Ids |-> [status |-> "absent", report |-> Manual]]
  /\ held = [r \in Runners |-> {}]
  /\ contested = {}

\* Ids are given out in order, and never twice.
Enter(j, status, report) ==
  /\ \A k \in Ids : k < j <=> Status(k) # "absent"
  /\ jobs' = [jobs EXCEPT ![j] = [status |-> status, report |-> report]]

\* A report enters while there is no row of it, and waits.
Announced(j, report) ==
  /\ Enter(j, "pending", report)
  /\ \A k \in Ids : jobs[k].report = report => Status(k) = "deleted"
  /\ UNCHANGED <<held, contested>>

\* An upload enters in the hands of its task.
Uploaded(r, j) ==
  /\ Enter(j, "processing", Manual)
  /\ held[r] = {} /\ held' = [held EXCEPT ![r] = {j}]
  /\ UNCHANGED contested

Take(r, j) ==
  /\ Status(j) = "pending" /\ ~InHands(j)
  /\ jobs' = [jobs EXCEPT ![j].status = "processing"]
  /\ held' = [held EXCEPT ![r] = @ \cup {j}]
  /\ contested' \in {contested, contested \cup {j}}

\* The outcome, if it can be recorded.
End(r, j) ==
  /\ j \in held[r] /\ held' = [held EXCEPT ![r] = @ \ {j}]
  /\ \/ UNCHANGED jobs
     \/ /\ Status(j) = "processing"
        /\ \E outcome \in {"completed", "failed"} :
             jobs' = [jobs EXCEPT ![j].status = outcome]
  /\ UNCHANGED contested

LetGo(r) ==
  /\ held' = [held EXCEPT ![r] = {}]
  /\ UNCHANGED <<jobs, contested>>

Delete(j) ==
  /\ Status(j) \in {"pending", "processing", "completed", "failed"}
  /\ Status(j) = "processing" \/ InHands(j) => j \in contested
  /\ jobs' = [jobs EXCEPT ![j].status = "deleted"]
  /\ UNCHANGED <<held, contested>>

Next ==
  \/ \E j \in Ids, report \in Reports : Announced(j, report)
  \/ \E r \in Runners, j \in Ids : Uploaded(r, j) \/ Take(r, j) \/ End(r, j)
  \/ \E r \in Runners : LetGo(r)
  \/ \E j \in Ids : Delete(j)

Spec == Init /\ [][Next]_vars

=============================================================================
