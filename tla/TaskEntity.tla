----------------------------- MODULE TaskEntity -----------------------------
(***************************************************************************)
(* The row of table core_task and the methods of task/model/entity.go that *)
(* read or change it.  Of the columns only those the scheduling protocol   *)
(* looks at are kept: task_status, redo, worker_id and deleted_at.  Status *)
(* "absent" stands for a row that has not been inserted yet.               *)
(***************************************************************************)
EXTENDS Naturals

CONSTANTS Worker,      \* the WorkerIDs
          NoWorker     \* the empty worker_id of a row nobody ever picked

\* No worker has the empty WorkerID (worker.WorkerConfig fills in a default).
ASSUME NoWorkerAssumption == NoWorker \notin Worker

TaskStatus == {"absent", "pending", "running", "success", "failed",
               "canceled", "timeout"}

Entity == [status: TaskStatus, redo: Nat, worker: Worker \cup {NoWorker},
           deleted: BOOLEAN]

Absent == [status |-> "absent", redo |-> 0, worker |-> NoWorker,
           deleted |-> FALSE]

\* What a query sees: gorm adds "deleted_at IS NULL" to every statement.
Visible(e) == e.status # "absent" /\ ~e.deleted

CanRetry(e, maxRedo) == e.redo < maxRedo /\ e.status \in {"failed", "timeout"}

NewTask == [Absent EXCEPT !.status = "pending"]

\* Mutant: a failure that is not counted.
MarkAsFailedUncounted(e) == [e EXCEPT !.status = "failed"]

MarkAsRunning(e, w) == [e EXCEPT !.status = "running", !.worker = w]
MarkAsSuccess(e)    == [e EXCEPT !.status = "success"]
MarkAsFailed(e)     == [e EXCEPT !.status = "failed", !.redo = @ + 1]
MarkAsTimeout(e)    == [e EXCEPT !.status = "timeout", !.redo = @ + 1]
MarkAsCanceled(e)   == [e EXCEPT !.status = "canceled"]

\* The switch on execErr in Manager.SaveTaskResult.
Outcome == {"success", "failed", "timeout"}

MarkOutcome(e, o) == IF o = "success" THEN MarkAsSuccess(e)
                     ELSE IF o = "timeout" THEN MarkAsTimeout(e)
                     ELSE MarkAsFailed(e)
=============================================================================
