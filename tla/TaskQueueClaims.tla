-------------------------- MODULE TaskQueueClaims ---------------------------
(***************************************************************************)
(* What comments and documentation of package task say that the code does  *)
(* not do.  TLC refutes each of these on a small instance.                 *)
(***************************************************************************)
EXTENDS MCTaskQueue

\* task/manager/manager.go:190-191: the tasks of a dead worker go back into the
\* queue.  CanRetry is asked of the entities read before the update.
DeadWorkerTasksRequeued ==
  [][\A m \in Manager :
       sweep[m].kind = "dead" /\ sweep[m].at = "requeue" /\ sweep'[m] = Idle
       => \A t \in sweep[m].ids :
            Visible(row[t]) /\ CanRetry(row[t], Attr[t].maxRedo) /\ group[Attr[t].type]
            => msgs'[Attr[t].type] > 0]_vars

\* task/manager/manager.go:314: a success triggers the next task.  The query runs
\* outside the transaction and still finds the completing step unfinished.
SuccessTriggersNextStep ==
  [][\A g \in Routine :
       /\ pc[g] = "save" /\ pc'[g] = "commit"
       /\ ent[g].status = "success" /\ Attr[cur[g]].grouped
       => LET done == [row EXCEPT ![cur[g]] = ent[g]]
          IN \A ty \in NextStepPendingTypes(done, Attr[cur[g]].flow) :
               group[ty] => msgs'[ty] > 0]_vars
=============================================================================
