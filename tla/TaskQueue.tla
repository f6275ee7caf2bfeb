----------------------------- MODULE TaskQueue ------------------------------
(***************************************************************************)
(* The distributed task queue of package task: rows of core_task, the      *)
(* Redis stream that wakes the workers, the goroutines of the workers, the *)
(* manager's sweeps (timeout check, dead-worker handling, queue sync) and  *)
(* the clients that create, cancel and delete tasks.                       *)
(*                                                                         *)
(* A statement that takes row locks is split from the commit that releases *)
(* them, and a value read outside a transaction is kept by its reader until*)
(* it is used, so every interleaving the database allows is a behaviour.   *)
(* Time is abstract: an execution may last any time, hence any running row *)
(* may be overdue when the timeout check looks at it.                      *)
(***************************************************************************)
EXTENDS TaskEntity, FiniteSets

CONSTANTS Task,        \* the tasks that may be created
          TaskType,    \* values of task_type
          Attr,        \* the columns of a task that never change
          Routine,     \* the workRoutine goroutines of all workers
          Of,          \* Of[g] = [worker, type]: the WorkerID and task type of g
          Manager,     \* the managers that sweep (more than one may be master)
          Client,      \* the concurrent callers of CancelTask
          NoOne,       \* holder of a free row lock
          NoTask,      \* no task
          Faults,      \* which of FaultKind this deployment meets
          MaxMsgs,     \* bound: messages of one type counted in the stream
          MaxFaults    \* bound: crashes, panics and rolled-back transactions

FaultKind == {"crash", "panic", "rollback", "lostpush", "timeout", "dead",
              "restart", "cancel", "delete"}

Flow == {Attr[t].flow : t \in Task}

\* flow: the pair (subject_id, app_group); grouped: app_group is not empty;
\* batch: the CreateTasks call that inserts the task.
ASSUME AttrAssumption ==
  /\ DOMAIN Attr = Task
  /\ \A t \in Task : /\ Attr[t].type \in TaskType
                     /\ Attr[t].step \in Nat
                     /\ Attr[t].priority \in Nat
                     /\ Attr[t].maxRedo \in Nat \ {0}
                     /\ Attr[t].grouped \in BOOLEAN

\* The steps of a flow are created together, as task/README.md shows.
ASSUME BatchAssumption ==
  \A t, u \in Task : Attr[t].flow = Attr[u].flow => Attr[t].batch = Attr[u].batch

ASSUME RoutineAssumption ==
  /\ DOMAIN Of = Routine
  /\ \A g \in Routine : Of[g].worker \in Worker /\ Of[g].type \in TaskType

ASSUME NullAssumption == NoOne \notin Routine /\ NoTask \notin Task

ASSUME BoundAssumption == /\ IsFiniteSet(Task)
                          /\ MaxMsgs \in Nat \ {0}
                          /\ MaxFaults \in Nat
                          /\ Faults \subseteq FaultKind

VARIABLES row,       \* row[t]: the committed row of task t
          lock,      \* lock[t]: the goroutine whose transaction locks row t
          stream,    \* stream[ty]: the Redis stream of the type exists
          group,     \* group[ty]: its consumer group exists
          msgs,      \* msgs[ty]: messages the group has not delivered yet
          pc,        \* pc[g]: where goroutine g is
          cur,       \* cur[g]: the task g has picked
          ent,       \* ent[g]: the entity g is about to save
          sweep,     \* sweep[m]: a manager's batch update in progress
          cancel,    \* cancel[c]: a CancelTask call between read and write
          faults,    \* crashes, panics and rollbacks so far
          overtaken, \* history: tasks taken from a goroutine still holding them
          attempts   \* history: executions started, per task

db == <<row, lock>>
redis == <<stream, group, msgs>>
routines == <<pc, cur, ent>>
history == <<overtaken, attempts>>
vars == <<row, lock, stream, group, msgs, pc, cur, ent, sweep, cancel, faults,
          overtaken, attempts>>

(***************************************************************************)
(* Queries                                                                 *)
(***************************************************************************)
Lower(t) == {u \in Task : /\ Attr[u].flow = Attr[t].flow
                          /\ Attr[u].step < Attr[t].step}

\* Mutant: a failed earlier step counts as finished.
StepsDoneOrFailed(t) ==
  \A u \in Lower(t) :
    Visible(row[u]) => row[u].status \in {"canceled", "success", "failed"}

\* The NOT EXISTS subquery of GetOnePendingTask.
StepsDone(t) == \A u \in Lower(t) :
                  Visible(row[u]) => row[u].status \in {"canceled", "success"}

\* Mutants: redo <= max_redo for redo < max_redo; running rows are picked too.
RetryableAtMax(t) == /\ Visible(row[t])
                     /\ row[t].status \in {"pending", "failed", "timeout"}
                     /\ row[t].redo <= Attr[t].maxRedo

RetryableRunning(t) == /\ Visible(row[t])
                       /\ row[t].status \in {"pending", "failed", "timeout", "running"}
                       /\ row[t].redo < Attr[t].maxRedo

\* The row itself satisfies the WHERE clause of GetOnePendingTask.
Retryable(t) == /\ Visible(row[t])
                /\ row[t].status \in {"pending", "failed", "timeout"}
                /\ row[t].redo < Attr[t].maxRedo

Claimable(t) == Retryable(t) /\ StepsDone(t)

\* GetPendingTaskCount(ty) > 0.
HasPending(ty) == \E t \in Task : Attr[t].type = ty /\ Claimable(t)

\* GetNextStepTasks: the open tasks of the first step that is not all successful,
\* as the rows r show it.
NextStepTasks(r, flow) ==
  LET inFlow     == {t \in Task : Attr[t].flow = flow /\ Visible(r[t])}
      unfinished == {t \in inFlow : r[t].status # "success"}
      next       == {t \in inFlow : \E u \in unfinished : Attr[u].step = Attr[t].step}
  IN {t \in next : /\ \A u \in unfinished : Attr[t].step <= Attr[u].step
                   /\ r[t].status \in {"pending", "failed", "running"}}

\* GetNextStepPendingTaskTypes.
NextStepPendingTypes(r, flow) ==
  {Attr[t].type : t \in {u \in NextStepTasks(r, flow) : r[u].status = "pending"}}

\* GetAllTaskTypes: the types whose stream exists.
AllTaskTypes == {ty \in TaskType : stream[ty]}

(***************************************************************************)
(* The Redis stream of a type                                              *)
(***************************************************************************)
AtMost(n) == IF n > MaxMsgs THEN MaxMsgs ELSE n

\* Queue.Push for every task of the set ts: XADD creates the stream; a message
\* added before the consumer group exists is never delivered to it, because
\* Pop creates the group at "$".
PushFor(ts) ==
  LET count(ty) == Cardinality({t \in ts : Attr[t].type = ty})
  IN /\ stream' = [ty \in TaskType |-> stream[ty] \/ count(ty) > 0]
     /\ msgs' = [ty \in TaskType |->
                   IF group[ty] THEN AtMost(msgs[ty] + count(ty)) ELSE msgs[ty]]
     /\ UNCHANGED group

\* Queue.Push once for every type of the set tys.
PushTypes(tys) ==
  /\ stream' = [ty \in TaskType |-> stream[ty] \/ ty \in tys]
  /\ msgs' = [ty \in TaskType |-> IF group[ty] /\ ty \in tys
                                  THEN AtMost(msgs[ty] + 1) ELSE msgs[ty]]
  /\ UNCHANGED group

\* The goroutines that hold an attempt at task t: they execute it, or they have
\* not finished saving its result.
Holders(t) == {g \in Routine : cur[g] = t /\ pc[g] \in {"exec", "save", "commit"}}

Unlocked(g) == [t \in Task |-> IF lock[t] = g THEN NoOne ELSE lock[t]]

\* History: tasks of ts that some goroutine still holds are taken from it.
Overtake(ts) == overtaken' = overtaken \cup {t \in ts : Holders(t) # {}}

(***************************************************************************)
(* Clients                                                                 *)
(***************************************************************************)
\* Manager.CreateTasks: insert the batch, then one message per task of its
\* first step; a failing push leaves the rows and returns.
CreateTasks(b) ==
  LET batch == {t \in Task : Attr[t].batch = b}
      first == {t \in batch : \A u \in batch : Attr[t].step <= Attr[u].step}
  IN /\ batch # {}
     /\ \A t \in batch : row[t].status = "absent"
     /\ row' = [t \in Task |-> IF t \in batch THEN NewTask ELSE row[t]]
     /\ \E pushed \in SUBSET first :
          /\ "lostpush" \in Faults \/ pushed = first
          /\ PushFor(pushed)
     /\ UNCHANGED <<lock, pc, cur, ent, sweep, cancel, faults, overtaken, attempts>>

\* TaskRepository.CancelTask: the read and the check ...
CancelRead(c, t) ==
  /\ "cancel" \in Faults
  /\ cancel[c].task = NoTask
  /\ Visible(row[t])
  /\ row[t].status \in {"pending", "failed"}
  /\ cancel' = [cancel EXCEPT ![c] = [task |-> t, ent |-> MarkAsCanceled(row[t])]]
  /\ UNCHANGED <<db, redis, routines, sweep, faults, history>>

\* gorm's Updates(struct) writes the fields that are not zero.
NonZero(e, old) == [e EXCEPT !.redo = IF @ = 0 THEN old.redo ELSE @,
                             !.worker = IF @ = NoWorker THEN old.worker ELSE @,
                             !.deleted = old.deleted]

\* ... and the write, by id alone, of the entity read earlier.
CancelWrite(c) ==
  LET t == cancel[c].task
  IN /\ t # NoTask
     /\ lock[t] = NoOne
     /\ row' = IF Visible(row[t])
               THEN [row EXCEPT ![t] = NonZero(cancel[c].ent, row[t])]
               ELSE row
     /\ Overtake({u \in {t} : Visible(row[u])})
     /\ cancel' = [cancel EXCEPT ![c] = [task |-> NoTask, ent |-> Absent]]
     /\ UNCHANGED <<lock, redis, routines, sweep, faults, attempts>>

\* TaskRepository.DeleteTask (soft delete).
DeleteTask(t) ==
  /\ "delete" \in Faults
  /\ Visible(row[t])
  /\ lock[t] = NoOne
  /\ row' = [row EXCEPT ![t].deleted = TRUE]
  /\ Overtake({t})
  /\ UNCHANGED <<lock, redis, routines, sweep, cancel, faults, attempts>>

(***************************************************************************)
(* A worker goroutine: workRoutine, processOneTask, executeTask            *)
(***************************************************************************)
\* Queue.Pop: XGROUP CREATE ... MKSTREAM; later calls of it fail harmlessly.
CreateGroup(g) ==
  LET ty == Of[g].type
  IN /\ pc[g] = "pop"
     /\ ~group[ty]
     /\ group' = [group EXCEPT ![ty] = TRUE]
     /\ stream' = [stream EXCEPT ![ty] = TRUE]
     /\ UNCHANGED <<db, msgs, routines, sweep, cancel, faults, history>>

\* Mutant: delivers a message that is not there.
PopMessageUnguarded(g) ==
  /\ pc[g] = "pop"
  /\ group[Of[g].type]
  /\ msgs' = [msgs EXCEPT ![Of[g].type] = @ - 1]
  /\ pc' = [pc EXCEPT ![g] = "pick"]
  /\ UNCHANGED <<db, stream, group, cur, ent, sweep, cancel, faults, history>>

\* Queue.Pop: XREADGROUP with NOACK delivers one message ...
PopMessage(g) ==
  LET ty == Of[g].type
  IN /\ pc[g] = "pop"
     /\ group[ty] /\ msgs[ty] > 0
     /\ msgs' = [msgs EXCEPT ![ty] = @ - 1]
     /\ pc' = [pc EXCEPT ![g] = "pick"]
     /\ UNCHANGED <<db, stream, group, cur, ent, sweep, cancel, faults, history>>

\* Mutant: an empty read goes back to Pop without looking at the table.
PopTimeoutNoPoll(g) ==
  /\ pc[g] = "pop"
  /\ group[Of[g].type] /\ msgs[Of[g].type] = 0
  /\ UNCHANGED vars

\* ... or BlockTime passes without one; GetNextTask polls the table all the same.
PopTimeout(g) ==
  /\ pc[g] = "pop"
  /\ group[Of[g].type] /\ msgs[Of[g].type] = 0
  /\ pc' = [pc EXCEPT ![g] = "pick"]
  /\ UNCHANGED <<db, redis, cur, ent, sweep, cancel, faults, history>>

\* Mutant: SELECT without FOR UPDATE.
PickSelectNoLock(g) ==
  /\ pc[g] = "pick"
  /\ \E t \in Task : /\ Attr[t].type = Of[g].type
                     /\ Claimable(t)
                     /\ cur' = [cur EXCEPT ![g] = t]
                     /\ pc' = [pc EXCEPT ![g] = "claim"]
  /\ UNCHANGED <<db, redis, ent, sweep, cancel, faults, history>>

\* GetOnePendingTask: SELECT ... FOR UPDATE SKIP LOCKED locks every matching row
\* that is free and returns the first by priority (updated_at breaks ties).
PickSelect(g) ==
  LET avail == {t \in Task : /\ Attr[t].type = Of[g].type
                             /\ Claimable(t)
                             /\ lock[t] = NoOne}
  IN /\ pc[g] = "pick"
     /\ \/ /\ avail = {}
           /\ pc' = [pc EXCEPT ![g] = "pop"]
           /\ UNCHANGED <<lock, cur>>
        \/ \E t \in avail :
             /\ \A u \in avail : Attr[u].priority <= Attr[t].priority
             /\ lock' = [u \in Task |-> IF u \in avail THEN g ELSE lock[u]]
             /\ cur' = [cur EXCEPT ![g] = t]
             /\ pc' = [pc EXCEPT ![g] = "claim"]
     /\ UNCHANGED <<row, redis, ent, sweep, cancel, faults, history>>

\* GetOnePendingTask: MarkAsRunning, Save, commit.
PickCommit(g) ==
  LET t == cur[g]
  IN /\ pc[g] = "claim"
     /\ row' = [row EXCEPT ![t] = MarkAsRunning(@, Of[g].worker)]
     /\ lock' = Unlocked(g)
     /\ pc' = [pc EXCEPT ![g] = "exec"]
     /\ attempts' = [attempts EXCEPT ![t] = @ + 1]
     /\ UNCHANGED <<redis, cur, ent, sweep, cancel, faults, overtaken>>

\* executeTask has its outcome and calls SaveTaskResult, which reads the row
\* outside its own transaction and marks that copy; a deleted row is not found.
SaveRead(g, o) ==
  LET t == cur[g]
  IN /\ pc[g] = "exec"
     /\ \/ /\ Visible(row[t])
           /\ ent' = [ent EXCEPT ![g] = MarkOutcome(row[t], o)]
           /\ pc' = [pc EXCEPT ![g] = "save"]
           /\ UNCHANGED cur
        \/ /\ ~Visible(row[t])
           /\ pc' = [pc EXCEPT ![g] = "pop"]
           /\ cur' = [cur EXCEPT ![g] = NoTask]
           /\ UNCHANGED ent
     /\ UNCHANGED <<db, redis, sweep, cancel, faults, history>>

\* The types handleTaskFlowInTx pushes for the entity e of task t.  Its queries
\* use the manager's connection, so they do not see the transaction's own write.
FlowTypes(t, e) ==
  {ty \in TaskType :
     \/ CanRetry(e, Attr[t].maxRedo) /\ ty = Attr[t].type
     \/ /\ e.status = "success" /\ Attr[t].grouped
        /\ ty \in NextStepPendingTypes(row, Attr[t].flow)
     \/ /\ e.status = "success" /\ ~Attr[t].grouped
        /\ ty = Attr[t].type /\ HasPending(ty)}

\* SaveTaskResult: tx.Save locks the row, then the flow's messages are pushed,
\* all before the commit.
SaveWrite(g) ==
  LET t == cur[g]
  IN /\ pc[g] = "save"
     /\ lock[t] = NoOne
     /\ lock' = [lock EXCEPT ![t] = g]
     /\ PushTypes(FlowTypes(t, ent[g]))
     /\ pc' = [pc EXCEPT ![g] = "commit"]
     /\ UNCHANGED <<row, cur, ent, sweep, cancel, faults, history>>

\* SaveTaskResult: the commit.  Save writes every column of the entity, found by
\* id alone; when the row was deleted meanwhile, gorm inserts it again.
SaveCommit(g) ==
  LET t == cur[g]
  IN /\ pc[g] = "commit"
     /\ row' = [row EXCEPT ![t] = ent[g]]
     /\ lock' = Unlocked(g)
     /\ pc' = [pc EXCEPT ![g] = "pop"]
     /\ cur' = [cur EXCEPT ![g] = NoTask]
     /\ ent' = [ent EXCEPT ![g] = Absent]
     /\ UNCHANGED <<redis, sweep, cancel, faults, history>>

\* A statement or a push inside either transaction fails: rolled back, logged,
\* and the goroutine goes on with the next task.
Rollback(g) ==
  /\ "rollback" \in Faults
  /\ faults < MaxFaults
  /\ faults' = faults + 1
  /\ pc[g] \in {"claim", "save", "commit"}
  /\ lock' = Unlocked(g)
  /\ pc' = [pc EXCEPT ![g] = "pop"]
  /\ cur' = [cur EXCEPT ![g] = NoTask]
  /\ ent' = [ent EXCEPT ![g] = Absent]
  /\ UNCHANGED <<row, redis, sweep, cancel, history>>

\* The goroutines of gs stop where they are; the database rolls back.
StopAll(gs, how) ==
  /\ faults < MaxFaults
  /\ faults' = faults + 1
  /\ lock' = [t \in Task |-> IF lock[t] \in gs THEN NoOne ELSE lock[t]]
  /\ pc' = [g \in Routine |-> IF g \in gs THEN how ELSE pc[g]]
  /\ cur' = [g \in Routine |-> IF g \in gs THEN NoTask ELSE cur[g]]
  /\ ent' = [g \in Routine |-> IF g \in gs THEN Absent ELSE ent[g]]
  /\ UNCHANGED <<row, redis, sweep, cancel, history>>

\* The worker process dies ...
Crash(w) == /\ "crash" \in Faults
            /\ StopAll({g \in Routine : Of[g].worker = w}, "dead")

\* ... or one goroutine panics in the factory or in GetResult, outside the
\* recover of doExecute: startRoutine's recover ends that goroutine for good.
Panic(g) == /\ "panic" \in Faults
            /\ pc[g] = "exec"
            /\ StopAll({g}, "ended")

\* The worker process starts again.
WorkerStart(w) ==
  /\ \A g \in Routine : Of[g].worker = w => pc[g] = "dead"
  /\ \E g \in Routine : Of[g].worker = w
  /\ pc' = [g \in Routine |-> IF Of[g].worker = w THEN "pop" ELSE pc[g]]
  /\ UNCHANGED <<db, redis, cur, ent, sweep, cancel, faults, history>>

(***************************************************************************)
(* The manager's sweeps                                                    *)
(***************************************************************************)
Sweep == [kind: {"idle", "timeout", "dead"}, at: {"idle", "update", "requeue"},
          ids: SUBSET Task]

Idle == [kind |-> "idle", at |-> "idle", ids |-> {}]

Running(t) == Visible(row[t]) /\ row[t].status = "running"

\* Mutant: the scan skips the rows whose last retry is running.
TimeoutScanSkipsLast(m, ids) ==
  /\ "timeout" \in Faults
  /\ sweep[m] = Idle
  /\ ids # {} /\ \A t \in ids : Running(t) /\ row[t].redo + 1 < Attr[t].maxRedo
  /\ sweep' = [sweep EXCEPT ![m] = [kind |-> "timeout", at |-> "update", ids |-> ids]]
  /\ UNCHANGED <<db, redis, routines, cancel, faults, history>>

\* CheckAndTimeoutTasks: read the running rows and keep the overdue ones.
TimeoutScan(m, ids) ==
  /\ "timeout" \in Faults
  /\ sweep[m] = Idle
  /\ ids # {} /\ \A t \in ids : Running(t)
  /\ sweep' = [sweep EXCEPT ![m] = [kind |-> "timeout", at |-> "update", ids |-> ids]]
  /\ UNCHANGED <<db, redis, routines, cancel, faults, history>>

\* HandleDeadWorkerTasks: read the running rows of the worker.
DeadScan(m, w) ==
  LET ids == {t \in Task : Running(t) /\ row[t].worker = w}
  IN /\ "dead" \in Faults
     /\ sweep[m] = Idle
     /\ ids # {}
     /\ sweep' = [sweep EXCEPT ![m] = [kind |-> "dead", at |-> "update", ids |-> ids]]
     /\ UNCHANGED <<db, redis, routines, cancel, faults, history>>

\* Mutant: UPDATE ... WHERE id IN ids.
SweepUpdateAnyStatus(m) ==
  /\ sweep[m].at = "update"
  /\ \A t \in sweep[m].ids : lock[t] = NoOne
  /\ row' = [t \in Task |-> IF t \in sweep[m].ids THEN MarkAsTimeout(row[t]) ELSE row[t]]
  /\ Overtake(sweep[m].ids)
  /\ sweep' = [sweep EXCEPT ![m].at = "requeue"]
  /\ UNCHANGED <<lock, redis, routines, cancel, faults, attempts>>

\* Both: UPDATE ... WHERE id IN ids AND task_status = running.
SweepUpdate(m) ==
  LET hit == {t \in sweep[m].ids : Running(t)}
  IN /\ sweep[m].at = "update"
     /\ \A t \in sweep[m].ids : lock[t] = NoOne
     /\ row' = [t \in Task |-> IF t \in hit THEN MarkAsTimeout(row[t]) ELSE row[t]]
     /\ Overtake(hit)
     /\ sweep' = [sweep EXCEPT ![m].at = "requeue"]
     /\ UNCHANGED <<lock, redis, routines, cancel, faults, attempts>>

\* The loop over the ids has done t; after the last one the sweep ends.
Without(s, t) == IF s.ids = {t} THEN Idle ELSE [s EXCEPT !.ids = s.ids \ {t}]

\* CheckAndTimeoutTasks: every task is read again and pushed if it may retry.
TimeoutRequeue(m, t) ==
  /\ sweep[m].kind = "timeout" /\ sweep[m].at = "requeue"
  /\ t \in sweep[m].ids
  /\ \E pushed \in BOOLEAN :
       /\ "lostpush" \in Faults \/ pushed
       /\ IF pushed /\ Visible(row[t]) /\ CanRetry(row[t], Attr[t].maxRedo)
          THEN PushTypes({Attr[t].type}) ELSE UNCHANGED redis
  /\ sweep' = [sweep EXCEPT ![m] = Without(sweep[m], t)]
  /\ UNCHANGED <<db, routines, cancel, faults, history>>

\* HandleDeadWorkerTasks asks CanRetry of the entities read before the update,
\* whose status is still running; ReassignDeadWorkerTasks pushes their types.
DeadRequeue(m) ==
  LET stale(t) == [row[t] EXCEPT !.status = "running"]
      retry == {t \in sweep[m].ids : CanRetry(stale(t), Attr[t].maxRedo)}
  IN /\ sweep[m].kind = "dead" /\ sweep[m].at = "requeue"
     /\ PushTypes({Attr[t].type : t \in retry})
     /\ sweep' = [sweep EXCEPT ![m] = Idle]
     /\ UNCHANGED <<db, routines, cancel, faults, history>>

\* InitTaskDBStatus: every running row becomes failed, in one statement.
InitTaskDBStatus ==
  LET hit == {t \in Task : Running(t)}
  IN /\ "restart" \in Faults
     /\ hit # {}
     /\ \A t \in hit : lock[t] = NoOne
     /\ row' = [t \in Task |-> IF t \in hit THEN MarkAsFailed(row[t]) ELSE row[t]]
     /\ Overtake(hit)
     /\ UNCHANGED <<lock, redis, routines, sweep, cancel, faults, attempts>>

\* SyncQueueCount, syncTaskTypeQueue: one message for a type that has a stream
\* and a pending task.
SyncQueueCount(ty) ==
  /\ ty \in AllTaskTypes
  /\ HasPending(ty)
  /\ PushTypes({ty})
  /\ UNCHANGED <<db, routines, sweep, cancel, faults, history>>

(***************************************************************************)
(* Specification                                                           *)
(***************************************************************************)
Init ==
  /\ row = [t \in Task |-> Absent]
  /\ lock = [t \in Task |-> NoOne]
  /\ stream = [ty \in TaskType |-> FALSE]
  /\ group = [ty \in TaskType |-> FALSE]
  /\ msgs = [ty \in TaskType |-> 0]
  /\ pc = [g \in Routine |-> "pop"]
  /\ cur = [g \in Routine |-> NoTask]
  /\ ent = [g \in Routine |-> Absent]
  /\ sweep = [m \in Manager |-> Idle]
  /\ cancel = [c \in Client |-> [task |-> NoTask, ent |-> Absent]]
  /\ faults = 0
  /\ overtaken = {}
  /\ attempts = [t \in Task |-> 0]

RoutineNext(g) ==
  \/ CreateGroup(g) \/ PopMessage(g) \/ PopTimeout(g)
  \/ PickSelect(g) \/ PickCommit(g)
  \/ \E o \in Outcome : SaveRead(g, o)
  \/ SaveWrite(g) \/ SaveCommit(g)

ClientNext ==
  \/ \E t \in Task : CreateTasks(Attr[t].batch) \/ DeleteTask(t)
  \/ \E c \in Client : (\E t \in Task : CancelRead(c, t)) \/ CancelWrite(c)

\* What the ticker of a manager starts, and the rest of a sweep.
ManagerTick(m) ==
  \/ \E ids \in SUBSET Task : TimeoutScan(m, ids)
  \/ SweepUpdate(m) \/ DeadRequeue(m)
  \/ \E t \in Task : TimeoutRequeue(m, t)

ManagerNext(m) == ManagerTick(m) \/ \E w \in Worker : DeadScan(m, w)

FaultNext ==
  \/ \E g \in Routine : Rollback(g) \/ Panic(g)
  \/ \E w \in Worker : Crash(w) \/ WorkerStart(w)
  \/ InitTaskDBStatus

Next ==
  \/ \E g \in Routine : RoutineNext(g)
  \/ ClientNext
  \/ \E m \in Manager : ManagerNext(m)
  \/ FaultNext
  \/ \E ty \in TaskType : SyncQueueCount(ty)

Spec == Init /\ [][Next]_vars

Fairness ==
  /\ \A g \in Routine : WF_vars(RoutineNext(g))
  /\ \A m \in Manager : WF_vars(ManagerTick(m))
  /\ \A w \in Worker : WF_vars(WorkerStart(w))

FairSpec == Spec /\ Fairness

(***************************************************************************)
(* Properties                                                              *)
(***************************************************************************)
PCs == {"pop", "pick", "claim", "exec", "save", "commit", "ended", "dead"}

\* Type invariant of the rows, the stream, the goroutines and the sweeps; a
\* goroutine that has picked a row knows which.
TypeOK ==
  /\ row \in [Task -> Entity]
  /\ lock \in [Task -> Routine \cup {NoOne}]
  /\ stream \in [TaskType -> BOOLEAN]
  /\ group \in [TaskType -> BOOLEAN]
  /\ msgs \in [TaskType -> Nat]
  /\ pc \in [Routine -> PCs]
  /\ cur \in [Routine -> Task \cup {NoTask}]
  /\ \A g \in Routine :
       pc[g] \in {"claim", "exec", "save", "commit"} => cur[g] \in Task
  /\ ent \in [Routine -> Entity]
  /\ sweep \in [Manager -> Sweep]
  /\ cancel \in [Client -> [task: Task \cup {NoTask}, ent: Entity]]
  /\ faults \in Nat
  /\ overtaken \in SUBSET Task
  /\ attempts \in [Task -> Nat]

\* A goroutine between SELECT ... FOR UPDATE SKIP LOCKED and its commit owns the
\* lock of the row it picked, and that row still satisfies the WHERE clause: no
\* other pick, late result, cancel, delete or sweep got in between.
ClaimStable ==
  \A g \in Routine : pc[g] = "claim" =>
    /\ lock[cur[g]] = g
    /\ Retryable(cur[g])

\* A running row has retries left: whatever ends its attempt, redo stays within
\* max_redo, although cancels and late results write counters read earlier.
RunningBelowMax ==
  \A t \in Task : row[t].status = "running" => row[t].redo < Attr[t].maxRedo

\* Supports ClaimStable and RunningBelowMax in their proof: a goroutine about to
\* commit a result holds the row's lock, what it will write is an outcome and not
\* deleted, and what a CancelTask call will write is "canceled".
WritersKnown ==
  /\ \A g \in Routine : pc[g] = "commit" => lock[cur[g]] = g
  /\ \A g \in Routine : pc[g] \in {"save", "commit"} =>
       ent[g].status \in Outcome /\ ~ent[g].deleted
  /\ \A c \in Client : cancel[c].task # NoTask => cancel[c].ent.status = "canceled"

\* Unless a sweep, a cancel or a delete took the row from a goroutine that still
\* held it, at most one goroutine holds a task, and the row is running in its
\* worker's name until that goroutine commits the result.
ExclusiveExecution ==
  \A t \in Task \ overtaken : \A g \in Holders(t) :
    /\ Holders(t) = {g}
    /\ Visible(row[t])
    /\ row[t].status = "running"
    /\ row[t].worker = Of[g].worker

\* While a task runs, every lower step of its flow stays success or canceled
\* (or is deleted), unless that lower task was overtaken: the check is made when
\* the row is selected, and nothing undoes it before or after the commit.
StepOrder ==
  \A t \in Task : Running(t) =>
    \A u \in Lower(t) \ overtaken :
      Visible(row[u]) => row[u].status \in {"canceled", "success"}

\* A task that was never overtaken is executed at most max_redo times, whatever
\* crashes, rollbacks and failures it meets.
AttemptBudget ==
  \A t \in Task \ overtaken : attempts[t] <= Attr[t].maxRedo

\* Strengthens AttemptBudget for its proof: redo counts the failed executions of a
\* task that was never overtaken, and the entity its holder will save continues
\* that count.
BudgetExact ==
  /\ \A t \in Task \ overtaken :
       /\ row[t].status = "absent" => attempts[t] = 0
       /\ row[t].status \in {"pending", "failed", "timeout"} => attempts[t] = row[t].redo
       /\ row[t].status \in {"running", "success"} => attempts[t] = row[t].redo + 1
  /\ \A g \in Routine : pc[g] \in {"save", "commit"} /\ cur[g] \notin overtaken =>
       ent[g].redo = IF ent[g].status = "success"
                     THEN row[cur[g]].redo ELSE row[cur[g]].redo + 1

\* Strengthens StepOrder for its proof: it already holds between the selection of
\* a row and its commit, the tasks of one CreateTasks call appear together, and
\* the row of a picked task exists.
StepsStayDone ==
  /\ \A t \in Task : Running(t) \/ (\E g \in Routine : pc[g] = "claim" /\ cur[g] = t) =>
       \A u \in Lower(t) \ overtaken :
         Visible(row[u]) => row[u].status \in {"canceled", "success"}
  /\ \A t, u \in Task : Attr[t].batch = Attr[u].batch =>
       (row[t].status = "absent" <=> row[u].status = "absent")
  /\ \A g \in Routine : pc[g] \in {"claim", "exec", "save", "commit"} =>
       row[cur[g]].status # "absent"

\* The result of a task is final: a committed success is not changed again,
\* unless the task was overtaken or a CancelTask call has already read the row.
SuccessFinal ==
  [][\A t \in Task \ overtaken :
       /\ row[t].status = "success"
       /\ \A c \in Client : cancel[c].task # t
       => row'[t].status = "success"]_vars

\* A claimable task is eventually picked, canceled or deleted: messages that were
\* lost, or sent before the consumer group existed, only delay it.
ClaimableIsTaken == \A t \in Task : Claimable(t) ~> ~Claimable(t)

\* A row left running by a crash, a panic or a failed save does not stay running:
\* the timeout check takes it back.
OrphanRecovered ==
  \A t \in Task : Running(t) /\ Holders(t) = {} ~> ~Running(t) \/ Holders(t) # {}
=============================================================================
