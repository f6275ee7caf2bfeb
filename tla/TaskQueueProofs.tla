-------------------------- MODULE TaskQueueProofs ---------------------------
(***************************************************************************)
(* Proofs about TaskQueue, for any set of tasks, goroutines, managers and  *)
(* clients, and any combination of faults.                                 *)
(***************************************************************************)
EXTENDS TaskQueue, FiniteSetTheorems, TLAPS

\* Pushing keeps the three variables of the stream typed.
LEMMA PushTypesType ==
  ASSUME TypeOK, NEW tys \in SUBSET TaskType, PushTypes(tys)
  PROVE  /\ stream' \in [TaskType -> BOOLEAN]
         /\ group' \in [TaskType -> BOOLEAN]
         /\ msgs' \in [TaskType -> Nat]
  BY BoundAssumption, SMTT(60) DEF TypeOK, PushTypes, AtMost

\* A push for a set of tasks keeps the stream well-formed.
LEMMA PushForType ==
  ASSUME TypeOK, NEW ts \in SUBSET Task, PushFor(ts)
  PROVE  /\ stream' \in [TaskType -> BOOLEAN]
         /\ group' \in [TaskType -> BOOLEAN]
         /\ msgs' \in [TaskType -> Nat]
<1> DEFINE count(ty) == Cardinality({t \in ts : Attr[t].type = ty})
<1>1. \A ty \in TaskType : count(ty) \in Nat
  <2> TAKE ty \in TaskType
  <2>1. IsFiniteSet({t \in ts : Attr[t].type = ty})
    BY BoundAssumption, FS_Subset, Zenon
  <2> QED BY <2>1, FS_CardinalityType
<1> HIDE DEF count
<1>2. /\ stream' = [ty \in TaskType |-> stream[ty] \/ count(ty) > 0]
      /\ msgs' = [ty \in TaskType |->
                    IF group[ty] THEN AtMost(msgs[ty] + count(ty)) ELSE msgs[ty]]
      /\ group' = group
  BY DEF PushFor, count
<1> QED BY <1>1, <1>2, BoundAssumption, SMTT(60) DEF TypeOK, AtMost

\* The methods of TaskEntity keep a row a row.
LEMMA MarkType ==
  ASSUME NEW e \in Entity
  PROVE  /\ \A w \in Worker : MarkAsRunning(e, w) \in Entity
         /\ \A o \in Outcome : MarkOutcome(e, o) \in Entity
         /\ MarkAsFailed(e) \in Entity
         /\ MarkAsTimeout(e) \in Entity
         /\ MarkAsCanceled(e) \in Entity
         /\ \A old \in Entity : NonZero(e, old) \in Entity
<1>1. \A w \in Worker : MarkAsRunning(e, w) \in Entity
  BY Zenon DEF Entity, TaskStatus, MarkAsRunning
<1>r. e.redo + 1 \in Nat
  BY DEF Entity
<1>2. MarkAsFailed(e) \in Entity
  BY <1>r, Zenon DEF Entity, TaskStatus, MarkAsFailed
<1>3. MarkAsTimeout(e) \in Entity
  BY <1>r, Zenon DEF Entity, TaskStatus, MarkAsTimeout
<1>4. MarkAsSuccess(e) \in Entity
  BY DEF Entity, TaskStatus, MarkAsSuccess
<1>5. MarkAsCanceled(e) \in Entity
  BY DEF Entity, TaskStatus, MarkAsCanceled
<1>6. \A o \in Outcome : MarkOutcome(e, o) \in Entity
  BY <1>2, <1>3, <1>4, Zenon DEF MarkOutcome, Outcome
<1>7. \A old \in Entity : NonZero(e, old) \in Entity
  BY Zenon DEF Entity, NonZero
<1> QED BY <1>1, <1>2, <1>3, <1>5, <1>6, <1>7, Zenon

\* The fields the methods set, and the ones they keep.
LEMMA MarkFields ==
  ASSUME NEW e \in Entity
  PROVE  /\ \A o \in Outcome :
              /\ MarkOutcome(e, o).status = o
              /\ MarkOutcome(e, o).deleted = e.deleted
              /\ MarkOutcome(e, o).redo = IF o = "success" THEN e.redo ELSE e.redo + 1
         /\ MarkAsFailed(e).status = "failed" /\ MarkAsFailed(e).redo = e.redo + 1
         /\ MarkAsFailed(e).deleted = e.deleted
         /\ MarkAsTimeout(e).status = "timeout" /\ MarkAsTimeout(e).redo = e.redo + 1
         /\ MarkAsTimeout(e).deleted = e.deleted
<1>1. /\ MarkAsSuccess(e).status = "success"
      /\ MarkAsSuccess(e).redo = e.redo
      /\ MarkAsSuccess(e).deleted = e.deleted
  BY DEF MarkAsSuccess, Entity
<1>2. /\ MarkAsFailed(e).status = "failed"
      /\ MarkAsFailed(e).redo = e.redo + 1
      /\ MarkAsFailed(e).deleted = e.deleted
  BY DEF MarkAsFailed, Entity
<1>3. /\ MarkAsTimeout(e).status = "timeout"
      /\ MarkAsTimeout(e).redo = e.redo + 1
      /\ MarkAsTimeout(e).deleted = e.deleted
  BY DEF MarkAsTimeout, Entity
<1>4. \A o \in Outcome :
        /\ MarkOutcome(e, o).status = o
        /\ MarkOutcome(e, o).deleted = e.deleted
        /\ MarkOutcome(e, o).redo = IF o = "success" THEN e.redo ELSE e.redo + 1
  BY <1>1, <1>2, <1>3, Zenon DEF MarkOutcome, Outcome
<1> QED BY <1>2, <1>3, <1>4, Zenon

\* The rows before and after an insert are entities.
LEMMA AbsentType == Absent \in Entity /\ NewTask \in Entity
  BY Zenon DEF Entity, TaskStatus, Absent, NewTask

\* Every step keeps the type invariant.
LEMMA TypeOKStep == TypeOK /\ [Next]_vars => TypeOK'
<1> SUFFICES ASSUME TypeOK, [Next]_vars PROVE TypeOK'
  BY Zenon
<1> USE AbsentType
<1>1. ASSUME NEW b, CreateTasks(b) PROVE TypeOK'
  <2> DEFINE batch == {t \in Task : Attr[t].batch = b}
             first == {t \in batch : \A u \in batch : Attr[t].step <= Attr[u].step}
  <2>1. PICK pushed \in SUBSET first : PushFor(pushed)
    BY <1>1 DEF CreateTasks
  <2>2. /\ stream' \in [TaskType -> BOOLEAN]
        /\ group' \in [TaskType -> BOOLEAN]
        /\ msgs' \in [TaskType -> Nat]
    BY <2>1, PushForType, Zenon
  <2>3. row' \in [Task -> Entity]
    BY <1>1, Zenon DEF CreateTasks, TypeOK
  <2> QED BY <1>1, <2>2, <2>3, Zenon DEF CreateTasks, TypeOK
<1>2. ASSUME NEW c \in Client, NEW t \in Task, CancelRead(c, t) PROVE TypeOK'
  BY <1>2, MarkType, Zenon DEF CancelRead, TypeOK, db, redis, routines, history
<1>3. ASSUME NEW c \in Client, CancelWrite(c) PROVE TypeOK'
  <2>1. cancel[c].task \in Task /\ cancel[c].ent \in Entity
    BY <1>3 DEF CancelWrite, TypeOK
  <2>2. row' \in [Task -> Entity]
    BY <1>3, <2>1, MarkType, Zenon DEF CancelWrite, TypeOK
  <2> QED BY <1>3, <2>2, Zenon DEF CancelWrite, Overtake, TypeOK, redis, routines
<1>4. ASSUME NEW t \in Task, DeleteTask(t) PROVE TypeOK'
  <2>1. row' \in [Task -> Entity]
    BY <1>4, ZenonT(60) DEF DeleteTask, TypeOK, Entity
  <2> QED BY <1>4, <2>1 DEF DeleteTask, Overtake, TypeOK, redis, routines
<1>5. ASSUME NEW g \in Routine, CreateGroup(g) PROVE TypeOK'
  BY <1>5, Zenon DEF CreateGroup, TypeOK, db, routines, history
<1>6. ASSUME NEW g \in Routine, PopMessage(g) PROVE TypeOK'
  <2>1. Of[g].type \in TaskType /\ msgs[Of[g].type] - 1 \in Nat
    BY <1>6, RoutineAssumption DEF PopMessage, TypeOK
  <2> QED BY <1>6, <2>1 DEF PopMessage, TypeOK, PCs, db, history
<1>7. ASSUME NEW g \in Routine, PopTimeout(g) PROVE TypeOK'
  BY <1>7, Zenon DEF PopTimeout, TypeOK, PCs, db, redis, history
<1>8. ASSUME NEW g \in Routine, PickSelect(g) PROVE TypeOK'
  <2> DEFINE avail == {t \in Task : /\ Attr[t].type = Of[g].type
                                    /\ Claimable(t)
                                    /\ lock[t] = NoOne}
  <2>1. CASE pc' = [pc EXCEPT ![g] = "pop"] /\ UNCHANGED <<lock, cur>>
    BY <1>8, <2>1, Zenon DEF PickSelect, TypeOK, PCs, redis, history
  <2>2. ASSUME NEW t \in avail,
               lock' = [u \in Task |-> IF u \in avail THEN g ELSE lock[u]],
               cur' = [cur EXCEPT ![g] = t],
               pc' = [pc EXCEPT ![g] = "claim"]
        PROVE TypeOK'
    BY <1>8, <2>2, Zenon DEF PickSelect, TypeOK, PCs, redis, history
  <2> QED BY <1>8, <2>1, <2>2, Zenon DEF PickSelect
<1>9. ASSUME NEW g \in Routine, PickCommit(g) PROVE TypeOK'
  <2>1. cur[g] \in Task /\ row[cur[g]] \in Entity /\ Of[g].worker \in Worker
    BY <1>9, RoutineAssumption, Zenon DEF PickCommit, TypeOK
  <2>2. MarkAsRunning(row[cur[g]], Of[g].worker) \in Entity
    BY <2>1, MarkType, Zenon
  <2>3. row' \in [Task -> Entity]
    BY <1>9, <2>1, <2>2, Zenon DEF PickCommit, TypeOK
  <2>4. attempts' \in [Task -> Nat]
    BY <1>9, <2>1, SMTT(60) DEF PickCommit, TypeOK
  <2> QED BY <1>9, <2>1, <2>3, <2>4, Zenon DEF PickCommit, Unlocked, TypeOK, PCs, redis
<1>10. ASSUME NEW g \in Routine, NEW o \in Outcome, SaveRead(g, o) PROVE TypeOK'
  <2>1. MarkOutcome(row[cur[g]], o) \in Entity
    BY <1>10, MarkType, Zenon DEF SaveRead, TypeOK
  <2>2. ent' \in [Routine -> Entity]
    BY <1>10, <2>1, Zenon DEF SaveRead, TypeOK
  <2> QED BY <1>10, <2>2, Zenon DEF SaveRead, TypeOK, PCs, db, redis, history
<1>11. ASSUME NEW g \in Routine, SaveWrite(g) PROVE TypeOK'
  <2>1. FlowTypes(cur[g], ent[g]) \in SUBSET TaskType
    BY Zenon DEF FlowTypes
  <2>2. /\ stream' \in [TaskType -> BOOLEAN]
        /\ group' \in [TaskType -> BOOLEAN]
        /\ msgs' \in [TaskType -> Nat]
    BY <1>11, <2>1, PushTypesType, Zenon DEF SaveWrite
  <2> QED BY <1>11, <2>2, Zenon DEF SaveWrite, TypeOK, PCs, history
<1>12. ASSUME NEW g \in Routine, SaveCommit(g) PROVE TypeOK'
  BY <1>12, Zenon DEF SaveCommit, Unlocked, TypeOK, PCs, redis, history
<1>13. ASSUME NEW g \in Routine, Rollback(g) PROVE TypeOK'
  BY <1>13, SMTT(60) DEF Rollback, Unlocked, TypeOK, PCs, redis, history
<1>14. ASSUME NEW gs, NEW how \in {"ended", "dead"}, StopAll(gs, how) PROVE TypeOK'
  BY <1>14, SMTT(60) DEF StopAll, TypeOK, PCs, redis, history
<1>15. ASSUME NEW w \in Worker, WorkerStart(w) PROVE TypeOK'
  BY <1>15, Zenon DEF WorkerStart, TypeOK, PCs, db, redis, history
<1>16. ASSUME NEW m \in Manager, NEW ids \in SUBSET Task, TimeoutScan(m, ids)
       PROVE TypeOK'
  BY <1>16, Zenon DEF TimeoutScan, TypeOK, Sweep, db, redis, routines, history
<1>17. ASSUME NEW m \in Manager, NEW w \in Worker, DeadScan(m, w) PROVE TypeOK'
  BY <1>17, Zenon DEF DeadScan, TypeOK, Sweep, db, redis, routines, history
<1>18. ASSUME NEW m \in Manager, SweepUpdate(m) PROVE TypeOK'
  <2>1. row' \in [Task -> Entity]
    BY <1>18, MarkType, Zenon DEF SweepUpdate, TypeOK
  <2>2. sweep' \in [Manager -> Sweep]
    <3>1. sweep[m] \in Sweep
      BY DEF TypeOK
    <3>2. [sweep[m] EXCEPT !.at = "requeue"] \in Sweep
      BY <3>1, Zenon DEF Sweep
    <3> QED BY <1>18, <3>2, Zenon DEF SweepUpdate, TypeOK
  <2>3. overtaken' \in SUBSET Task
    BY <1>18, Zenon DEF SweepUpdate, Overtake, TypeOK, Sweep
  <2> QED BY <1>18, <2>1, <2>2, <2>3, Zenon DEF SweepUpdate, TypeOK, redis, routines
<1>19. ASSUME NEW m \in Manager, NEW t \in Task, TimeoutRequeue(m, t) PROVE TypeOK'
  <2>1. sweep' \in [Manager -> Sweep]
    <3>1. sweep[m] \in Sweep /\ Idle \in Sweep
      BY DEF TypeOK, Sweep, Idle
    <3>2. Without(sweep[m], t) \in Sweep
      BY <3>1, Zenon DEF Sweep, Without
    <3> QED BY <1>19, <3>2, Zenon DEF TimeoutRequeue, TypeOK
  <2>2. PushTypes({Attr[t].type}) \/ UNCHANGED redis
    BY <1>19, Zenon DEF TimeoutRequeue
  <2>3. /\ stream' \in [TaskType -> BOOLEAN]
        /\ group' \in [TaskType -> BOOLEAN]
        /\ msgs' \in [TaskType -> Nat]
    BY <2>2, PushTypesType, AttrAssumption, Zenon DEF TypeOK, redis
  <2> QED BY <1>19, <2>1, <2>3, Zenon DEF TimeoutRequeue, TypeOK, db, routines, history
<1>20. ASSUME NEW m \in Manager, DeadRequeue(m) PROVE TypeOK'
  <2>1. \E ts \in SUBSET Task : PushTypes({Attr[t].type : t \in ts})
    <3>1. sweep[m].ids \in SUBSET Task
      BY Zenon DEF TypeOK, Sweep
    <3> QED BY <1>20, <3>1, Zenon DEF DeadRequeue
  <2>2. /\ stream' \in [TaskType -> BOOLEAN]
        /\ group' \in [TaskType -> BOOLEAN]
        /\ msgs' \in [TaskType -> Nat]
    BY <2>1, PushTypesType, AttrAssumption, Zenon
  <2> QED BY <1>20, <2>2, Zenon DEF DeadRequeue, TypeOK, Idle, Sweep, db, routines, history
<1>21. ASSUME InitTaskDBStatus PROVE TypeOK'
  <2>1. row' \in [Task -> Entity]
    BY <1>21, MarkType, Zenon DEF InitTaskDBStatus, TypeOK
  <2> QED BY <1>21, <2>1, Zenon DEF InitTaskDBStatus, Overtake, TypeOK, redis, routines
<1>22. ASSUME NEW ty \in TaskType, SyncQueueCount(ty) PROVE TypeOK'
  <2>1. /\ stream' \in [TaskType -> BOOLEAN]
        /\ group' \in [TaskType -> BOOLEAN]
        /\ msgs' \in [TaskType -> Nat]
    BY <1>22, PushTypesType, Zenon DEF SyncQueueCount
  <2> QED BY <1>22, <2>1, Zenon DEF SyncQueueCount, TypeOK, db, routines, history
<1>23. CASE UNCHANGED vars
  BY <1>23 DEF TypeOK, vars
<1> QED
  BY <1>1, <1>2, <1>3, <1>4, <1>5, <1>6, <1>7, <1>8, <1>9, <1>10, <1>11, <1>12,
     <1>13, <1>14, <1>15, <1>16, <1>17, <1>18, <1>19, <1>20, <1>21, <1>22, <1>23, ZenonT(60)
  DEF Next, RoutineNext, ClientNext, ManagerNext, ManagerTick, FaultNext, Crash, Panic

\* Rows, stream, goroutines and sweeps stay well-formed, for every instance.
THEOREM TypeCorrect == Spec => []TypeOK
<1>1. Init => TypeOK
  BY AbsentType, SMTT(60) DEF Init, TypeOK, PCs, Idle, Sweep
<1> QED BY <1>1, TypeOKStep, PTL DEF Spec

(***************************************************************************)
(* Row locks.  The row a goroutine has selected FOR UPDATE does not change *)
(* until it commits, because every other writer of the row either needs    *)
(* its lock or owns it.                                                    *)
(***************************************************************************)
\* What the two batch updates do to a row.
LEMMA SweepRow ==
  ASSUME NEW m \in Manager, SweepUpdate(m), NEW t \in Task
  PROVE  \/ row'[t] = row[t]
         \/ Running(t) /\ row'[t] = MarkAsTimeout(row[t])
  BY Zenon DEF SweepUpdate

\* What InitTaskDBStatus does to a row: it fails every running one.
LEMMA InitRow ==
  ASSUME InitTaskDBStatus, NEW t \in Task
  PROVE  \/ row'[t] = row[t] /\ ~Running(t)
         \/ Running(t) /\ row'[t] = MarkAsFailed(row[t])
  BY DEF InitTaskDBStatus

\* The row locks protect what a transaction has read.
LockInv == ClaimStable /\ WritersKnown /\ RunningBelowMax
CoreInv == TypeOK /\ LockInv

USE DEF Visible, Retryable

\* Every statement of every actor respects the row locks.
LEMMA CoreInvStep == CoreInv /\ [Next]_vars => CoreInv'
<1> SUFFICES ASSUME CoreInv, [Next]_vars
             PROVE  LockInv'
  BY TypeOKStep DEF CoreInv
<1>t. TypeOK
  BY DEF CoreInv
<1>c. ClaimStable /\ WritersKnown /\ RunningBelowMax
  BY Zenon DEF CoreInv, LockInv
<1>1. ASSUME NEW b, CreateTasks(b)
      PROVE  LockInv'
  BY <1>1, <1>t, <1>c, Zenon DEF LockInv, ClaimStable, WritersKnown, RunningBelowMax,
     CreateTasks, TypeOK, NewTask, Absent
<1>2. ASSUME NEW c \in Client, NEW t \in Task, CancelRead(c, t)
      PROVE  LockInv'
  BY <1>2, <1>t, <1>c, SMTT(60) DEF LockInv, ClaimStable, WritersKnown, RunningBelowMax,
     CancelRead, TypeOK, MarkAsCanceled, Entity, db, redis, routines, history
<1>3. ASSUME NEW c \in Client, CancelWrite(c)
      PROVE  LockInv'
  <2> DEFINE t == cancel[c].task
  <2>1. /\ t \in Task /\ lock[t] = NoOne /\ UNCHANGED <<lock, pc, cur, ent>>
        /\ \A d \in Client : cancel'[d] = cancel[d] \/ cancel'[d].task = NoTask
    BY <1>3, <1>t, SMTT(60) DEF CancelWrite, TypeOK, routines
  <2>2. cancel[c].ent \in Entity /\ cancel[c].ent.status = "canceled"
    BY <1>3, <1>t, <1>c, Zenon DEF CancelWrite, TypeOK, WritersKnown
  <2>3. NonZero(cancel[c].ent, row[t]).status = "canceled"
    BY <2>2, SMTT(60) DEF NonZero, Entity
  <2>4. /\ \A u \in Task \ {t} : row'[u] = row[u]
        /\ row'[t] = row[t] \/ row'[t].status = "canceled"
    BY <1>3, <1>t, <2>1, <2>3, ZenonT(60) DEF CancelWrite, TypeOK
  <2> HIDE DEF t
  <2>5. ClaimStable'
    BY <2>1, <2>4, <1>t, <1>c, NullAssumption, SMTT(60) DEF TypeOK, ClaimStable
  <2>6. WritersKnown'
    BY <2>1, <1>t, <1>c, Zenon DEF TypeOK, WritersKnown
  <2>7. RunningBelowMax'
    BY <2>4, <1>c, Zenon DEF RunningBelowMax
  <2> QED BY <2>5, <2>6, <2>7, SMTT(60) DEF LockInv
<1>4. ASSUME NEW t \in Task, DeleteTask(t)
      PROVE  LockInv'
  BY <1>4, <1>t, <1>c, NullAssumption, SMTT(60) DEF LockInv, ClaimStable, WritersKnown, RunningBelowMax,
     DeleteTask, TypeOK, Entity, redis, routines
<1>5. ASSUME NEW g \in Routine, CreateGroup(g)
      PROVE  LockInv'
  BY <1>5, <1>t, <1>c, SMTT(60) DEF LockInv, ClaimStable, WritersKnown, RunningBelowMax,
     CreateGroup, TypeOK, db, routines, history
<1>6. ASSUME NEW g \in Routine, PopMessage(g) \/ PopTimeout(g)
      PROVE  LockInv'
  <2>1. /\ UNCHANGED <<row, lock, cur, ent, cancel>>
        /\ pc' = [pc EXCEPT ![g] = "pick"]
    BY <1>6, Zenon DEF PopMessage, PopTimeout, db
  <2> QED BY <1>t, <1>c, <2>1, ZenonT(60)
      DEF LockInv, ClaimStable, WritersKnown, RunningBelowMax, TypeOK
<1>8. ASSUME NEW g \in Routine, PickSelect(g)
      PROVE  LockInv'
  <2>1. /\ UNCHANGED <<row, ent, cancel>>
        /\ \A h \in Routine \ {g} : pc'[h] = pc[h] /\ cur'[h] = cur[h]
        /\ \A u \in Task : lock[u] # NoOne => lock'[u] = lock[u]
    BY <1>8, <1>t, Zenon DEF PickSelect, TypeOK
  <2>2. pc'[g] # "commit" /\ pc'[g] # "save"
    BY <1>8, <1>t, SMTT(60) DEF PickSelect, TypeOK
  <2>3. pc'[g] = "claim" => lock'[cur'[g]] = g /\ Retryable(cur'[g])
    BY <1>8, <1>t, SMTT(60) DEF PickSelect, Claimable, TypeOK
  <2>4. ClaimStable'
    BY <1>c, <1>t, <2>1, <2>3, NullAssumption, SMTT(60) DEF ClaimStable, TypeOK
  <2>5. WritersKnown'
    BY <1>c, <1>t, <2>1, <2>2, NullAssumption, SMTT(60) DEF WritersKnown, TypeOK
  <2> QED BY <1>c, <2>1, <2>4, <2>5, SMTT(60) DEF LockInv, RunningBelowMax
<1>9. ASSUME NEW g \in Routine, PickCommit(g)
      PROVE  LockInv'
  BY <1>9, <1>t, <1>c, NullAssumption, SMTT(60)
  DEF LockInv, ClaimStable, WritersKnown, RunningBelowMax,
     PickCommit, Unlocked, MarkAsRunning, TypeOK, Entity, redis, history
<1>10. ASSUME NEW g \in Routine, NEW o \in Outcome, SaveRead(g, o)
      PROVE  LockInv'
  <2>1. row[cur[g]] \in Entity
    BY <1>10, <1>t, Zenon DEF SaveRead, TypeOK
  <2>2. /\ MarkOutcome(row[cur[g]], o).status \in Outcome
        /\ MarkOutcome(row[cur[g]], o).deleted = row[cur[g]].deleted
    BY <2>1, MarkFields, SMTT(60)
  <2> QED BY <1>10, <1>t, <1>c, <2>2, SMTT(60)
      DEF LockInv, ClaimStable, WritersKnown, RunningBelowMax, SaveRead, TypeOK, db, redis, history
<1>11. ASSUME NEW g \in Routine, SaveWrite(g)
      PROVE  LockInv'
  BY <1>11, <1>t, <1>c, NullAssumption, SMTT(60) DEF LockInv, ClaimStable, WritersKnown, RunningBelowMax,
     SaveWrite, TypeOK, history
<1>12. ASSUME NEW g \in Routine, SaveCommit(g)
      PROVE  LockInv'
  BY <1>12, <1>t, <1>c, NullAssumption, SMTT(60) DEF LockInv, ClaimStable, WritersKnown, RunningBelowMax,
     SaveCommit, Unlocked, TypeOK, Outcome, redis, history
<1>13. ASSUME NEW g \in Routine, Rollback(g)
      PROVE  LockInv'
  BY <1>13, <1>t, <1>c, NullAssumption, SMTT(60) DEF LockInv, ClaimStable, WritersKnown, RunningBelowMax,
     Rollback, Unlocked, TypeOK, redis, history
<1>14. ASSUME NEW gs, NEW how \in {"ended", "dead"}, StopAll(gs, how)
      PROVE  LockInv'
  BY <1>14, <1>t, <1>c, SMTT(60) DEF LockInv, ClaimStable, WritersKnown, RunningBelowMax,
     StopAll, TypeOK, redis, history
<1>15. ASSUME NEW w \in Worker, WorkerStart(w)
      PROVE  LockInv'
  BY <1>15, <1>t, <1>c, SMTT(60) DEF LockInv, ClaimStable, WritersKnown, RunningBelowMax,
     WorkerStart, TypeOK, db, redis, history
<1>16. ASSUME NEW m \in Manager, \/ \E ids \in SUBSET Task : TimeoutScan(m, ids)
                                 \/ \E w \in Worker : DeadScan(m, w)
                                 \/ \E t \in Task : TimeoutRequeue(m, t)
                                 \/ DeadRequeue(m)
      PROVE  LockInv'
  <2>1. UNCHANGED <<row, lock, pc, cur, ent, cancel>>
    <3>1. ASSUME NEW ids \in SUBSET Task, TimeoutScan(m, ids)
          PROVE  UNCHANGED <<row, lock, pc, cur, ent, cancel>>
      BY <3>1, SMTT(60) DEF TimeoutScan, db, routines
    <3>2. ASSUME NEW w \in Worker, DeadScan(m, w)
          PROVE  UNCHANGED <<row, lock, pc, cur, ent, cancel>>
      BY <3>2, SMTT(60) DEF DeadScan, db, routines
    <3>3. ASSUME NEW t \in Task, TimeoutRequeue(m, t)
          PROVE  UNCHANGED <<row, lock, pc, cur, ent, cancel>>
      BY <3>3, SMTT(60) DEF TimeoutRequeue, db, routines
    <3>4. ASSUME DeadRequeue(m)
          PROVE  UNCHANGED <<row, lock, pc, cur, ent, cancel>>
      BY <3>4, SMTT(60) DEF DeadRequeue, db, routines
    <3> QED BY <1>16, <3>1, <3>2, <3>3, <3>4, Zenon
  <2> QED BY <1>c, <2>1, Zenon DEF LockInv, ClaimStable, WritersKnown, RunningBelowMax
<1>18. ASSUME NEW m \in Manager, SweepUpdate(m)
      PROVE  LockInv'
  <2>1. \A t \in Task : \/ row'[t] = row[t]
                        \/ Running(t) /\ row'[t] = MarkAsTimeout(row[t])
    BY <1>18, SweepRow, SMTT(60)
  <2>2. \A t \in Task : MarkAsTimeout(row[t]).status = "timeout"
    BY <1>t, MarkFields, SMTT(60) DEF TypeOK
  <2> QED BY <1>18, <1>t, <1>c, <2>1, <2>2, Zenon
      DEF LockInv, ClaimStable, WritersKnown, RunningBelowMax, SweepUpdate, Running, TypeOK, routines, redis
<1>21. ASSUME InitTaskDBStatus
      PROVE  LockInv'
  <2>1. \A t \in Task : \/ row'[t] = row[t]
                        \/ Running(t) /\ row'[t] = MarkAsFailed(row[t])
    BY <1>21, InitRow, SMTT(60)
  <2>2. \A t \in Task : MarkAsFailed(row[t]).status = "failed"
    BY <1>t, MarkFields, SMTT(60) DEF TypeOK
  <2>3. UNCHANGED <<lock, pc, cur, ent, cancel>>
    BY <1>21, Zenon DEF InitTaskDBStatus, routines
  <2>4. RunningBelowMax'
    BY <1>c, <2>1, <2>2, SMTT(60) DEF RunningBelowMax
  <2>5. WritersKnown'
    BY <1>c, <2>3, SMTT(60) DEF WritersKnown
  <2>6. ClaimStable'
    <3>1. \A t \in Task : lock[t] # NoOne => row'[t] = row[t]
      BY <1>21, Zenon DEF InitTaskDBStatus
    <3>2. \A g \in Routine : pc[g] = "claim" =>
            cur[g] \in Task /\ lock[cur[g]] = g /\ Retryable(cur[g]) /\ g # NoOne
      BY <1>t, <1>c, NullAssumption, Zenon DEF ClaimStable, TypeOK
    <3> QED BY <2>3, <3>1, <3>2, Zenon DEF ClaimStable, Retryable
  <2> QED BY <2>4, <2>5, <2>6, Zenon DEF LockInv
<1>22. ASSUME NEW ty \in TaskType, SyncQueueCount(ty)
      PROVE  LockInv'
  BY <1>22, <1>t, <1>c, SMTT(60) DEF LockInv, ClaimStable, WritersKnown, RunningBelowMax,
     SyncQueueCount, TypeOK, db, routines, history
<1>23. CASE UNCHANGED vars
  BY <1>23, <1>c DEF LockInv, ClaimStable, WritersKnown, RunningBelowMax,
     vars
<1> QED
  BY <1>1, <1>2, <1>3, <1>4, <1>5, <1>6, <1>8, <1>9, <1>10, <1>11, <1>12,
     <1>13, <1>14, <1>15, <1>16, <1>18, <1>21, <1>22, <1>23, ZenonT(60)
  DEF Next, RoutineNext, ClientNext, ManagerNext, ManagerTick, FaultNext, Crash, Panic

\* Every reachable state satisfies the locking invariant.
THEOREM CoreCorrect == Spec => []CoreInv
<1>1. Init => TypeOK
  BY AbsentType DEF Init, TypeOK, PCs, Idle, Sweep
<1>2. Init => LockInv
  BY DEF Init, LockInv, ClaimStable, WritersKnown, RunningBelowMax, Absent
<1> QED BY <1>1, <1>2, CoreInvStep, PTL DEF Spec, CoreInv

\* GetOnePendingTask is safe against concurrent picks, sweeps, cancels and saves.
THEOREM PickIsSafe == Spec => []ClaimStable
  BY CoreCorrect, PTL DEF CoreInv, LockInv

\* A running row always has a retry left to spend.
THEOREM RedoWithinMax == Spec => []RunningBelowMax
  BY CoreCorrect, PTL DEF CoreInv, LockInv

(***************************************************************************)
(* Exclusive execution.  A row is handed to a new goroutine only from a    *)
(* claimable status, and only its holder, or an overtaking action, takes a *)
(* row of a held task out of running.                                      *)
(***************************************************************************)
Holding == {"exec", "save", "commit"}

\* ExclusiveExecution, said of the goroutines.
HoldInv ==
  \A g \in Routine : pc[g] \in Holding /\ cur[g] \notin overtaken =>
    /\ row[cur[g]].status = "running" /\ ~row[cur[g]].deleted
    /\ row[cur[g]].worker = Of[g].worker
    /\ \A h \in Routine : pc[h] \in Holding /\ cur[h] = cur[g] => h = g

\* The two forms of exclusive execution say the same.
LEMMA HoldInvExclusive == TypeOK => (HoldInv <=> ExclusiveExecution)
<1> SUFFICES ASSUME TypeOK PROVE HoldInv <=> ExclusiveExecution
  BY Zenon
<1>1. ASSUME HoldInv PROVE ExclusiveExecution
  BY <1>1, SMTT(60) DEF HoldInv, ExclusiveExecution, Holders, Holding
<1>2. ASSUME ExclusiveExecution PROVE HoldInv
  <2> SUFFICES ASSUME NEW g \in Routine, pc[g] \in Holding, cur[g] \notin overtaken
               PROVE  /\ row[cur[g]].status = "running" /\ ~row[cur[g]].deleted
                      /\ row[cur[g]].worker = Of[g].worker
                      /\ \A h \in Routine : pc[h] \in Holding /\ cur[h] = cur[g] => h = g
    BY Zenon DEF HoldInv
  <2>1. cur[g] \in Task \ overtaken /\ g \in Holders(cur[g])
    BY Zenon DEF TypeOK, Holding, Holders
  <2> QED BY <1>2, <2>1, ZenonT(60) DEF ExclusiveExecution, Holders, Holding
<1> QED BY <1>1, <1>2

\* An action that overtakes a set of tasks records those that are held.
LEMMA OvertakeHeld ==
  ASSUME NEW ts \in SUBSET Task, Overtake(ts), NEW g \in Routine,
         pc[g] \in Holding, cur[g] \in ts
  PROVE  cur[g] \in overtaken'
  BY DEF Overtake, Holders, Holding

\* No pick, save, sweep, cancel or delete breaks the hold on a task without
\* overtaking it.
LEMMA HoldInvStep == CoreInv /\ HoldInv /\ [Next]_vars => HoldInv'
<1> SUFFICES ASSUME CoreInv, HoldInv, [Next]_vars PROVE HoldInv'
  OBVIOUS
<1>t. TypeOK /\ TypeOK' /\ ClaimStable /\ WritersKnown
  BY TypeOKStep, ZenonT(60) DEF CoreInv, LockInv
<1> USE DEF HoldInv, Holding
<1>1. ASSUME NEW b, CreateTasks(b) PROVE HoldInv'
  BY <1>1, <1>t, SMTT(60) DEF CreateTasks, TypeOK
<1>3. ASSUME NEW c \in Client, CancelWrite(c) PROVE HoldInv'
  <2> DEFINE t == cancel[c].task
             ts == {u \in {t} : Visible(row[u])}
  <2>1. t \in Task /\ ts \in SUBSET Task /\ Overtake(ts)
    BY <1>3, <1>t, ZenonT(60) DEF CancelWrite, TypeOK
  <2>2. \A g \in Routine : pc[g] \in Holding /\ cur[g] \in ts => cur[g] \in overtaken'
    BY <2>1, OvertakeHeld, Zenon
  <2>3. \A u \in Task \ ts : row'[u] = row[u]
    BY <1>3, <1>t, Zenon DEF CancelWrite, TypeOK
  <2>4. overtaken \subseteq overtaken'
    BY <2>1, Zenon DEF Overtake
  <2> QED BY <1>3, <1>t, <2>2, <2>3, <2>4, ZenonT(60) DEF CancelWrite, TypeOK, redis, routines
<1>4. ASSUME NEW t \in Task, DeleteTask(t) PROVE HoldInv'
  <2>1. Overtake({t})
    BY <1>4, Zenon DEF DeleteTask
  <2>2. \A g \in Routine : pc[g] \in Holding /\ cur[g] = t => cur[g] \in overtaken'
    BY <2>1, OvertakeHeld, Zenon
  <2>3. \A u \in Task \ {t} : row'[u] = row[u]
    BY <1>4, <1>t, Zenon DEF DeleteTask, TypeOK
  <2>4. overtaken \subseteq overtaken'
    BY <2>1, ZenonT(60) DEF Overtake
  <2> QED BY <1>4, <1>t, <2>2, <2>3, <2>4, SMTT(60) DEF DeleteTask, TypeOK, redis, routines
<1>5. ASSUME NEW g \in Routine, CreateGroup(g) \/ PopMessage(g) \/ PopTimeout(g)
      PROVE HoldInv'
  BY <1>5, <1>t, SMTT(60) DEF CreateGroup, PopMessage, PopTimeout, TypeOK, db, routines, redis, history
<1>8. ASSUME NEW g \in Routine, PickSelect(g) PROVE HoldInv'
  BY <1>8, <1>t, SMTT(60) DEF PickSelect, TypeOK, redis, history
<1>9. ASSUME NEW g \in Routine, PickCommit(g) PROVE HoldInv'
  <2>1. /\ cur[g] \in Task
        /\ row[cur[g]].status \in {"pending", "failed", "timeout"} /\ ~row[cur[g]].deleted
    BY <1>9, <1>t, Zenon DEF PickCommit, TypeOK, ClaimStable
  <2>2. /\ row'[cur[g]].status = "running" /\ ~row'[cur[g]].deleted
        /\ row'[cur[g]].worker = Of[g].worker
    BY <1>9, <1>t, <2>1, SMTT(60) DEF PickCommit, MarkAsRunning, TypeOK, Entity
  <2>3. \A u \in Task : u # cur[g] => row'[u] = row[u]
    BY <1>9, <1>t, Zenon DEF PickCommit, TypeOK
  <2>4. cur' = cur /\ overtaken' = overtaken /\ pc' = [pc EXCEPT ![g] = "exec"]
    BY <1>9, ZenonT(60) DEF PickCommit
  <2> QED BY <1>t, <2>1, <2>2, <2>3, <2>4, SMTT(60) DEF TypeOK
<1>10. ASSUME NEW g \in Routine, NEW o \in Outcome, SaveRead(g, o) PROVE HoldInv'
  BY <1>10, <1>t, SMTT(60) DEF SaveRead, TypeOK, db, redis, history
<1>11. ASSUME NEW g \in Routine, SaveWrite(g) PROVE HoldInv'
  BY <1>11, <1>t, SMTT(60) DEF SaveWrite, TypeOK, history
<1>12. ASSUME NEW g \in Routine, SaveCommit(g) PROVE HoldInv'
  BY <1>12, <1>t, SMTT(60) DEF SaveCommit, TypeOK, redis, history
<1>13. ASSUME NEW g \in Routine, Rollback(g) PROVE HoldInv'
  BY <1>13, <1>t, SMTT(60) DEF Rollback, TypeOK, redis, history
<1>14. ASSUME NEW gs, NEW how \in {"ended", "dead"}, StopAll(gs, how) PROVE HoldInv'
  BY <1>14, <1>t, ZenonT(60) DEF StopAll, TypeOK, redis, history
<1>15. ASSUME NEW w \in Worker, WorkerStart(w) PROVE HoldInv'
  BY <1>15, <1>t, ZenonT(60) DEF WorkerStart, TypeOK, db, redis, history
<1>16. ASSUME \/ \E c \in Client, t \in Task : CancelRead(c, t)
              \/ \E ty \in TaskType : SyncQueueCount(ty)
              \/ \E m \in Manager : \/ \E ids \in SUBSET Task : TimeoutScan(m, ids)
                                    \/ \E w \in Worker : DeadScan(m, w)
                                    \/ \E t \in Task : TimeoutRequeue(m, t)
                                    \/ DeadRequeue(m)
       PROVE HoldInv'
  <2>1. UNCHANGED <<db, routines, history>>
    BY <1>16, Zenon DEF CancelRead, SyncQueueCount, TimeoutScan, DeadScan, TimeoutRequeue, DeadRequeue
  <2> QED BY <2>1 DEF db, routines, history
<1>18. ASSUME NEW m \in Manager, SweepUpdate(m) PROVE HoldInv'
  <2> DEFINE hit == {t \in sweep[m].ids : Running(t)}
  <2>1. hit \in SUBSET Task /\ Overtake(hit)
    BY <1>18, <1>t, Zenon DEF SweepUpdate, TypeOK, Sweep
  <2>2. \A g \in Routine : pc[g] \in Holding /\ cur[g] \in hit => cur[g] \in overtaken'
    BY <2>1, OvertakeHeld, Zenon
  <2>3. \A u \in Task \ hit : row'[u] = row[u]
    BY <1>18, Zenon DEF SweepUpdate
  <2>4. overtaken \subseteq overtaken'
    BY <2>1, Zenon DEF Overtake
  <2> HIDE DEF hit
  <2> QED BY <1>18, <1>t, <2>2, <2>3, <2>4, ZenonT(60) DEF SweepUpdate, TypeOK, redis, routines
<1>21. ASSUME InitTaskDBStatus PROVE HoldInv'
  <2> DEFINE hit == {t \in Task : Running(t)}
  <2>1. hit \in SUBSET Task /\ Overtake(hit)
    BY <1>21, Zenon DEF InitTaskDBStatus
  <2>2. \A g \in Routine : pc[g] \in Holding /\ cur[g] \in hit => cur[g] \in overtaken'
    BY <2>1, OvertakeHeld, Zenon
  <2>3. \A u \in Task \ hit : row'[u] = row[u]
    BY <1>21, Zenon DEF InitTaskDBStatus
  <2>4. overtaken \subseteq overtaken'
    BY <2>1, Zenon DEF Overtake
  <2> HIDE DEF hit
  <2> QED BY <1>21, <1>t, <2>2, <2>3, <2>4, ZenonT(60) DEF InitTaskDBStatus, TypeOK, redis, routines
<1>23. CASE UNCHANGED vars
  BY <1>23 DEF vars
<1> HIDE DEF HoldInv, Holding
<1> QED
  BY <1>1, <1>3, <1>4, <1>5, <1>8, <1>9, <1>10, <1>11, <1>12,
     <1>13, <1>14, <1>15, <1>16, <1>18, <1>21, <1>23, ZenonT(60)
  DEF Next, RoutineNext, ClientNext, ManagerNext, ManagerTick, FaultNext, Crash, Panic

HoldCoreInv == CoreInv /\ HoldInv

\* Locking and exclusive execution hold together in every reachable state.
LEMMA HoldCoreCorrect == Spec => []HoldCoreInv
<1>1. Init => HoldInv
  BY DEF Init, HoldInv, Holding
<1> QED BY <1>1, CoreCorrect, HoldInvStep, PTL DEF Spec, HoldCoreInv

\* A task that was never overtaken has at most one executor, and its row says so.
THEOREM ExecutionIsExclusive == Spec => []ExclusiveExecution
<1>1. HoldCoreInv => ExclusiveExecution
  BY HoldInvExclusive, Zenon DEF HoldCoreInv, CoreInv
<1> QED BY <1>1, HoldCoreCorrect, PTL

(***************************************************************************)
(* Results are final.  Only a running row receives a result, unless its    *)
(* task was overtaken.                                                     *)
(***************************************************************************)
\* A step that changes a committed success belongs to someone who overtook the
\* task, or to a cancel that had read it.
LEMMA SuccessFinalStep ==
  ASSUME HoldCoreInv, Next, NEW t \in Task \ overtaken, row[t].status = "success",
         \A c \in Client : cancel[c].task # t
  PROVE  row'[t].status = "success"
<1>t. TypeOK /\ ClaimStable /\ HoldInv
  BY Zenon DEF HoldCoreInv, CoreInv, LockInv
<1>1. ASSUME NEW b, CreateTasks(b) PROVE row'[t] = row[t]
  BY <1>1, <1>t, Zenon DEF CreateTasks, TypeOK
<1>3. ASSUME NEW c \in Client, CancelWrite(c) PROVE row'[t] = row[t]
  BY <1>3, <1>t, Zenon DEF CancelWrite, TypeOK
<1>4. ASSUME NEW u \in Task, DeleteTask(u) PROVE row'[t].status = row[t].status
  BY <1>4, <1>t, SMTT(60) DEF DeleteTask, TypeOK, Entity
<1>9. ASSUME NEW g \in Routine, PickCommit(g) PROVE row'[t] = row[t]
  BY <1>9, <1>t, Zenon DEF PickCommit, TypeOK, ClaimStable
<1>12. ASSUME NEW g \in Routine, SaveCommit(g) PROVE row'[t] = row[t]
  BY <1>12, <1>t, Zenon DEF SaveCommit, TypeOK, HoldInv, Holding
<1>18. ASSUME NEW m \in Manager, SweepUpdate(m) PROVE row'[t] = row[t]
  BY <1>18, SweepRow, Zenon DEF Running
<1>21. ASSUME InitTaskDBStatus PROVE row'[t] = row[t]
  BY <1>21, InitRow, Zenon DEF Running
<1>22. CASE row' = row
  BY <1>22
<1> QED
  BY <1>1, <1>3, <1>4, <1>9, <1>12, <1>18, <1>21, <1>22, ZenonT(60)
  DEF Next, RoutineNext, ClientNext, ManagerNext, ManagerTick, FaultNext, Crash, Panic, StopAll,
      CancelRead, CreateGroup, PopMessage, PopTimeout, PickSelect, SaveRead, SaveWrite,
      Rollback, WorkerStart, TimeoutScan, DeadScan, TimeoutRequeue, DeadRequeue,
      SyncQueueCount, db

\* A committed success is never changed, unless the task was overtaken or a
\* CancelTask call had already read the row.
THEOREM ResultsAreFinal == Spec => SuccessFinal
<1>1. HoldCoreInv /\ [Next]_vars =>
      [\A t \in Task \ overtaken :
         /\ row[t].status = "success"
         /\ \A c \in Client : cancel[c].task # t
         => row'[t].status = "success"]_vars
  BY SuccessFinalStep, Zenon DEF vars
<1> QED BY <1>1, HoldCoreCorrect, PTL DEF Spec, SuccessFinal

(***************************************************************************)
(* The attempt budget.  redo counts the failed executions exactly as long  *)
(* as nobody overtakes the task, so max_redo bounds the executions.        *)
(***************************************************************************)
BudgetInv == AttemptBudget /\ BudgetExact

\* Every step counts an attempt in redo exactly when it starts one and loses it.
LEMMA BudgetInvStep == HoldCoreInv /\ BudgetInv /\ [Next]_vars => BudgetInv'
<1> SUFFICES ASSUME HoldCoreInv, BudgetInv, [Next]_vars PROVE BudgetInv'
  OBVIOUS
<1>t. TypeOK /\ TypeOK' /\ ClaimStable /\ WritersKnown /\ HoldInv
  BY TypeOKStep, ZenonT(60) DEF HoldCoreInv, CoreInv, LockInv
<1> USE DEF BudgetInv, AttemptBudget, BudgetExact
<1>1. ASSUME NEW b, CreateTasks(b) PROVE BudgetInv'
  <2>1. \A t \in Task : \/ row'[t] = row[t]
                        \/ row[t].status = "absent" /\ row'[t] = NewTask
    BY <1>1 DEF CreateTasks
  <2>2. NewTask.status = "pending" /\ NewTask.redo = 0
    BY Zenon DEF NewTask, Absent
  <2>3. UNCHANGED <<pc, cur, ent, overtaken, attempts>>
    BY <1>1, Zenon DEF CreateTasks
  <2>4. \A g \in Routine : pc[g] \in {"save", "commit"} /\ cur[g] \notin overtaken
                         => row'[cur[g]] = row[cur[g]]
    BY <2>1, <1>t, ZenonT(60) DEF HoldInv, Holding, TypeOK
  <2> QED BY <2>1, <2>2, <2>3, <2>4, <1>t, SMTT(60) DEF TypeOK
<1>3. ASSUME NEW c \in Client, CancelWrite(c) PROVE BudgetInv'
  <2> DEFINE t == cancel[c].task
             ts == {u \in {t} : Visible(row[u])}
  <2>1. t \in Task /\ ts \in SUBSET Task /\ Overtake(ts)
    BY <1>3, <1>t, ZenonT(60) DEF CancelWrite, TypeOK
  <2>2. \A g \in Routine : pc[g] \in Holding /\ cur[g] \in ts => cur[g] \in overtaken'
    BY <2>1, OvertakeHeld, Zenon
  <2>3. \A u \in Task : row'[u] = row[u] \/ (u \in ts /\ row'[u].status = "canceled")
    BY <1>3, <1>t, ZenonT(60) DEF CancelWrite, TypeOK, WritersKnown, NonZero, Entity
  <2>4. overtaken \subseteq overtaken'
    BY <2>1, Zenon DEF Overtake
  <2>5. UNCHANGED <<pc, cur, ent, attempts>>
    BY <1>3 DEF CancelWrite, routines
  <2> HIDE DEF t, ts
  <2> QED BY <1>t, <2>2, <2>3, <2>4, <2>5, SMTT(60) DEF TypeOK, Holding
<1>4. ASSUME NEW t \in Task, DeleteTask(t) PROVE BudgetInv'
  <2>1. \A u \in Task : row'[u].status = row[u].status /\ row'[u].redo = row[u].redo
    BY <1>4, <1>t DEF DeleteTask, TypeOK, Entity
  <2>2. overtaken \subseteq overtaken' /\ UNCHANGED <<pc, cur, ent, attempts>>
    BY <1>4 DEF DeleteTask, Overtake, routines
  <2> QED BY <2>1, <2>2, <1>t, ZenonT(60) DEF TypeOK
<1>8. ASSUME NEW g \in Routine, \/ CreateGroup(g) \/ PopMessage(g) \/ PopTimeout(g)
                                \/ PickSelect(g) \/ SaveWrite(g)
      PROVE BudgetInv'
  <2>1. UNCHANGED <<row, ent, overtaken, attempts>>
    BY <1>8, Zenon DEF CreateGroup, PopMessage, PopTimeout, PickSelect, SaveWrite, db, routines, history
  <2>2. \A h \in Routine : pc'[h] \in {"save", "commit"}
                         => pc[h] \in {"save", "commit"} /\ cur'[h] = cur[h]
    BY <1>8, <1>t, ZenonT(60) DEF CreateGroup, PopMessage, PopTimeout, PickSelect, SaveWrite, TypeOK,
       db, routines
  <2> QED BY <2>1, <2>2
<1>9. ASSUME NEW g \in Routine, PickCommit(g) PROVE BudgetInv'
  <2>1. /\ cur[g] \in Task /\ row[cur[g]] \in Entity
        /\ row[cur[g]].status \in {"pending", "failed", "timeout"}
        /\ row[cur[g]].redo < Attr[cur[g]].maxRedo
    BY <1>9, <1>t, Zenon DEF PickCommit, TypeOK, ClaimStable
  <2>2. row'[cur[g]].status = "running" /\ row'[cur[g]].redo = row[cur[g]].redo
    BY <1>9, <1>t, <2>1, Zenon DEF PickCommit, MarkAsRunning, TypeOK, Entity
  <2>3. \A u \in Task : u # cur[g] => row'[u] = row[u] /\ attempts'[u] = attempts[u]
    BY <1>9, <1>t, Zenon DEF PickCommit, TypeOK
  <2>4. attempts'[cur[g]] = attempts[cur[g]] + 1
    BY <1>9, <1>t, <2>1, Zenon DEF PickCommit, TypeOK
  <2>5. /\ cur' = cur /\ ent' = ent /\ overtaken' = overtaken
        /\ \A h \in Routine : pc'[h] \in {"save", "commit"} => pc[h] \in {"save", "commit"}
    BY <1>9, <1>t, ZenonT(60) DEF PickCommit, TypeOK
  <2>6. \A t \in Task \ overtaken' :
          /\ attempts'[t] <= Attr[t].maxRedo
          /\ row'[t].status = "absent" => attempts'[t] = 0
          /\ row'[t].status \in {"pending", "failed", "timeout"} => attempts'[t] = row'[t].redo
          /\ row'[t].status \in {"running", "success"} => attempts'[t] = row'[t].redo + 1
    BY <2>1, <2>2, <2>3, <2>4, <2>5, AttrAssumption, SMTT(60) DEF Entity
  <2>7. \A h \in Routine : pc'[h] \in {"save", "commit"} /\ cur'[h] \notin overtaken'
                         => cur[h] \in Task /\ row'[cur[h]].redo = row[cur[h]].redo
    BY <1>t, <2>2, <2>3, <2>5, ZenonT(60) DEF TypeOK
  <2> QED BY <2>5, <2>6, <2>7, ZenonT(60)
<1>10. ASSUME NEW g \in Routine, NEW o \in Outcome, SaveRead(g, o) PROVE BudgetInv'
  <2>1. row[cur[g]] \in Entity
    BY <1>10, <1>t, Zenon DEF SaveRead, TypeOK
  <2>2. /\ MarkOutcome(row[cur[g]], o).status = o
        /\ MarkOutcome(row[cur[g]], o).redo =
             IF o = "success" THEN row[cur[g]].redo ELSE row[cur[g]].redo + 1
    BY <2>1, MarkFields, Zenon
  <2>3. UNCHANGED <<row, overtaken, attempts>>
    BY <1>10, Zenon DEF SaveRead, db, history
  <2>4. \A h \in Routine : h # g => pc'[h] = pc[h] /\ cur'[h] = cur[h] /\ ent'[h] = ent[h]
    BY <1>10, <1>t, Zenon DEF SaveRead, TypeOK
  <2>5. pc'[g] \in {"save", "commit"}
        => cur'[g] = cur[g] /\ ent'[g] = MarkOutcome(row[cur[g]], o)
    BY <1>10, <1>t, ZenonT(60) DEF SaveRead, TypeOK
  <2> QED BY <2>2, <2>3, <2>4, <2>5, SMTT(60)
<1>12. ASSUME NEW g \in Routine, SaveCommit(g) PROVE BudgetInv'
  <2>1. /\ cur[g] \in Task /\ row'[cur[g]] = ent[g] /\ ent[g].status \in Outcome
        /\ pc[g] = "commit" /\ row[cur[g]] \in Entity
    BY <1>12, <1>t, Zenon DEF SaveCommit, TypeOK, WritersKnown
  <2>2. \A u \in Task : u # cur[g] => row'[u] = row[u]
    BY <1>12, <1>t, Zenon DEF SaveCommit, TypeOK
  <2>3. cur[g] \notin overtaken =>
          /\ row[cur[g]].status = "running"
          /\ \A h \in Routine : pc[h] \in Holding /\ cur[h] = cur[g] => h = g
    BY <2>1, <1>t, Zenon DEF HoldInv, Holding
  <2>4. /\ UNCHANGED <<overtaken, attempts>>
        /\ pc'[g] = "pop"
        /\ \A h \in Routine : h # g => pc'[h] = pc[h] /\ cur'[h] = cur[h] /\ ent'[h] = ent[h]
    BY <1>12, <1>t, Zenon DEF SaveCommit, TypeOK, history
  <2>5. cur[g] \notin overtaken =>
          /\ ent[g].status = "success" => attempts[cur[g]] = ent[g].redo + 1
          /\ ent[g].status \in {"failed", "timeout"} => attempts[cur[g]] = ent[g].redo
    BY <2>1, <2>3, Zenon
  <2>6. \A t \in Task \ overtaken' :
          /\ attempts'[t] <= Attr[t].maxRedo
          /\ row'[t].status = "absent" => attempts'[t] = 0
          /\ row'[t].status \in {"pending", "failed", "timeout"} => attempts'[t] = row'[t].redo
          /\ row'[t].status \in {"running", "success"} => attempts'[t] = row'[t].redo + 1
    BY <2>1, <2>2, <2>4, <2>5, ZenonT(60) DEF Outcome
  <2>7. \A h \in Routine : pc'[h] \in {"save", "commit"} /\ cur'[h] \notin overtaken'
                         => h # g /\ row'[cur[h]] = row[cur[h]]
    BY <1>t, <2>2, <2>3, <2>4, SMTT(60) DEF TypeOK, Holding
  <2> QED BY <2>4, <2>6, <2>7, SMTT(60)
<1>13. ASSUME \/ \E g \in Routine : Rollback(g)
              \/ \E gs, how : how \in {"ended", "dead"} /\ StopAll(gs, how)
              \/ \E w \in Worker : WorkerStart(w)
       PROVE BudgetInv'
  <2>1. UNCHANGED <<row, overtaken, attempts>>
    BY <1>13, Zenon DEF Rollback, StopAll, WorkerStart, db, history
  <2>2. \A h \in Routine : pc'[h] \in {"save", "commit"}
                         => pc'[h] = pc[h] /\ cur'[h] = cur[h] /\ ent'[h] = ent[h]
    BY <1>13, <1>t, SMTT(60) DEF Rollback, StopAll, WorkerStart, TypeOK
  <2> QED BY <2>1, <2>2, ZenonT(60)
<1>16. CASE UNCHANGED <<db, routines, history>>
  BY <1>16, ZenonT(60) DEF db, routines, history
<1>18. ASSUME NEW hit \in SUBSET Task, Overtake(hit), UNCHANGED <<pc, cur, ent, attempts>>,
              \A u \in Task \ hit : row'[u] = row[u],
              \A u \in hit : /\ row[u].status = "running" /\ row'[u].redo = row[u].redo + 1
                             /\ row'[u].status \in {"failed", "timeout"}
       PROVE BudgetInv'
  <2>2. \A g \in Routine : pc[g] \in Holding /\ cur[g] \in hit => cur[g] \in overtaken'
    BY <1>18, OvertakeHeld, Zenon
  <2>4. overtaken \subseteq overtaken'
    BY <1>18, Zenon DEF Overtake
  <2>5. \A t \in Task \ overtaken' : attempts'[t] <= Attr[t].maxRedo
    BY <1>18, <2>4, Zenon
  <2>6. ASSUME NEW t \in Task \ overtaken'
        PROVE  /\ row'[t].status = "absent" => attempts'[t] = 0
               /\ row'[t].status \in {"pending", "failed", "timeout"} => attempts'[t] = row'[t].redo
               /\ row'[t].status \in {"running", "success"} => attempts'[t] = row'[t].redo + 1
    BY <1>18, <2>4, <2>6, ZenonT(60)
  <2>7. ASSUME NEW g \in Routine, pc'[g] \in {"save", "commit"}, cur'[g] \notin overtaken'
        PROVE  ent'[g].redo = IF ent'[g].status = "success"
                              THEN row'[cur'[g]].redo ELSE row'[cur'[g]].redo + 1
    <3>1. cur[g] \in Task /\ pc[g] \in Holding
      BY <1>18, <1>t, <2>7, Zenon DEF TypeOK, Holding
    <3>2. row'[cur[g]] = row[cur[g]] /\ cur[g] \notin overtaken
      BY <1>18, <2>2, <2>4, <2>7, <3>1, Zenon
    <3> QED BY <1>18, <2>7, <3>2, Zenon
  <2> QED BY <2>5, <2>6, <2>7, Zenon
<1>19. ASSUME NEW m \in Manager, SweepUpdate(m) PROVE BudgetInv'
  <2> DEFINE hit == {t \in sweep[m].ids : Running(t)}
  <2>1. /\ hit \in SUBSET Task /\ Overtake(hit) /\ UNCHANGED <<pc, cur, ent, attempts>>
        /\ \A u \in Task \ hit : row'[u] = row[u]
        /\ \A u \in hit : row'[u] = MarkAsTimeout(row[u]) /\ row[u] \in Entity
    BY <1>19, <1>t, ZenonT(60) DEF SweepUpdate, TypeOK, Sweep, routines
  <2>2. \A u \in hit : /\ row[u].status = "running" /\ row'[u].redo = row[u].redo + 1
                       /\ row'[u].status \in {"failed", "timeout"}
    BY <2>1, MarkFields, SMTT(60) DEF Running
  <2> HIDE DEF hit
  <2> QED BY <1>18, <2>1, <2>2, Zenon
<1>21. ASSUME InitTaskDBStatus PROVE BudgetInv'
  <2> DEFINE hit == {t \in Task : Running(t)}
  <2>1. /\ hit \in SUBSET Task /\ Overtake(hit) /\ UNCHANGED <<pc, cur, ent, attempts>>
        /\ \A u \in Task \ hit : row'[u] = row[u]
        /\ \A u \in hit : row'[u] = MarkAsFailed(row[u]) /\ row[u] \in Entity
    BY <1>21, <1>t, ZenonT(60) DEF InitTaskDBStatus, TypeOK, routines
  <2>2. \A u \in hit : /\ row[u].status = "running" /\ row'[u].redo = row[u].redo + 1
                       /\ row'[u].status \in {"failed", "timeout"}
    BY <2>1, MarkFields, SMTT(60) DEF Running
  <2> HIDE DEF hit
  <2> QED BY <1>18, <2>1, <2>2, Zenon
<1>23. CASE UNCHANGED vars
  BY <1>23, Zenon DEF vars
<1> HIDE DEF BudgetInv
<1>24. CASE \/ \E c \in Client, t \in Task : CancelRead(c, t)
            \/ \E ty \in TaskType : SyncQueueCount(ty)
            \/ \E m \in Manager : \/ \E ids \in SUBSET Task : TimeoutScan(m, ids)
                                  \/ \E w \in Worker : DeadScan(m, w)
                                  \/ \E t \in Task : TimeoutRequeue(m, t)
                                  \/ DeadRequeue(m)
  BY <1>16, <1>24, ZenonT(60)
  DEF CancelRead, SyncQueueCount, TimeoutScan, DeadScan, TimeoutRequeue, DeadRequeue
<1> QED
  BY <1>1, <1>3, <1>4, <1>8, <1>9, <1>10, <1>12, <1>13, <1>19, <1>21, <1>23, <1>24, ZenonT(60)
  DEF Next, RoutineNext, ClientNext, ManagerNext, ManagerTick, FaultNext, Crash, Panic

\* A task that was never overtaken is executed at most max_redo times.
THEOREM AttemptsBounded == Spec => []AttemptBudget
<1>1. Init => BudgetInv
  BY AttrAssumption, SMTT(60) DEF Init, BudgetInv, AttemptBudget, BudgetExact, Absent
<1>2. BudgetInv => AttemptBudget
  BY DEF BudgetInv
<1> QED BY <1>1, <1>2, HoldCoreCorrect, BudgetInvStep, PTL DEF Spec

(***************************************************************************)
(* Step order.  A lower step that was done when its successor was selected *)
(* is not claimable, not running and not absent, so no action except one   *)
(* that overtakes it gives it another status.                              *)
(***************************************************************************)
Done(u) == Visible(row[u]) => row[u].status \in {"canceled", "success"}
Claimed(t) == \E g \in Routine : pc[g] = "claim" /\ cur[g] = t

\* No step reopens a lower step of a task that is picked or running.
LEMMA StepsStayDoneStep == HoldCoreInv /\ StepsStayDone /\ [Next]_vars => StepsStayDone'
<1> SUFFICES ASSUME HoldCoreInv, StepsStayDone, [Next]_vars PROVE StepsStayDone'
  OBVIOUS
<1>t. TypeOK /\ TypeOK' /\ ClaimStable /\ WritersKnown /\ HoldInv
  BY TypeOKStep, Zenon DEF HoldCoreInv, CoreInv, LockInv
<1>l. \A t \in Task : \A u \in Lower(t) : u \in Task /\ u # t /\ Attr[u].batch = Attr[t].batch
  BY AttrAssumption, BatchAssumption, SMTT(60) DEF Lower
<1> DEFINE Together == \A t, u \in Task : Attr[t].batch = Attr[u].batch =>
                         (row[t].status = "absent" <=> row[u].status = "absent")
           Exists == \A g \in Routine : pc[g] \in {"claim", "exec", "save", "commit"} =>
                       row[cur[g]].status # "absent"
           Ordered == \A t \in Task : Running(t) \/ Claimed(t) =>
                        \A u \in Lower(t) \ overtaken : Done(u)
<1>d. StepsStayDone <=> Ordered /\ Together /\ Exists
  BY Zenon DEF StepsStayDone, Claimed, Done
<1>e. StepsStayDone' <=> (Ordered /\ Together /\ Exists)'
  BY Zenon DEF StepsStayDone, Claimed, Done
<1>1. ASSUME NEW b, CreateTasks(b) PROVE StepsStayDone'
  <2>1. \A t \in Task : \/ Attr[t].batch # b /\ row'[t] = row[t]
                        \/ /\ Attr[t].batch = b /\ row[t].status = "absent"
                           /\ row'[t] = NewTask
    BY <1>1 DEF CreateTasks
  <2>2. NewTask.status = "pending"
    BY Zenon DEF NewTask, Absent
  <2>3. UNCHANGED <<pc, cur, overtaken>>
    BY <1>1, Zenon DEF CreateTasks
  <2>4. \A t \in Task : Running(t)' \/ Claimed(t)' =>
          (Running(t) \/ Claimed(t)) /\ Attr[t].batch # b
    BY <2>1, <2>2, <2>3, <1>t, Zenon DEF Running, Claimed, ClaimStable
  <2>5. Ordered'
    <3> SUFFICES ASSUME NEW t \in Task, Running(t)' \/ Claimed(t)',
                        NEW u \in Lower(t) \ overtaken'
                 PROVE  Done(u)'
      BY Zenon DEF Lower
    <3>1. row'[u] = row[u]
      BY <1>l, <2>1, <2>4, Zenon
    <3> QED BY <1>d, <2>3, <2>4, <3>1, Zenon DEF Done
  <2>6. Together'
    BY <1>d, <2>1, <2>2, ZenonT(60)
  <2>7. Exists'
    BY <1>d, <2>1, <2>2, <2>3, <1>t, Zenon DEF TypeOK
  <2> QED BY <1>e, <2>5, <2>6, <2>7, ZenonT(60)
<1>2. \* No row changes and nothing is selected.
      ASSUME row' = row, overtaken' = overtaken,
             \A h \in Routine : pc'[h] \in {"claim", "exec", "save", "commit"} =>
               /\ pc[h] \in {"claim", "exec", "save", "commit"} /\ cur'[h] = cur[h]
               /\ pc'[h] = "claim" => pc[h] = "claim"
      PROVE  StepsStayDone'
  <2>1. Ordered'
    BY <1>2, <1>d, SMTT(60) DEF Running, Claimed, Done, Lower
  <2>2. Together' /\ Exists'
    BY <1>2, <1>d, Zenon
  <2> QED BY <1>e, <2>1, <2>2, ZenonT(60)
<1>3. \* Rows of hit change: none of them was done, or they are done afterwards.
      ASSUME NEW hit \in SUBSET Task, overtaken \subseteq overtaken',
             \A h \in Routine : pc'[h] \in {"claim", "exec", "save", "commit"} =>
               /\ pc[h] \in {"claim", "exec", "save", "commit"} /\ cur'[h] = cur[h]
               /\ pc'[h] = "claim" => pc[h] = "claim",
             \A u \in Task \ hit : row'[u] = row[u],
             \A u \in hit : /\ row[u].status # "absent" /\ row'[u].status # "absent"
                            /\ Running(u)' => Running(u) \/ Claimed(u)
                            /\ u \in overtaken' \/ ~Done(u) \/ Done(u)'
      PROVE  StepsStayDone'
  <2>1. \A t \in Task : Running(t)' \/ Claimed(t)' => Running(t) \/ Claimed(t)
    BY <1>3, Zenon DEF Running, Claimed
  <2>2. Ordered'
    <3> SUFFICES ASSUME NEW t \in Task, Running(t)' \/ Claimed(t)',
                        NEW u \in Lower(t) \ overtaken'
                 PROVE  Done(u)'
      BY Zenon DEF Lower
    <3>1. u \in Task /\ Done(u)
      BY <1>d, <1>l, <1>3, <2>1, ZenonT(60)
    <3> QED BY <1>3, <3>1, Zenon DEF Done
  <2>3. Together'
    BY <1>3, <1>d, SMTT(60)
  <2>4. Exists'
    BY <1>3, <1>d, <1>t, SMTT(60) DEF TypeOK
  <2> QED BY <1>e, <2>2, <2>3, <2>4, Zenon
<1>4. ASSUME NEW c \in Client, CancelWrite(c) PROVE StepsStayDone'
  <2> DEFINE hit == {u \in {cancel[c].task} : Visible(row[u])}
  <2>1. /\ hit \in SUBSET Task /\ overtaken \subseteq overtaken' /\ UNCHANGED <<pc, cur>>
        /\ \A u \in Task \ hit : row'[u] = row[u]
    <3>1. overtaken \subseteq overtaken' /\ UNCHANGED <<pc, cur>>
      BY <1>4, Zenon DEF CancelWrite, Overtake, routines
    <3>2. cancel[c].task \in Task
      BY <1>4, <1>t, Zenon DEF CancelWrite, TypeOK
    <3>3. \A u \in Task \ hit : row'[u] = row[u]
      BY <1>4, <1>t, <3>2, ZenonT(60) DEF CancelWrite, TypeOK
    <3> QED BY <3>1, <3>2, <3>3, Zenon
  <2>2. \A u \in hit : row[u].status # "absent" /\ row'[u].status = "canceled"
    BY <1>4, <1>t, SMTT(60) DEF CancelWrite, TypeOK, WritersKnown, NonZero, Entity
  <2> HIDE DEF hit
  <2> QED BY <1>3, <2>1, <2>2, Zenon DEF Done, Running
<1>5. ASSUME NEW t \in Task, DeleteTask(t) PROVE StepsStayDone'
  <2>1. /\ overtaken \subseteq overtaken' /\ UNCHANGED <<pc, cur>>
        /\ \A u \in Task \ {t} : row'[u] = row[u]
        /\ row[t].status # "absent"
    BY <1>5, <1>t, Zenon DEF DeleteTask, TypeOK, Overtake, routines
  <2>2. row'[t].status = row[t].status /\ row'[t].deleted
    BY <1>5, <1>t, ZenonT(60) DEF DeleteTask, TypeOK, Entity
  <2>3. Done(t)' /\ ~Running(t)'
    BY <2>2, Zenon DEF Done, Running
  <2> DEFINE hit == {t}
  <2>4. \A u \in hit : /\ row[u].status # "absent" /\ row'[u].status # "absent"
                       /\ Running(u)' => Running(u) \/ Claimed(u)
                       /\ u \in overtaken' \/ ~Done(u) \/ Done(u)'
    BY <2>1, <2>2, <2>3, Zenon
  <2>5. hit \in SUBSET Task /\ \A u \in Task \ hit : row'[u] = row[u]
    BY <2>1, Zenon
  <2> HIDE DEF hit
  <2> QED BY <1>3, <2>1, <2>4, <2>5, Zenon
<1>8. ASSUME NEW g \in Routine, PickSelect(g) PROVE StepsStayDone'
  <2>1. row' = row /\ overtaken' = overtaken
    BY <1>8, Zenon DEF PickSelect, history
  <2>2. \A h \in Routine : h # g => pc'[h] = pc[h] /\ cur'[h] = cur[h]
    BY <1>8, <1>t, Zenon DEF PickSelect, TypeOK
  <2>3. \/ pc'[g] = "pop"
        \/ pc'[g] = "claim" /\ cur'[g] \in Task /\ Claimable(cur'[g])
    BY <1>8, <1>t, Zenon DEF PickSelect, TypeOK
  <2>4. \A t \in Task : Claimed(t)' => Claimed(t) \/ Claimable(t)
    BY <2>2, <2>3, Zenon DEF Claimed
  <2>5. Ordered'
    BY <1>d, <2>1, <2>4, Zenon DEF Running, Done, Claimable, StepsDone, Lower
  <2>6. Together' /\ Exists'
    BY <1>d, <2>1, <2>2, <2>3, Zenon DEF Claimable
  <2> QED BY <1>e, <2>5, <2>6, Zenon
<1>9. ASSUME NEW g \in Routine, PickCommit(g) PROVE StepsStayDone'
  <2>1. /\ cur[g] \in Task /\ Claimed(cur[g]) /\ row[cur[g]] \in Entity
        /\ row[cur[g]].status \in {"pending", "failed", "timeout"} /\ ~row[cur[g]].deleted
    BY <1>9, <1>t, Zenon DEF PickCommit, TypeOK, ClaimStable, Claimed
  <2>2. row'[cur[g]].status = "running"
    BY <1>9, <1>t, <2>1, Zenon DEF PickCommit, MarkAsRunning, TypeOK, Entity
  <2>3. /\ overtaken' = overtaken
        /\ \A u \in Task : u # cur[g] => row'[u] = row[u]
        /\ cur' = cur
        /\ \A h \in Routine : h # g => pc'[h] = pc[h]
        /\ pc[g] = "claim" /\ pc'[g] = "exec"
    BY <1>9, <1>t, Zenon DEF PickCommit, TypeOK
  <2> DEFINE hit == {cur[g]}
  <2>4. \A u \in hit : /\ row[u].status # "absent" /\ row'[u].status # "absent"
                       /\ Running(u)' => Running(u) \/ Claimed(u)
                       /\ u \in overtaken' \/ ~Done(u) \/ Done(u)'
    BY <2>1, <2>2, Zenon DEF Done
  <2>5. hit \in SUBSET Task /\ \A u \in Task \ hit : row'[u] = row[u]
    BY <2>1, <2>3, Zenon
  <2>6. \A h \in Routine : pc'[h] \in {"claim", "exec", "save", "commit"} =>
               /\ pc[h] \in {"claim", "exec", "save", "commit"} /\ cur'[h] = cur[h]
               /\ pc'[h] = "claim" => pc[h] = "claim"
    BY <2>3, Zenon
  <2> HIDE DEF hit
  <2> QED BY <1>3, <2>3, <2>4, <2>5, <2>6, Zenon
<1>12. ASSUME NEW g \in Routine, SaveCommit(g) PROVE StepsStayDone'
  <2>1. /\ cur[g] \in Task /\ row'[cur[g]] = ent[g] /\ ent[g].status \in Outcome
        /\ pc[g] = "commit"
    BY <1>12, <1>t, Zenon DEF SaveCommit, TypeOK, WritersKnown
  <2>2. /\ overtaken' = overtaken
        /\ \A u \in Task : u # cur[g] => row'[u] = row[u]
        /\ \A h \in Routine : h # g => pc'[h] = pc[h] /\ cur'[h] = cur[h]
        /\ pc'[g] = "pop"
    BY <1>12, <1>t, Zenon DEF SaveCommit, TypeOK, history
  <2>3. cur[g] \in overtaken \/ ~Done(cur[g])
    BY <2>1, <1>t, Zenon DEF HoldInv, Holding, Done
  <2>4. row[cur[g]].status # "absent"
    BY <2>1, <1>d, Zenon
  <2> DEFINE hit == {cur[g]}
  <2>5. \A u \in hit : /\ row[u].status # "absent" /\ row'[u].status # "absent"
                       /\ Running(u)' => Running(u) \/ Claimed(u)
                       /\ u \in overtaken' \/ ~Done(u) \/ Done(u)'
    BY <2>1, <2>2, <2>3, <2>4, Zenon DEF Running, Outcome
  <2>6. hit \in SUBSET Task /\ \A u \in Task \ hit : row'[u] = row[u]
    BY <2>1, <2>2, Zenon
  <2>7. \A h \in Routine : pc'[h] \in {"claim", "exec", "save", "commit"} =>
               /\ pc[h] \in {"claim", "exec", "save", "commit"} /\ cur'[h] = cur[h]
               /\ pc'[h] = "claim" => pc[h] = "claim"
    BY <2>2, Zenon
  <2> HIDE DEF hit
  <2> QED BY <1>3, <2>2, <2>5, <2>6, <2>7, Zenon
<1>19. ASSUME NEW m \in Manager, SweepUpdate(m) PROVE StepsStayDone'
  <2> DEFINE hit == {t \in sweep[m].ids : Running(t)}
  <2>1. /\ hit \in SUBSET Task /\ overtaken \subseteq overtaken' /\ UNCHANGED <<pc, cur>>
        /\ \A u \in Task \ hit : row'[u] = row[u]
        /\ \A u \in hit : row'[u] = MarkAsTimeout(row[u]) /\ row[u] \in Entity
    BY <1>19, <1>t, ZenonT(60) DEF SweepUpdate, TypeOK, Sweep, Overtake, routines
  <2>2. \A u \in hit : Running(u) /\ ~Done(u) /\ row'[u].status = "timeout"
    BY <2>1, MarkFields, SMTT(60) DEF Running, Done
  <2> HIDE DEF hit
  <2> QED BY <1>3, <2>1, <2>2, Zenon DEF Running
<1>21. ASSUME InitTaskDBStatus PROVE StepsStayDone'
  <2> DEFINE hit == {t \in Task : Running(t)}
  <2>1. /\ hit \in SUBSET Task /\ overtaken \subseteq overtaken' /\ UNCHANGED <<pc, cur>>
        /\ \A u \in Task \ hit : row'[u] = row[u]
        /\ \A u \in hit : row'[u] = MarkAsFailed(row[u]) /\ row[u] \in Entity
    BY <1>21, <1>t, ZenonT(60) DEF InitTaskDBStatus, TypeOK, Overtake, routines
  <2>2. \A u \in hit : Running(u) /\ ~Done(u) /\ row'[u].status = "failed"
    BY <2>1, MarkFields, SMTT(60) DEF Running, Done
  <2> HIDE DEF hit
  <2> QED BY <1>3, <2>1, <2>2, Zenon DEF Running
<1>22. ASSUME \/ \E g \in Routine : \/ CreateGroup(g) \/ PopMessage(g) \/ PopTimeout(g)
                                    \/ \E o \in Outcome : SaveRead(g, o)
                                    \/ SaveWrite(g) \/ Rollback(g)
              \/ \E gs, how : how \in {"ended", "dead"} /\ StopAll(gs, how)
              \/ \E w \in Worker : WorkerStart(w)
       PROVE StepsStayDone'
  <2> DEFINE Kept == /\ row' = row /\ overtaken' = overtaken
                     /\ \A h \in Routine : pc'[h] \in {"claim", "exec", "save", "commit"} =>
                          /\ pc[h] \in {"claim", "exec", "save", "commit"} /\ cur'[h] = cur[h]
                          /\ pc'[h] = "claim" => pc[h] = "claim"
  <2>1. ASSUME NEW g \in Routine, CreateGroup(g) \/ PopMessage(g) \/ PopTimeout(g) PROVE Kept
    BY <2>1, <1>t, Zenon DEF CreateGroup, PopMessage, PopTimeout, TypeOK, db, routines, history
  <2>2. ASSUME NEW g \in Routine, NEW o \in Outcome, SaveRead(g, o) PROVE Kept
    BY <2>2, <1>t, ZenonT(60) DEF SaveRead, TypeOK, db, history
  <2>3. ASSUME NEW g \in Routine, SaveWrite(g) PROVE Kept
    BY <2>3, <1>t, ZenonT(60) DEF SaveWrite, TypeOK, history
  <2>4. ASSUME NEW g \in Routine, Rollback(g) PROVE Kept
    BY <2>4, <1>t, Zenon DEF Rollback, TypeOK, history
  <2>5. ASSUME NEW gs, NEW how \in {"ended", "dead"}, StopAll(gs, how) PROVE Kept
    BY <2>5, <1>t, Zenon DEF StopAll, TypeOK, history
  <2>6. ASSUME NEW w \in Worker, WorkerStart(w) PROVE Kept
    BY <2>6, <1>t, Zenon DEF WorkerStart, TypeOK, db, history
  <2>7. Kept
    <3> HIDE DEF Kept
    <3> QED BY <1>22, <2>1, <2>2, <2>3, <2>4, <2>5, <2>6, Zenon
  <2> QED BY <1>2, <2>7, SMTT(60)
<1>23. CASE UNCHANGED <<db, routines, history>>
  BY <1>2, <1>23, Zenon DEF db, routines, history
<1>24. CASE \/ \E c \in Client, t \in Task : CancelRead(c, t)
            \/ \E ty \in TaskType : SyncQueueCount(ty)
            \/ \E m \in Manager : \/ \E ids \in SUBSET Task : TimeoutScan(m, ids)
                                  \/ \E w \in Worker : DeadScan(m, w)
                                  \/ \E t \in Task : TimeoutRequeue(m, t)
                                  \/ DeadRequeue(m)
            \/ UNCHANGED vars
  <2>1. UNCHANGED <<db, routines, history>>
    BY <1>24, Zenon DEF CancelRead, SyncQueueCount, TimeoutScan, DeadScan, TimeoutRequeue,
       DeadRequeue, vars, db, routines, history
  <2> QED BY <1>23, <2>1, Zenon
<1> QED
  BY <1>1, <1>4, <1>5, <1>8, <1>9, <1>12, <1>19, <1>21, <1>22, <1>24, ZenonT(60)
  DEF Next, RoutineNext, ClientNext, ManagerNext, ManagerTick, FaultNext, Crash, Panic

\* While a task runs, every lower step of its flow that was not overtaken stays
\* success, canceled or deleted.
THEOREM StepsInOrder == Spec => []StepOrder
<1>1. Init => StepsStayDone
  BY SMTT(60) DEF Init, StepsStayDone, Running, Absent
<1>2. StepsStayDone => StepOrder
  BY DEF StepsStayDone, StepOrder
<1> QED BY <1>1, <1>2, HoldCoreCorrect, StepsStayDoneStep, PTL DEF Spec
=============================================================================
