------------------------------ MODULE ConcQueue ------------------------------
(***************************************************************************)
(* The worker pool of concqueue/queue.go: Submit, the workers, the restart *)
(* after a panic and StopAndWait.  Workers are interchangeable, so only    *)
(* the number of those that wait for a task is kept; a worker that runs a  *)
(* task is that task in state "running".  Every task has its own caller.   *)
(***************************************************************************)
EXTENDS Integers, Sequences, FiniteSets

CONSTANTS CqTasks,       \* tasks that callers submit
          CqWorkerCount, \* the argument workerCount of New
          CqQueueSize,   \* the argument queueSize of New
          CqStoppers     \* goroutines that call StopAndWait

ASSUME CqAssumption ==
  CqWorkerCount \in Nat \ {0} /\ CqQueueSize \in Nat

VARIABLES cqTask,   \* the state of each task and of the Submit that brings it
          cqQueue,  \* the channel taskQueue
          cqIdle,   \* workers in the select of worker()
          cqClosed, \* closed = 1 and the channel closed
          cqOwnCtx, \* no WithContext option: q.ctx is the context cancel() ends
          cqDone,   \* q.ctx is cancelled
          cqErr,    \* errCount
          cqStop,   \* the state of each call of StopAndWait
          cqPanics  \* history: panics recovered while the queue was open

queueVars == <<cqTask, cqQueue, cqIdle, cqClosed, cqOwnCtx, cqDone, cqErr, cqStop, cqPanics>>

CqRunning == {t \in CqTasks : cqTask[t] = "running"}
CqEnded == {"ok", "failed"}

CqTypeOK ==
  /\ cqTask \in [CqTasks -> {"new", "checked", "queued", "running", "dropped",
                              "panicked"} \cup CqEnded]
  /\ cqQueue \in Seq(CqTasks) /\ Len(cqQueue) =< CqQueueSize
  /\ cqIdle \in Nat /\ cqErr \in Nat /\ cqPanics \in Nat
  /\ cqClosed \in BOOLEAN /\ cqOwnCtx \in BOOLEAN /\ cqDone \in BOOLEAN
  /\ cqStop \in [CqStoppers -> {"none", "waiting", "returned"}]

\* New and start.
CqInit ==
  /\ cqTask = [t \in CqTasks |-> "new"]
  /\ cqQueue = << >> /\ cqIdle = CqWorkerCount
  /\ cqClosed = FALSE /\ cqOwnCtx \in BOOLEAN /\ cqDone = FALSE
  /\ cqErr = 0 /\ cqPanics = 0
  /\ cqStop = [s \in CqStoppers |-> "none"]

SetTask(t, st) == cqTask' = [cqTask EXCEPT ![t] = st]

\* Submit looks at closed ...
Submit(t) ==
  /\ cqTask[t] = "new"
  /\ SetTask(t, IF cqClosed THEN "dropped" ELSE "checked")
  /\ UNCHANGED <<cqQueue, cqIdle, cqClosed, cqOwnCtx, cqDone, cqErr, cqStop, cqPanics>>

SubmitUnbounded(t) ==
  /\ cqTask[t] = "checked"
  /\ \/ cqDone /\ SetTask(t, "dropped") /\ UNCHANGED cqQueue
     \/ cqClosed /\ SetTask(t, "panicked") /\ UNCHANGED cqQueue
     \/ /\ ~cqClosed
        /\ SetTask(t, "queued") /\ cqQueue' = Append(cqQueue, t)
  /\ UNCHANGED <<cqIdle, cqClosed, cqOwnCtx, cqDone, cqErr, cqStop, cqPanics>>

\* ... and selects: the send waits for room and panics on a closed channel.
SubmitSelect(t) ==
  /\ cqTask[t] = "checked"
  /\ \/ cqDone /\ SetTask(t, "dropped") /\ UNCHANGED cqQueue
     \/ cqClosed /\ SetTask(t, "panicked") /\ UNCHANGED cqQueue
     \/ /\ ~cqClosed /\ Len(cqQueue) < CqQueueSize
        /\ SetTask(t, "queued") /\ cqQueue' = Append(cqQueue, t)
  /\ UNCHANGED <<cqIdle, cqClosed, cqOwnCtx, cqDone, cqErr, cqStop, cqPanics>>

\* The send of that select meets a worker that waits: the only way through a
\* channel without a buffer, and with one the same as a send and a receive.
SubmitMeetsWorker(t) ==
  /\ cqTask[t] = "checked" /\ ~cqClosed /\ cqQueue = << >> /\ cqIdle > 0
  /\ SetTask(t, "running") /\ cqIdle' = cqIdle - 1
  /\ UNCHANGED <<cqQueue, cqClosed, cqOwnCtx, cqDone, cqErr, cqStop, cqPanics>>

WorkerLeavesEarly ==
  /\ cqIdle > 0
  /\ \/ /\ cqQueue # << >>
        /\ SetTask(Head(cqQueue), "running") /\ cqQueue' = Tail(cqQueue)
     \/ /\ cqDone \/ cqClosed
        /\ UNCHANGED <<cqTask, cqQueue>>
  /\ cqIdle' = cqIdle - 1
  /\ UNCHANGED <<cqClosed, cqOwnCtx, cqDone, cqErr, cqStop, cqPanics>>

WorkerIgnoresClose ==
  /\ cqIdle > 0
  /\ \/ /\ cqQueue # << >>
        /\ SetTask(Head(cqQueue), "running") /\ cqQueue' = Tail(cqQueue)
     \/ cqDone /\ UNCHANGED <<cqTask, cqQueue>>
  /\ cqIdle' = cqIdle - 1
  /\ UNCHANGED <<cqClosed, cqOwnCtx, cqDone, cqErr, cqStop, cqPanics>>

\* A waiting worker takes a task, or ends because the context is cancelled or
\* the channel is closed and empty.
Worker ==
  /\ cqIdle > 0
  /\ \/ /\ cqQueue # << >>
        /\ SetTask(Head(cqQueue), "running") /\ cqQueue' = Tail(cqQueue)
     \/ /\ cqDone \/ (cqClosed /\ cqQueue = << >>)
        /\ UNCHANGED <<cqTask, cqQueue>>
  /\ cqIdle' = cqIdle - 1
  /\ UNCHANGED <<cqClosed, cqOwnCtx, cqDone, cqErr, cqStop, cqPanics>>

\* runTask: success, an error, or a panic, after which another worker is
\* started while the queue is open; the one that recovered goes on as well.
RunTask(t) ==
  /\ cqTask[t] = "running"
  /\ \/ SetTask(t, "ok") /\ cqIdle' = cqIdle + 1 /\ UNCHANGED <<cqErr, cqPanics>>
     \/ /\ SetTask(t, "failed") /\ cqErr' = cqErr + 1
        /\ cqIdle' = cqIdle + 1 /\ UNCHANGED cqPanics
     \/ /\ SetTask(t, "failed") /\ cqErr' = cqErr + 1
        /\ IF cqClosed THEN cqIdle' = cqIdle + 1 /\ UNCHANGED cqPanics
                       ELSE cqIdle' = cqIdle + 2 /\ cqPanics' = cqPanics + 1
  /\ UNCHANGED <<cqQueue, cqClosed, cqOwnCtx, cqDone, cqStop>>

\* stop: the first call closes the channel.
StopQueue(s) ==
  /\ cqStop[s] = "none"
  /\ cqClosed' = TRUE
  /\ cqStop' = [cqStop EXCEPT ![s] = "waiting"]
  /\ UNCHANGED <<cqTask, cqQueue, cqIdle, cqOwnCtx, cqDone, cqErr, cqPanics>>

\* wait and cancel: the wait group counts waiting and running workers.
WaitQueue(s) ==
  /\ cqStop[s] = "waiting" /\ cqIdle = 0 /\ CqRunning = {}
  /\ cqStop' = [cqStop EXCEPT ![s] = "returned"]
  /\ cqDone' = (cqDone \/ cqOwnCtx)
  /\ UNCHANGED <<cqTask, cqQueue, cqIdle, cqClosed, cqOwnCtx, cqErr, cqPanics>>

\* External: the caller cancels the context it passed with WithContext.
CancelCtx ==
  /\ ~cqOwnCtx /\ ~cqDone /\ cqDone' = TRUE
  /\ UNCHANGED <<cqTask, cqQueue, cqIdle, cqClosed, cqOwnCtx, cqErr, cqStop, cqPanics>>

CqNext ==
  \/ \E t \in CqTasks : Submit(t) \/ SubmitSelect(t) \/ SubmitMeetsWorker(t) \/ RunTask(t)
  \/ \E s \in CqStoppers : StopQueue(s) \/ WaitQueue(s)
  \/ Worker \/ CancelCtx

\* Goroutines run; tasks end, by return or by panic.
CqFairness ==
  /\ WF_queueVars(Worker)
  /\ \A t \in CqTasks : WF_queueVars(RunTask(t))
  /\ \A s \in CqStoppers : WF_queueVars(WaitQueue(s))

CqSpec == CqInit /\ [][CqNext]_queueVars /\ CqFairness

StopAndWaitDrained ==
  (\E s \in CqStoppers : cqStop[s] = "returned") =>
    /\ cqIdle = 0 /\ CqRunning = {}
    /\ cqOwnCtx => \A t \in CqTasks : cqTask[t] # "queued"
    /\ cqErr = Cardinality({t \in CqTasks : cqTask[t] = "failed"})

WorkersKept ==
  ~cqClosed /\ ~cqDone => cqIdle + Cardinality(CqRunning) = CqWorkerCount + cqPanics

\* The queue serves what it accepts.  While it is open no task costs it a
\* worker, and every recovered panic leaves it exactly one more than before: the
\* worker that recovered goes on beside the new one.  When StopAndWait has
\* returned no worker is left, every accepted task has been run to its end unless
\* the caller cancelled the context, and errCount counts those that failed
\* (queue.go:79-134).
QueueServes == StopAndWaitDrained /\ WorkersKept

\* queue.go:104-107: the worker started after a panic keeps the number of workers
\* of the pool and replaces the one that crashed.  That one has recovered in
\* runTask and returns to its loop, so the pool grows by one with every panic.
PoolSizeKept ==
  ~cqClosed /\ ~cqDone => cqIdle + Cardinality(CqRunning) = CqWorkerCount

\* StopAndWait returns, however Submit, panics and a second StopAndWait fall
\* between its steps.
StopAndWaitReturns ==
  \A s \in CqStoppers : cqStop[s] = "waiting" ~> cqStop[s] = "returned"
=============================================================================
