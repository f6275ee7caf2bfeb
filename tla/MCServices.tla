----------------------------- MODULE MCServices -----------------------------
(***************************************************************************)
(* Model checking of the components in which goroutines or processes meet  *)
(* and something must eventually happen: the Redis lock, the worker pool,  *)
(* request and reply, leaving the process, event streams, and the          *)
(* goroutines of the task services.  They share no state: an initial       *)
(* choice says which of them a behaviour runs, and the others stay in      *)
(* their initial states, where no fair action of theirs is enabled.        *)
(***************************************************************************)
EXTENDS RedisLock, ConcQueue, RPCQueue, Lifecycle, SSEStream, Routines

VARIABLE svMode

svVars == <<svMode, lockVars, queueVars, rpcVars, lifeVars, sseVars, routineVars>>

\* Two calls share a correlation ID, the third has its own.
MCCorrID == [c \in RqCalls |-> IF c = "c3" THEN "j" ELSE "i"]

SvInit ==
  /\ svMode \in {"lock", "queue", "rpc", "life", "sse", "routines"}
  /\ LockInit /\ CqInit /\ RqInit /\ LcInit /\ SseInit /\ RtInit
  /\ svMode # "queue" => cqOwnCtx
  /\ svMode # "life" => ~lcForced
  /\ svMode # "sse" => sseKind = "redis"
  /\ svMode # "routines" => rtKind = "checker"

SvNext ==
  \/ svMode = "lock" /\ LockNext
     /\ UNCHANGED <<svMode, queueVars, rpcVars, lifeVars, sseVars, routineVars>>
  \/ svMode = "queue" /\ CqNext
     /\ UNCHANGED <<svMode, lockVars, rpcVars, lifeVars, sseVars, routineVars>>
  \/ svMode = "rpc" /\ RqNext
     /\ UNCHANGED <<svMode, lockVars, queueVars, lifeVars, sseVars, routineVars>>
  \/ svMode = "life" /\ LcNext
     /\ UNCHANGED <<svMode, lockVars, queueVars, rpcVars, sseVars, routineVars>>
  \/ svMode = "sse" /\ SseNext
     /\ UNCHANGED <<svMode, lockVars, queueVars, rpcVars, lifeVars, routineVars>>
  \/ svMode = "routines" /\ RtNext
     /\ UNCHANGED <<svMode, lockVars, queueVars, rpcVars, lifeVars, sseVars>>

SvSpec ==
  /\ SvInit /\ [][SvNext]_svVars
  /\ LockFairness /\ CqFairness /\ RqFairness /\ LcFairness /\ RtFairness

\* Every variable of the six components keeps its type.
ServicesTypeOK ==
  LockTypeOK /\ CqTypeOK /\ RqTypeOK /\ LcTypeOK /\ SseTypeOK /\ RtTypeOK

\* Shutting down leaves nothing behind: a process that exits with code 0 has
\* run its closers (lifecycle.go:100-147), and a task service that is stopped
\* has no goroutine left, nor a restarted one more than it is configured to
\* have (worker.go:110-203, manager.go:380-446, checker.go:151-212).
ShutdownSound == ZeroMeansClosed /\ RoutinesStopped

\* A call that stops a component returns: stop and wait of the worker pool
\* (concqueue/queue.go:118-134), and Stop of a task service even if one of its
\* goroutines never ends (worker.go:157-190).
StopsReturn == StopAndWaitReturns /\ RoutineStopReturns
=============================================================================
