------------------------------ MODULE Routines ------------------------------
(***************************************************************************)
(* Start and Stop of the worker, the manager and the health checker of     *)
(* package task, and the goroutines they start: three copies of one        *)
(* pattern.  Start makes a new context and starts goroutines; Stop cancels *)
(* the context, waits for the goroutines for up to 30 seconds and marks    *)
(* the service as stopped.  A goroutine looks at the context of the        *)
(* service at every turn, and so at the new one after a restart.           *)
(***************************************************************************)
EXTENDS Integers, FiniteSets

CONSTANTS RtStoppers,  \* callers of Stop
          RtMaxStarts  \* bound: calls of Start

ASSUME RtAssumption == RtMaxStarts \in Nat

VARIABLES rtKind,      \* "worker", "manager" or "checker"
          rtStarted,   \* started
          rtCtx,       \* the context of the service: the number of its Start
          rtCancelled, \* contexts that were cancelled
          rtAt,        \* [goroutine -> where it is], << >> before the first Start
          rtSees,      \* [goroutine -> the context its wait looks at], 0 for none
          rtStop,      \* where each caller of Stop is
          rtLoose      \* history: a Stop gave up on goroutines, or a Start came
                       \* while a Stop was under way

routineVars == <<rtKind, rtStarted, rtCtx, rtCancelled, rtAt, rtSees, rtStop, rtLoose>>

\* The goroutines of one Start, by the function each runs.
Loops(kind) == CASE kind = "worker" -> <<"workRoutine", "startHealthReportRoutine">>
                 [] kind = "manager" -> <<"queueSyncRoutine", "timeoutCheckRoutine">>
                 [] kind = "checker" -> <<"healthCheckRoutine">>
RoutineCount == IF rtKind = "checker" THEN 1 ELSE 2
Routines == 1..(RoutineCount * RtMaxStarts)
Loop(i) == Loops(rtKind)[((i - 1) % RoutineCount) + 1]

Running == {i \in Routines : rtAt[i] \notin {"none", "gone"}}

RtTypeOK ==
  /\ rtKind \in {"worker", "manager", "checker"} /\ rtStarted \in BOOLEAN
  /\ rtCtx \in 0..RtMaxStarts /\ rtCancelled \subseteq 1..RtMaxStarts
  /\ rtAt \in [Routines -> {"none", "turn", "wait", "busy", "gone"}]
  /\ rtSees \in [Routines -> 0..RtMaxStarts]
  /\ rtStop \in [RtStoppers -> {"idle", "cancel", "wait", "finish"}] /\ rtLoose \in BOOLEAN

RtInit ==
  /\ rtKind \in {"worker", "manager", "checker"}
  /\ rtStarted = FALSE /\ rtCtx = 0 /\ rtCancelled = {}
  /\ rtAt = [i \in Routines |-> "none"] /\ rtSees = [i \in Routines |-> 0]
  /\ rtStop = [s \in RtStoppers |-> "idle"] /\ rtLoose = FALSE

\* Start holds the lock throughout; a second one is refused.  timeoutCheckRoutine
\* begins with a check, the others with a turn of their loop.
Start ==
  /\ ~rtStarted /\ rtCtx < RtMaxStarts
  /\ rtStarted' = TRUE /\ rtCtx' = rtCtx + 1
  /\ rtAt' = [i \in Routines |->
                IF i \in (rtCtx * RoutineCount + 1)..((rtCtx + 1) * RoutineCount)
                THEN IF Loop(i) = "timeoutCheckRoutine" THEN "busy" ELSE "turn"
                ELSE rtAt[i]]
  /\ rtLoose' = (rtLoose \/ \E s \in RtStoppers : rtStop[s] # "idle")
  /\ UNCHANGED <<rtKind, rtCancelled, rtSees, rtStop>>

WorkerStart == rtKind = "worker" /\ Start
ManagerStart == rtKind = "manager" /\ Start
CheckerStart == rtKind = "checker" /\ Start

-----------------------------------------------------------------------------
(* A goroutine. *)

At(i, from, to) == rtAt[i] = from /\ rtAt' = [rtAt EXCEPT ![i] = to]

\* The work of a turn ends, or panics: startRoutine recovers and lets the
\* goroutine end.
TurnEnds(i) == (At(i, "busy", "turn") \/ At(i, "busy", "gone")) /\ UNCHANGED rtSees

\* Return when the context is done, or get and execute a task.
workRoutine(i) ==
  /\ Loop(i) = "workRoutine"
  /\ \/ /\ At(i, "turn", IF rtCtx \in rtCancelled THEN "gone" ELSE "busy")
        /\ UNCHANGED rtSees
     \/ TurnEnds(i)

\* The other loops wait for the context of this turn or for the ticker,
\* whichever is first.
TickerLoop(i) ==
  \/ At(i, "turn", "wait") /\ rtSees' = [rtSees EXCEPT ![i] = rtCtx]
  \/ /\ (rtSees[i] \in rtCancelled /\ At(i, "wait", "gone")) \/ At(i, "wait", "busy")
     /\ rtSees' = [rtSees EXCEPT ![i] = 0]
  \/ TurnEnds(i)

startHealthReportRoutine(i) == Loop(i) = "startHealthReportRoutine" /\ TickerLoop(i)
queueSyncRoutine(i) == Loop(i) = "queueSyncRoutine" /\ TickerLoop(i)
timeoutCheckRoutine(i) == Loop(i) = "timeoutCheckRoutine" /\ TickerLoop(i)
healthCheckRoutine(i) == Loop(i) = "healthCheckRoutine" /\ TickerLoop(i)

RoutineStep(i) ==
  /\ \/ workRoutine(i) \/ startHealthReportRoutine(i) \/ queueSyncRoutine(i)
     \/ timeoutCheckRoutine(i) \/ healthCheckRoutine(i)
  /\ UNCHANGED <<rtKind, rtStarted, rtCtx, rtCancelled, rtStop, rtLoose>>

\* The context given to Start ends, and with it the one made of it.
ParentDone ==
  /\ rtCtx > 0 /\ rtCancelled' = rtCancelled \cup {rtCtx}
  /\ UNCHANGED <<rtKind, rtStarted, rtCtx, rtAt, rtSees, rtStop, rtLoose>>

-----------------------------------------------------------------------------
(* Stop. *)

StopAt(s, from, to) == rtStop[s] = from /\ rtStop' = [rtStop EXCEPT ![s] = to]

\* It looks at started under the lock, which it leaves before it goes on; a
\* service that is not started is an error.
StopBegin(s) ==
  /\ rtStarted /\ StopAt(s, "idle", "cancel")
  /\ UNCHANGED <<rtKind, rtStarted, rtCtx, rtCancelled, rtAt, rtSees, rtLoose>>

\* cancel ends the context of the last Start.
StopCancel(s) ==
  /\ StopAt(s, "cancel", "wait") /\ rtCancelled' = rtCancelled \cup {rtCtx}
  /\ UNCHANGED <<rtKind, rtStarted, rtCtx, rtAt, rtSees, rtLoose>>

StopDoneEarly(s) ==
  /\ StopAt(s, "wait", "finish")
  /\ UNCHANGED <<rtKind, rtStarted, rtCtx, rtCancelled, rtAt, rtSees, rtLoose>>

\* The wait group is empty, ...
StopDone(s) ==
  /\ Running = {} /\ StopAt(s, "wait", "finish")
  /\ UNCHANGED <<rtKind, rtStarted, rtCtx, rtCancelled, rtAt, rtSees, rtLoose>>

\* ... or 30 seconds are over.
StopTimeout(s) ==
  /\ Running # {} /\ StopAt(s, "wait", "finish") /\ rtLoose' = TRUE
  /\ UNCHANGED <<rtKind, rtStarted, rtCtx, rtCancelled, rtAt, rtSees>>

StopFinish(s) ==
  /\ StopAt(s, "finish", "idle") /\ rtStarted' = FALSE
  /\ UNCHANGED <<rtKind, rtCtx, rtCancelled, rtAt, rtSees, rtLoose>>

StopStep(s) ==
  StopBegin(s) \/ StopCancel(s) \/ StopDone(s) \/ StopTimeout(s) \/ StopFinish(s)

WorkerStop(s) == rtKind = "worker" /\ StopStep(s)
ManagerStop(s) == rtKind = "manager" /\ StopStep(s)
CheckerStop(s) == rtKind = "checker" /\ StopStep(s)

RtNext ==
  \/ WorkerStart \/ ManagerStart \/ CheckerStart
  \/ ParentDone
  \/ \E i \in Routines : RoutineStep(i)
  \/ \E s \in RtStoppers : WorkerStop(s) \/ ManagerStop(s) \/ CheckerStop(s)

\* Stop goes on by itself and its timer fires; nothing says that the work of a
\* goroutine ends.
RtFairness ==
  \A s \in RtStoppers :
    WF_routineVars(StopCancel(s) \/ StopDone(s) \/ StopTimeout(s) \/ StopFinish(s))

RtSpec == RtInit /\ [][RtNext]_routineVars /\ RtFairness

\* A service that is stopped has no goroutine left, and one that is started
\* has no more of them than one Start gives it, so that a task type is never
\* served by more goroutines than configured.  The code keeps this promise
\* unless a Stop gives up after 30 seconds, or the service is started again
\* while one of two Stops is still under way (worker.go:110-203, manager.go:380-446,
\* checker.go:151-212).
RoutinesStopped ==
  ~rtLoose => /\ Cardinality(Running) =< RoutineCount
              /\ ~rtStarted => Running = {}

\* Stop returns, even if a goroutine never ends.
RoutineStopReturns == \A s \in RtStoppers : rtStop[s] # "idle" ~> rtStop[s] = "idle"
=============================================================================
