-------------------------- MODULE GoroutineProofs ---------------------------
(***************************************************************************)
(* Proofs about clients of a Redis key and goroutines that meet: the lock, *)
(* the worker pool, leaving the process and the goroutines of the task     *)
(* services, for any numbers of clients, tasks, workers, closers and stops.*)
(***************************************************************************)
EXTENDS RedisLock, ConcQueue, Lifecycle, Routines, FiniteSetTheorems, TLAPS

(***************************************************************************)
(* The locks on a Redis key implement the abstract lock.                   *)
(***************************************************************************)
\* A client that tries has tries left.
TriesLeft == \A c \in LockClients : lkPc[c] = "trying" => lkTries[c] < MaxTries

\* What ties the key to the section: while the promise stands an occupied
\* section has its key and one client in it, and an empty section is safe.
KeyGuardsSection ==
  /\ lkSafe /\ LockInside # {} => lkKey
  /\ lkSafe => \A c, d \in LockInside : c = d
  /\ LockInside = {} => lkSafe

LockInv == LockTypeOK /\ TriesLeft /\ KeyGuardsSection

\* The state of the lock stays well-formed, and a client that tries gives up in time.
LEMMA LockTypeStep ==
  LockTypeOK /\ TriesLeft /\ [LockNext]_lockVars => LockTypeOK' /\ TriesLeft'
<1> SUFFICES ASSUME LockTypeOK, TriesLeft, [LockNext]_lockVars PROVE LockTypeOK' /\ TriesLeft'
  OBVIOUS
<1> USE LockAssumption
<1>1. ASSUME NEW c \in LockClients, LockStart(c) PROVE LockTypeOK' /\ TriesLeft'
  BY <1>1 DEF LockStart, LockTypeOK, TriesLeft
<1>2. ASSUME NEW c \in LockClients, GetLock(c) PROVE LockTypeOK' /\ TriesLeft'
  BY <1>2 DEF GetLock, LockTypeOK, TriesLeft
<1>3. ASSUME NEW c \in LockClients, LockerError(c) PROVE LockTypeOK' /\ TriesLeft'
  <2>1. lkSafe' \in BOOLEAN /\ lkKey' = lkKey
    BY <1>3, Zenon DEF LockerError
  <2>2. lkPc' \in [LockClients -> {"idle", "trying", "inside", "again", "dead"}]
    BY <1>3 DEF LockerError, LockTypeOK
  <2>3. lkTtl' = lkTtl /\ lkTries' = lkTries /\ lkFaults' \in 0..LockFaults
    BY <1>3 DEF LockerError, LockTypeOK
  <2>4. TriesLeft'
    BY <1>3 DEF LockerError, LockTypeOK, TriesLeft
  <2> QED BY <2>1, <2>2, <2>3, <2>4, Zenon DEF LockTypeOK
<1>4. ASSUME NEW c \in LockClients, LockTryFails(c) PROVE LockTypeOK' /\ TriesLeft'
  BY <1>4 DEF LockTryFails, TryFails, LockTypeOK, TriesLeft
<1>5. ASSUME NEW c \in LockClients, LockWithTimeoutFails(c) PROVE LockTypeOK' /\ TriesLeft'
  BY <1>5 DEF LockWithTimeoutFails, TryFails, LockTypeOK, TriesLeft
<1>6. ASSUME NEW c \in LockClients, DelKey(c) PROVE LockTypeOK' /\ TriesLeft'
  <2>1. lkSafe' \in BOOLEAN /\ lkKey' \in BOOLEAN
    <3>1. lkKey' \in BOOLEAN
      BY <1>6, Zenon DEF DelKey, LockTypeOK
    <3>2. lkSafe' \in BOOLEAN
      BY <1>6, <3>1, Zenon DEF DelKey, LockTypeOK
    <3> QED BY <3>1, <3>2
  <2>2. lkTtl' \in 0..LockTtl /\ (~lkKey' => lkTtl' = 0) /\ lkFaults' \in 0..LockFaults
    BY <1>6 DEF DelKey, LockTypeOK
  <2>3. lkPc' \in [LockClients -> {"idle", "trying", "inside", "again", "dead"}]
    BY <1>6 DEF DelKey, LockTypeOK
  <2>4. TriesLeft' /\ lkTries' = lkTries
    BY <1>6 DEF DelKey, LockTypeOK, TriesLeft
  <2> QED BY <2>1, <2>2, <2>3, <2>4 DEF LockTypeOK
<1>7. ASSUME NEW c \in LockClients, LockCrash(c) PROVE LockTypeOK' /\ TriesLeft'
  <2>1. lkSafe' \in BOOLEAN /\ lkKey' = lkKey
    BY <1>7, Zenon DEF LockCrash, LockTypeOK
  <2>2. lkPc' \in [LockClients -> {"idle", "trying", "inside", "again", "dead"}]
    BY <1>7 DEF LockCrash, LockTypeOK
  <2>3. lkTtl' = lkTtl /\ lkTries' = lkTries /\ lkFaults' \in 0..LockFaults
    BY <1>7 DEF LockCrash, LockTypeOK
  <2>4. TriesLeft'
    BY <1>7 DEF LockCrash, LockTypeOK, TriesLeft
  <2> QED BY <2>1, <2>2, <2>3, <2>4, Zenon DEF LockTypeOK
<1>8. CASE LockTick
  <2>1. lkSafe' \in BOOLEAN
    BY <1>8, Zenon DEF LockTick, LockTypeOK
  <2>2. lkKey' = (lkTtl > 1) /\ lkTtl' = lkTtl - 1 /\ lkTtl > 0 /\ lkTtl \in 0..LockTtl
    BY <1>8, Zenon DEF LockTick, LockTypeOK
  <2>3. lkTtl' \in 0..LockTtl /\ (~(lkTtl > 1) => lkTtl' = 0)
    BY <2>2
  <2>4. lkKey' \in BOOLEAN /\ (~lkKey' => lkTtl' = 0)
    <3>1. CASE lkTtl > 1
      BY <2>2, <3>1, Zenon
    <3>2. CASE ~(lkTtl > 1)
      <4>1. (lkTtl > 1) = FALSE
        BY <2>2, <3>2, SMT
      <4>2. lkKey' = FALSE
        BY <2>2, <4>1, Zenon
      <4> QED BY <2>3, <3>2, <4>2, Zenon
    <3> QED BY <3>1, <3>2
  <2> QED BY <1>8, <2>1, <2>3, <2>4 DEF LockTick, LockTypeOK, TriesLeft
<1>9. CASE UNCHANGED lockVars
  BY <1>9 DEF lockVars, LockTypeOK, TriesLeft
<1> QED BY <1>1, <1>2, <1>3, <1>4, <1>5, <1>6, <1>7, <1>8, <1>9, Zenon
        DEF LockNext, LockStep, Unlock, UnLock

\* The lock starts well-formed.
LEMMA LockInitType == LockInit => LockTypeOK /\ TriesLeft
<1> SUFFICES ASSUME LockInit PROVE LockTypeOK /\ TriesLeft
  OBVIOUS
<1>1. lkKey \in BOOLEAN /\ lkSafe \in BOOLEAN
  BY Zenon DEF LockInit
<1>2. lkTtl = 0 /\ lkTtl \in 0..LockTtl /\ lkFaults \in 0..LockFaults
  BY LockAssumption DEF LockInit
<1>3. lkPc \in [LockClients -> {"idle", "trying", "inside", "again", "dead"}]
  BY DEF LockInit
<1>4. lkTries \in [LockClients -> 0..MaxTries] /\ TriesLeft
  BY LockAssumption DEF LockInit, TriesLeft
<1> QED BY <1>1, <1>2, <1>3, <1>4 DEF LockTypeOK

\* The state of the lock is always well-formed (redis_locker.go:38-64,
\* redis_cache.go:356-410).
THEOREM LockTypeCorrect == LockSpec => []LockTypeOK
<1> QED BY LockInitType, LockTypeStep, PTL DEF LockSpec

\* How the steps of a client change the section.
LEMMA SectionMoves ==
  ASSUME LockTypeOK, NEW c \in LockClients
  PROVE  /\ LockStart(c) => LockInside' = LockInside
         /\ GetLock(c) => LockInside' = LockInside \cup {c} /\ c \notin LockInside
         /\ LockerError(c) => LockInside' = LockInside \cup {c} /\ c \notin LockInside
         /\ LockTryFails(c) => LockInside' = LockInside
         /\ LockWithTimeoutFails(c) => LockInside' = LockInside
         /\ DelKey(c) => LockInside' = LockInside \ {c}
         /\ LockCrash(c) => LockInside' = LockInside \ {c}
<1>1. LockStart(c) => LockInside' = LockInside
  BY DEF LockStart, LockInside, LockTypeOK
<1>2. GetLock(c) => LockInside' = LockInside \cup {c} /\ c \notin LockInside
  BY DEF GetLock, LockInside, LockTypeOK
<1>3. LockerError(c) => LockInside' = LockInside \cup {c} /\ c \notin LockInside
  BY DEF LockerError, LockInside, LockTypeOK
<1>4. LockTryFails(c) => LockInside' = LockInside
  BY DEF LockTryFails, LockInside, LockTypeOK
<1>5. LockWithTimeoutFails(c) => LockInside' = LockInside
  BY DEF LockWithTimeoutFails, LockInside, LockTypeOK
<1>6. DelKey(c) => LockInside' = LockInside \ {c}
  BY DEF DelKey, LockInside, LockTypeOK
<1>7. LockCrash(c) => LockInside' = LockInside \ {c}
  BY DEF LockCrash, LockInside, LockTypeOK
<1> QED BY <1>1, <1>2, <1>3, <1>4, <1>5, <1>6, <1>7

\* No step breaks the tie between the key and the section.
LEMMA GuardStep == LockTypeOK /\ KeyGuardsSection /\ [LockNext]_lockVars => KeyGuardsSection'
<1> SUFFICES ASSUME LockTypeOK, KeyGuardsSection, [LockNext]_lockVars PROVE KeyGuardsSection'
  OBVIOUS
<1>1. ASSUME NEW c \in LockClients,
             LockStart(c) \/ LockTryFails(c) \/ LockWithTimeoutFails(c)
      PROVE  KeyGuardsSection'
  <2>1. LockInside' = LockInside
    BY <1>1, SectionMoves
  <2>2. lkKey' = lkKey /\ lkSafe' = lkSafe
    BY <1>1 DEF LockStart, LockTryFails, LockWithTimeoutFails
  <2> QED BY <2>1, <2>2, Zenon DEF KeyGuardsSection
<1>2. ASSUME NEW c \in LockClients, GetLock(c) PROVE KeyGuardsSection'
  <2>1. LockInside' = LockInside \cup {c} /\ lkKey' /\ lkSafe' = lkSafe /\ ~lkKey
    BY <1>2, SectionMoves, Zenon DEF GetLock
  <2>2. lkSafe => LockInside = {}
    BY <2>1 DEF KeyGuardsSection
  <2> QED BY <2>1, <2>2 DEF KeyGuardsSection
<1>3. ASSUME NEW c \in LockClients, LockerError(c) PROVE KeyGuardsSection'
  <2>1. LockInside' = LockInside \cup {c} /\ ~lkSafe'
    BY <1>3, SectionMoves, Zenon DEF LockerError
  <2> QED BY <2>1 DEF KeyGuardsSection
<1>4. ASSUME NEW c \in LockClients, DelKey(c) PROVE KeyGuardsSection'
  <2>1. LockInside' = LockInside \ {c}
    BY <1>4, SectionMoves
  <2>2. CASE LockInside \ {c} = {}
    <3>1. lkSafe'
      BY <1>4, <2>2 DEF DelKey
    <3> QED BY <2>1, <2>2, <3>1 DEF KeyGuardsSection
  <2>3. CASE LockInside \ {c} # {}
    <3>1. lkSafe' = (lkSafe /\ lkKey')
      BY <1>4, <2>3, Zenon DEF DelKey
    <3> QED BY <2>1, <2>3, <3>1, Zenon DEF KeyGuardsSection
  <2> QED BY <2>2, <2>3
<1>5. ASSUME NEW c \in LockClients, LockCrash(c) PROVE KeyGuardsSection'
  <2>1. LockInside' = LockInside \ {c} /\ lkKey' = lkKey
    BY <1>5, SectionMoves, Zenon DEF LockCrash
  <2>2. lkSafe' = IF LockInside \ {c} = {} THEN TRUE ELSE lkSafe
    BY <1>5 DEF LockCrash
  <2> QED BY <2>1, <2>2 DEF KeyGuardsSection
<1>6. CASE LockTick
  <2>1. LockInside' = LockInside
    BY <1>6 DEF LockTick, LockInside
  <2>2. lkSafe' = (lkSafe /\ (lkKey' \/ LockInside = {}))
    BY <1>6 DEF LockTick
  <2> QED BY <2>1, <2>2, Zenon DEF KeyGuardsSection
<1>7. CASE UNCHANGED lockVars
  BY <1>7 DEF lockVars, KeyGuardsSection, LockInside
<1> QED BY <1>1, <1>2, <1>3, <1>4, <1>5, <1>6, <1>7
        DEF LockNext, LockStep, Unlock, UnLock

\* The inductive invariant holds at first, is kept by every step, and so holds
\* in every behaviour.
LEMMA LockInvInit == LockInit => LockInv
<1>1. LockInit => LockInside = {}
  BY DEF LockInit, LockInside
<1>2. LockInit => lkSafe
  BY Zenon DEF LockInit
<1> QED BY <1>1, <1>2, LockInitType DEF LockInv, KeyGuardsSection

\* Every step of the lock keeps its invariant.
LEMMA LockInvStep == LockInv /\ [LockNext]_lockVars => LockInv'
<1> QED BY LockTypeStep, GuardStep DEF LockInv

\* Every reachable state of the lock satisfies it.
LEMMA LockInvariant == LockInit /\ [][LockNext]_lockVars => []LockInv
<1> QED BY LockInvInit, LockInvStep, PTL

\* Every step of the Redis lock is a step of the abstract lock or leaves it as it is.
LEMMA LockStepImplements ==
  LockInv /\ [LockNext]_lockVars => [Section!Next]_(Section!vars)
<1> SUFFICES ASSUME LockInv, [LockNext]_lockVars PROVE [Section!Next]_(Section!vars)
  OBVIOUS
<1> USE DEF LockInv
<1>1. ASSUME NEW c \in LockClients,
             LockStart(c) \/ LockTryFails(c) \/ LockWithTimeoutFails(c)
      PROVE  UNCHANGED Section!vars
  <2>1. LockInside' = LockInside
    BY <1>1, SectionMoves
  <2>2. lkSafe' = lkSafe
    BY <1>1 DEF LockStart, LockTryFails, LockWithTimeoutFails
  <2> QED BY <2>1, <2>2 DEF Section!vars
<1>2. ASSUME NEW c \in LockClients, GetLock(c) PROVE Section!Enter(c)
  <2>1. LockInside' = LockInside \cup {c} /\ c \notin LockInside
    BY <1>2, SectionMoves
  <2>2. lkSafe' = lkSafe /\ (lkSafe => LockInside = {})
    BY <1>2 DEF GetLock, KeyGuardsSection
  <2> QED BY <2>1, <2>2 DEF Section!Enter
<1>3. ASSUME NEW c \in LockClients, LockerError(c) PROVE Section!EnterUnprotected(c)
  <2>1. LockInside' = LockInside \cup {c} /\ c \notin LockInside
    BY <1>3, SectionMoves
  <2>2. lkSafe' = FALSE
    BY <1>3 DEF LockerError
  <2> QED BY <2>1, <2>2 DEF Section!EnterUnprotected
<1>4. ASSUME NEW c \in LockClients, DelKey(c) \/ LockCrash(c)
      PROVE  Section!Leave(c) \/ Section!Breach \/ UNCHANGED Section!vars
  <2>1. LockInside' = LockInside \ {c}
    BY <1>4, SectionMoves
  <2>2. LockInside \ {c} = {} => lkSafe' = TRUE
    BY <1>4, Zenon DEF DelKey, LockCrash
  <2>3. LockInside \ {c} # {} => lkSafe' \in {lkSafe, FALSE}
    <3>1. LockInside \ {c} # {} /\ DelKey(c) => lkSafe' = (lkSafe /\ lkKey')
      BY Zenon DEF DelKey
    <3>2. LockInside \ {c} # {} /\ LockCrash(c) => lkSafe' = lkSafe
      BY Zenon DEF LockCrash
    <3>3. lkSafe \in BOOLEAN
      BY DEF LockTypeOK
    <3> QED BY <1>4, <3>1, <3>2, <3>3, Zenon
  <2>4. CASE c \in LockInside
    BY <2>1, <2>2, <2>3, <2>4, Zenon DEF Section!Leave
  <2>5. CASE c \notin LockInside /\ LockInside = {}
    <3>1. LockInside' = LockInside /\ lkSafe' = TRUE
      BY <2>1, <2>2, <2>5
    <3>2. lkSafe = TRUE
      BY <2>5 DEF KeyGuardsSection, LockTypeOK
    <3> QED BY <3>1, <3>2 DEF Section!vars
  <2>6. CASE c \notin LockInside /\ LockInside # {}
    <3>1. LockInside' = LockInside /\ lkSafe' \in {lkSafe, FALSE}
      BY <2>1, <2>3, <2>6, Zenon
    <3> QED BY <2>6, <3>1, Zenon DEF Section!vars, Section!Breach
  <2> QED BY <2>4, <2>5, <2>6
<1>5. CASE LockTick
  <2>1. LockInside' = LockInside
    BY <1>5 DEF LockTick, LockInside
  <2>2. lkSafe' = (lkSafe /\ (lkKey' \/ LockInside = {})) /\ lkSafe \in BOOLEAN
    BY <1>5, Zenon DEF LockTick, LockTypeOK
  <2>3. lkSafe' = lkSafe \/ (LockInside # {} /\ lkSafe' = FALSE)
    BY <2>2, Zenon
  <2> QED BY <2>1, <2>3 DEF Section!vars, Section!Breach, Section!Next
<1>6. CASE UNCHANGED lockVars
  BY <1>6 DEF lockVars, LockInside, Section!vars
<1> QED BY <1>1, <1>2, <1>3, <1>4, <1>5, <1>6
        DEF LockNext, LockStep, Unlock, UnLock, Section!Next

\* RedisLocker, redispool.Lock and LockWithTimeout implement the abstract lock:
\* a second client gets in only after a breach in the open, and the lock
\* excludes again once the section was empty (redis_locker.go:38-64,
\* redis_cache.go:356-410).
THEOREM LockRefines == LockSpec => LockImplementsSection
<1>1. LockInit => Section!Init
  BY DEF LockInit, LockInside, Section!Init
<1> QED BY <1>1, LockInvariant, LockStepImplements, PTL DEF LockSpec, LockImplementsSection

\* While no lease ran out under its owner, no client deleted the key of another
\* and no SETNX failed, at most one client is between Lock and Unlock.
THEOREM LockExcludes == LockSpec => [](lkSafe => \A c, d \in LockInside : c = d)
<1>1. LockInv => (lkSafe => \A c, d \in LockInside : c = d)
  BY DEF LockInv, KeyGuardsSection
<1> QED BY <1>1, LockInvariant, PTL DEF LockSpec

(***************************************************************************)
(* The worker pool serves what it accepts.                                 *)
(***************************************************************************)
CqFailed == {t \in CqTasks : cqTask[t] = "failed"}

\* Workers and errors are counted: while the queue is open no worker is
\* lost and each panic adds one, and errCount is the number of failed tasks.
CqCounts ==
  /\ IsFiniteSet(CqRunning) /\ IsFiniteSet(CqFailed)
  /\ cqErr = Cardinality(CqFailed)
  /\ ~cqClosed /\ ~cqDone => cqIdle + Cardinality(CqRunning) = CqWorkerCount + cqPanics

\* The channel holds the accepted tasks that wait, each once.
CqChannel ==
  /\ \A i \in 1..Len(cqQueue) : cqTask[cqQueue[i]] = "queued"
  /\ \A i, j \in 1..Len(cqQueue) : cqQueue[i] = cqQueue[j] => i = j
  /\ \A t \in CqTasks : cqTask[t] = "queued" => \E i \in 1..Len(cqQueue) : cqQueue[i] = t

CqReturned == \E s \in CqStoppers : cqStop[s] = "returned"

\* The last worker leaves an empty channel unless the caller cancelled, and
\* nothing starts again after a StopAndWait.
CqDrain ==
  /\ \A s \in CqStoppers : cqStop[s] # "none" => cqClosed
  /\ CqReturned => cqIdle = 0 /\ CqRunning = {}
  /\ CqReturned /\ cqOwnCtx => cqQueue = << >>
  /\ cqOwnCtx /\ cqDone => CqReturned
  /\ cqOwnCtx /\ ~cqDone /\ cqIdle = 0 /\ CqRunning = {} => cqQueue = << >>

CqInv == CqTypeOK /\ CqCounts /\ CqChannel /\ CqDrain

\* The channel is a sequence of tasks within its capacity.
LEMMA CqTypeStep == CqTypeOK /\ [CqNext]_queueVars => CqTypeOK'
<1> SUFFICES ASSUME CqTypeOK, [CqNext]_queueVars PROVE CqTypeOK'
  OBVIOUS
<1> USE CqAssumption DEF CqEnded
<1>1. ASSUME NEW t \in CqTasks, Submit(t) PROVE CqTypeOK'
  BY <1>1 DEF Submit, SetTask, CqTypeOK
<1>2. ASSUME NEW t \in CqTasks, SubmitSelect(t) PROVE CqTypeOK'
  <2>1. cqTask' \in [CqTasks -> {"new", "checked", "queued", "running", "dropped",
                                 "panicked"} \cup CqEnded]
    BY <1>2 DEF SubmitSelect, SetTask, CqTypeOK
  <2>2. cqQueue' \in Seq(CqTasks) /\ Len(cqQueue') =< CqQueueSize
    <3>1. CASE UNCHANGED cqQueue
      BY <3>1 DEF CqTypeOK
    <3>2. CASE Len(cqQueue) < CqQueueSize /\ cqQueue' = Append(cqQueue, t)
      BY <3>2 DEF CqTypeOK
    <3> QED BY <1>2, <3>1, <3>2 DEF SubmitSelect
  <2> QED BY <1>2, <2>1, <2>2 DEF SubmitSelect, CqTypeOK
<1>3. ASSUME NEW t \in CqTasks, RunTask(t) PROVE CqTypeOK'
  <2>1. cqTask' \in [CqTasks -> {"new", "checked", "queued", "running", "dropped",
                                 "panicked"} \cup CqEnded]
    BY <1>3 DEF RunTask, SetTask, CqTypeOK
  <2>2. cqIdle' \in Nat /\ cqErr' \in Nat /\ cqPanics' \in Nat
    BY <1>3, SMTT(60) DEF RunTask, CqTypeOK
  <2> QED BY <1>3, <2>1, <2>2 DEF RunTask, CqTypeOK
<1>4. ASSUME NEW s \in CqStoppers, StopQueue(s) PROVE CqTypeOK'
  BY <1>4 DEF StopQueue, CqTypeOK
<1>5. ASSUME NEW s \in CqStoppers, WaitQueue(s) PROVE CqTypeOK'
  BY <1>5 DEF WaitQueue, CqTypeOK
<1>6. CASE Worker
  <2>1. CASE cqQueue # << >> /\ SetTask(Head(cqQueue), "running") /\ cqQueue' = Tail(cqQueue)
    <3>1. Head(cqQueue) \in CqTasks /\ Tail(cqQueue) \in Seq(CqTasks)
          /\ Len(Tail(cqQueue)) =< CqQueueSize
      BY <2>1, SMTT(60) DEF CqTypeOK
    <3>2. cqTask' \in [CqTasks -> {"new", "checked", "queued", "running", "dropped",
                                   "panicked"} \cup CqEnded]
      BY <2>1, <3>1, Zenon DEF SetTask, CqTypeOK
    <3> QED BY <1>6, <2>1, <3>1, <3>2, SMTT(60) DEF Worker, CqTypeOK
  <2>2. CASE UNCHANGED <<cqTask, cqQueue>>
    BY <1>6, <2>2, SMTT(60) DEF Worker, CqTypeOK
  <2> QED BY <1>6, <2>1, <2>2 DEF Worker
<1>7. CASE CancelCtx
  BY <1>7, Zenon DEF CancelCtx, CqTypeOK
<1>8. CASE UNCHANGED queueVars
  BY <1>8, Zenon DEF queueVars, CqTypeOK
<1>9. ASSUME NEW t \in CqTasks, SubmitMeetsWorker(t) PROVE CqTypeOK'
  BY <1>9, SMTT(60) DEF SubmitMeetsWorker, SetTask, CqTypeOK
<1> QED BY <1>1, <1>2, <1>3, <1>4, <1>5, <1>6, <1>7, <1>8, <1>9 DEF CqNext

\* Which tasks run and which have failed, after each step.
LEMMA CqMoves ==
  ASSUME CqTypeOK, CqChannel
  PROVE  /\ \A t \in CqTasks : Submit(t) \/ SubmitSelect(t) =>
              CqRunning' = CqRunning /\ CqFailed' = CqFailed
         /\ \A t \in CqTasks : RunTask(t) =>
              /\ t \in CqRunning /\ CqRunning' = CqRunning \ {t} /\ t \notin CqFailed
              /\ CqFailed' = IF cqTask'[t] = "failed" THEN CqFailed \cup {t} ELSE CqFailed
         /\ Worker /\ cqQueue # << >> /\ SetTask(Head(cqQueue), "running") =>
              /\ Head(cqQueue) \in CqTasks \ CqRunning
              /\ CqRunning' = CqRunning \cup {Head(cqQueue)} /\ CqFailed' = CqFailed
         /\ \A t \in CqTasks : SubmitMeetsWorker(t) =>
              t \notin CqRunning /\ CqRunning' = CqRunning \cup {t} /\ CqFailed' = CqFailed
         /\ UNCHANGED cqTask => CqRunning' = CqRunning /\ CqFailed' = CqFailed
<1>1. ASSUME NEW t \in CqTasks, Submit(t) \/ SubmitSelect(t)
      PROVE  CqRunning' = CqRunning /\ CqFailed' = CqFailed
  <2>1. PICK st \in {"dropped", "checked", "panicked", "queued"} :
          cqTask' = [cqTask EXCEPT ![t] = st]
    BY <1>1, Zenon DEF Submit, SubmitSelect, SetTask
  <2>2. cqTask[t] \in {"new", "checked"}
    BY <1>1, Zenon DEF Submit, SubmitSelect
  <2> QED BY <2>1, <2>2, Zenon DEF CqRunning, CqFailed, CqTypeOK
<1>2. ASSUME NEW t \in CqTasks, RunTask(t)
      PROVE  /\ t \in CqRunning /\ CqRunning' = CqRunning \ {t} /\ t \notin CqFailed
             /\ CqFailed' = IF cqTask'[t] = "failed" THEN CqFailed \cup {t} ELSE CqFailed
  <2>1. PICK st \in {"ok", "failed"} : cqTask' = [cqTask EXCEPT ![t] = st]
    BY <1>2, Zenon DEF RunTask, SetTask
  <2>2. cqTask[t] = "running"
    BY <1>2, Zenon DEF RunTask
  <2> QED BY <2>1, <2>2, Zenon DEF CqRunning, CqFailed, CqTypeOK
<1>3. ASSUME cqQueue # << >>, SetTask(Head(cqQueue), "running")
      PROVE  /\ Head(cqQueue) \in CqTasks \ CqRunning
             /\ CqRunning' = CqRunning \cup {Head(cqQueue)} /\ CqFailed' = CqFailed
  <2>1. Head(cqQueue) \in CqTasks /\ cqTask[Head(cqQueue)] = "queued"
    BY <1>3, SMTT(60) DEF CqTypeOK, CqChannel
  <2> QED BY <1>3, <2>1, Zenon DEF SetTask, CqRunning, CqFailed, CqTypeOK
<1>4. UNCHANGED cqTask => CqRunning' = CqRunning /\ CqFailed' = CqFailed
  BY Zenon DEF CqRunning, CqFailed
<1>5. ASSUME NEW t \in CqTasks, SubmitMeetsWorker(t)
      PROVE  t \notin CqRunning /\ CqRunning' = CqRunning \cup {t} /\ CqFailed' = CqFailed
  <2>1. cqTask[t] = "checked" /\ cqTask' = [cqTask EXCEPT ![t] = "running"]
    BY <1>5, Zenon DEF SubmitMeetsWorker, SetTask
  <2> QED BY <2>1, Zenon DEF CqRunning, CqFailed, CqTypeOK
<1> QED BY <1>1, <1>2, <1>3, <1>4, <1>5, Zenon

\* Every worker and every error is counted.
LEMMA CqCountsStep ==
  CqTypeOK /\ CqChannel /\ CqCounts /\ CqDrain /\ [CqNext]_queueVars => CqCounts'
<1> SUFFICES ASSUME CqTypeOK, CqChannel, CqCounts, CqDrain, [CqNext]_queueVars PROVE CqCounts'
  OBVIOUS
<1>0. Cardinality(CqRunning) \in Nat /\ Cardinality(CqFailed) \in Nat
  BY FS_CardinalityType, Zenon DEF CqCounts
<1>1. ASSUME NEW t \in CqTasks, Submit(t) \/ SubmitSelect(t) PROVE CqCounts'
  <2>1. CqRunning' = CqRunning /\ CqFailed' = CqFailed
    BY <1>1, CqMoves, Zenon
  <2>2. UNCHANGED <<cqIdle, cqErr, cqPanics, cqClosed, cqDone>>
    BY <1>1, Zenon DEF Submit, SubmitSelect
  <2> QED BY <2>1, <2>2, Zenon DEF CqCounts
<1>2. ASSUME NEW t \in CqTasks, RunTask(t) PROVE CqCounts'
  <2>1. /\ t \in CqRunning /\ CqRunning' = CqRunning \ {t} /\ t \notin CqFailed
        /\ CqFailed' = IF cqTask'[t] = "failed" THEN CqFailed \cup {t} ELSE CqFailed
    BY <1>2, CqMoves
  <2>2. IsFiniteSet(CqRunning') /\ Cardinality(CqRunning') = Cardinality(CqRunning) - 1
    BY <2>1, FS_RemoveElement DEF CqCounts
  <2>3. IsFiniteSet(CqFailed \cup {t}) /\ Cardinality(CqFailed \cup {t}) = Cardinality(CqFailed) + 1
    BY <2>1, FS_AddElement DEF CqCounts
  <2>4. \/ cqTask'[t] = "ok" /\ cqErr' = cqErr
        \/ cqTask'[t] = "failed" /\ cqErr' = cqErr + 1
    BY <1>2, Zenon DEF RunTask, SetTask, CqTypeOK
  <2>5. IsFiniteSet(CqFailed') /\ cqErr' = Cardinality(CqFailed')
    BY <2>1, <2>3, <2>4, Zenon DEF CqCounts
  <2>6. \/ cqIdle' = cqIdle + 1 /\ cqPanics' = cqPanics
        \/ cqIdle' = cqIdle + 2 /\ cqPanics' = cqPanics + 1
    BY <1>2, Zenon DEF RunTask
  <2>7. cqClosed' = cqClosed /\ cqDone' = cqDone
    BY <1>2, Zenon DEF RunTask
  <2> QED BY <1>0, <2>2, <2>5, <2>6, <2>7, CqAssumption, SMTT(60) DEF CqCounts, CqTypeOK
<1>3. ASSUME NEW s \in CqStoppers, StopQueue(s) \/ WaitQueue(s) PROVE CqCounts'
  <2>1. CqRunning' = CqRunning /\ CqFailed' = CqFailed
    BY <1>3, CqMoves, Zenon DEF StopQueue, WaitQueue
  <2>2. UNCHANGED <<cqIdle, cqErr, cqPanics>> /\ (cqClosed => cqClosed')
    BY <1>3, SMTT(60) DEF StopQueue, WaitQueue
  <2>3. cqClosed'
    BY <1>3, SMTT(60) DEF StopQueue, WaitQueue, CqDrain
  <2> QED BY <2>1, <2>2, <2>3, Zenon DEF CqCounts
<1>4. CASE Worker
  <2>1. cqIdle' = cqIdle - 1 /\ UNCHANGED <<cqErr, cqPanics, cqClosed, cqDone>>
    BY <1>4, Zenon DEF Worker
  <2>2. CASE cqQueue # << >> /\ SetTask(Head(cqQueue), "running")
    <3>1. /\ Head(cqQueue) \notin CqRunning
          /\ CqRunning' = CqRunning \cup {Head(cqQueue)} /\ CqFailed' = CqFailed
      BY <1>4, <2>2, CqMoves, Zenon
    <3>2. IsFiniteSet(CqRunning') /\ Cardinality(CqRunning') = Cardinality(CqRunning) + 1
      BY <3>1, FS_AddElement, Zenon DEF CqCounts
    <3> QED BY <1>0, <2>1, <3>1, <3>2, CqAssumption, SMTT(60) DEF CqCounts, CqTypeOK
  <2>3. CASE (cqDone \/ cqClosed) /\ UNCHANGED cqTask
    <3>1. CqRunning' = CqRunning /\ CqFailed' = CqFailed
      BY <2>3, CqMoves
    <3> QED BY <1>0, <2>1, <2>3, <3>1, CqAssumption, SMTT(60) DEF CqCounts, CqTypeOK
  <2> QED BY <1>4, <2>2, <2>3, Zenon DEF Worker
<1>5. CASE CancelCtx
  <2>1. CqRunning' = CqRunning /\ CqFailed' = CqFailed
    BY <1>5, CqMoves DEF CancelCtx
  <2> QED BY <1>5, <2>1 DEF CancelCtx, CqCounts
<1>6. CASE UNCHANGED queueVars
  <2>1. CqRunning' = CqRunning /\ CqFailed' = CqFailed
    BY <1>6, CqMoves DEF queueVars
  <2> QED BY <1>6, <2>1 DEF queueVars, CqCounts
<1>7. ASSUME NEW t \in CqTasks, SubmitMeetsWorker(t) PROVE CqCounts'
  <2>1. t \notin CqRunning /\ CqRunning' = CqRunning \cup {t} /\ CqFailed' = CqFailed
    BY <1>7, CqMoves
  <2>2. IsFiniteSet(CqRunning') /\ Cardinality(CqRunning') = Cardinality(CqRunning) + 1
    BY <2>1, FS_AddElement DEF CqCounts
  <2>3. cqIdle' = cqIdle - 1 /\ UNCHANGED <<cqErr, cqPanics, cqClosed, cqDone>>
    BY <1>7 DEF SubmitMeetsWorker
  <2> QED BY <1>0, <2>1, <2>2, <2>3, CqAssumption, SMTT(60) DEF CqCounts, CqTypeOK
<1> QED BY <1>1, <1>2, <1>3, <1>4, <1>5, <1>6, <1>7, Zenon DEF CqNext

\* A task is in the channel exactly while it is "queued".
LEMMA CqChannelStep == CqTypeOK /\ CqChannel /\ [CqNext]_queueVars => CqChannel'
<1> SUFFICES ASSUME CqTypeOK, CqChannel, [CqNext]_queueVars PROVE CqChannel'
  OBVIOUS
<1>1. ASSUME NEW t \in CqTasks, NEW st, cqTask[t] # "queued", st # "queued",
             cqTask' = [cqTask EXCEPT ![t] = st], UNCHANGED cqQueue
      PROVE  CqChannel'
  BY <1>1 DEF CqChannel, CqTypeOK
<1>2. ASSUME NEW t \in CqTasks, Submit(t) PROVE CqChannel'
  BY <1>1, <1>2, Zenon DEF Submit, SetTask
<1>3. ASSUME NEW t \in CqTasks, RunTask(t) PROVE CqChannel'
  BY <1>1, <1>3 DEF RunTask, SetTask
<1>4. ASSUME NEW t \in CqTasks, SubmitSelect(t) PROVE CqChannel'
  <2>1. cqTask[t] = "checked"
    BY <1>4 DEF SubmitSelect
  <2>2. CASE SetTask(t, "dropped") /\ UNCHANGED cqQueue
    BY <1>1, <2>1, <2>2, Zenon DEF SetTask
  <2>3. CASE SetTask(t, "panicked") /\ UNCHANGED cqQueue
    BY <1>1, <2>1, <2>3, Zenon DEF SetTask
  <2>4. CASE SetTask(t, "queued") /\ cqQueue' = Append(cqQueue, t)
    <3>1. cqTask' = [cqTask EXCEPT ![t] = "queued"] /\ cqQueue \in Seq(CqTasks)
      BY <2>4 DEF SetTask, CqTypeOK
    <3>2. /\ Len(cqQueue') = Len(cqQueue) + 1 /\ Len(cqQueue) \in Nat
          /\ cqQueue'[Len(cqQueue) + 1] = t
          /\ \A i \in 1..Len(cqQueue) : cqQueue'[i] = cqQueue[i] /\ cqQueue[i] \in CqTasks
      BY <2>4, <3>1
    <3>3. \A i \in 1..Len(cqQueue) : cqQueue[i] # t
      BY <2>1 DEF CqChannel
    <3>4. \A i \in 1..Len(cqQueue') : cqTask'[cqQueue'[i]] = "queued"
      BY <3>1, <3>2 DEF CqChannel, CqTypeOK
    <3>5. \A i, j \in 1..Len(cqQueue') : cqQueue'[i] = cqQueue'[j] => i = j
      BY <3>2, <3>3 DEF CqChannel
    <3>6. \A u \in CqTasks : cqTask'[u] = "queued" => \E i \in 1..Len(cqQueue') : cqQueue'[i] = u
      BY <3>1, <3>2, SMTT(60) DEF CqChannel, CqTypeOK
    <3> QED BY <3>4, <3>5, <3>6 DEF CqChannel
  <2> QED BY <1>4, <2>2, <2>3, <2>4 DEF SubmitSelect
<1>5. CASE Worker
  <2>1. CASE cqQueue # << >> /\ SetTask(Head(cqQueue), "running") /\ cqQueue' = Tail(cqQueue)
    <3>1. cqTask' = [cqTask EXCEPT ![cqQueue[1]] = "running"] /\ cqQueue \in Seq(CqTasks)
      BY <2>1 DEF SetTask, CqTypeOK
    <3>2. /\ Len(cqQueue') = Len(cqQueue) - 1 /\ Len(cqQueue) \in Nat \ {0}
          /\ \A i \in 1..Len(cqQueue') : cqQueue'[i] = cqQueue[i + 1]
          /\ \A i \in 1..Len(cqQueue) : cqQueue[i] \in CqTasks
      BY <2>1, <3>1
    <3>3. \A i \in 1..Len(cqQueue') : cqTask'[cqQueue'[i]] = "queued"
      BY <3>1, <3>2, SMTT(60) DEF CqChannel, CqTypeOK
    <3>4. \A i, j \in 1..Len(cqQueue') : cqQueue'[i] = cqQueue'[j] => i = j
      BY <3>2, SMTT(60) DEF CqChannel
    <3>5. ASSUME NEW u \in CqTasks, cqTask'[u] = "queued"
          PROVE  \E i \in 1..Len(cqQueue') : cqQueue'[i] = u
      <4>1. u # cqQueue[1] /\ cqTask[u] = "queued"
        BY <3>1, <3>2, <3>5, Zenon DEF CqTypeOK
      <4>2. PICK i \in 1..Len(cqQueue) : cqQueue[i] = u
        BY <4>1, Zenon DEF CqChannel
      <4>3. i - 1 \in 1..Len(cqQueue') /\ cqQueue'[i - 1] = u
        BY <3>2, <4>1, <4>2, SMTT(60)
      <4> QED BY <4>3
    <3> QED BY <3>3, <3>4, <3>5 DEF CqChannel
  <2>2. CASE UNCHANGED <<cqTask, cqQueue>>
    BY <2>2, Zenon DEF CqChannel
  <2> QED BY <1>5, <2>1, <2>2, SMTT(60) DEF Worker
<1>6. CASE UNCHANGED <<cqTask, cqQueue>>
  BY <1>6, Zenon DEF CqChannel
<1>7. ASSUME NEW t \in CqTasks, SubmitMeetsWorker(t) PROVE CqChannel'
  BY <1>1, <1>7, Zenon DEF SubmitMeetsWorker, SetTask
<1> QED BY <1>2, <1>3, <1>4, <1>5, <1>6, <1>7 DEF CqNext, StopQueue, WaitQueue, CancelCtx, queueVars

\* Nobody leaves accepted tasks behind.
LEMMA CqDrainStep == CqInv /\ [CqNext]_queueVars => CqDrain'
<1> SUFFICES ASSUME CqTypeOK, CqCounts, CqChannel, CqDrain, [CqNext]_queueVars PROVE CqDrain'
  BY DEF CqInv
<1>0. Cardinality(CqRunning) \in Nat /\ (CqRunning = {} => Cardinality(CqRunning) = 0)
  BY FS_CardinalityType, FS_EmptySet DEF CqCounts
<1>1. ASSUME NEW t \in CqTasks, Submit(t) PROVE CqDrain'
  <2>1. CqRunning' = CqRunning
    BY <1>1, CqMoves
  <2>2. UNCHANGED <<cqQueue, cqIdle, cqClosed, cqOwnCtx, cqDone, cqStop>>
    BY <1>1 DEF Submit
  <2> QED BY <2>1, <2>2 DEF CqDrain, CqReturned
<1>2. ASSUME NEW t \in CqTasks, SubmitSelect(t) PROVE CqDrain'
  <2>1. CqRunning' = CqRunning
    BY <1>2, CqMoves
  <2>2. UNCHANGED <<cqIdle, cqClosed, cqOwnCtx, cqDone, cqStop>>
    BY <1>2 DEF SubmitSelect
  <2>3. CASE UNCHANGED cqQueue
    BY <2>1, <2>2, <2>3 DEF CqDrain, CqReturned
  <2>4. CASE ~cqClosed
    <3>1. ~CqReturned
      BY <2>4 DEF CqDrain, CqReturned
    <3>2. ~cqDone => cqIdle # 0 \/ CqRunning # {}
      BY <1>0, <2>4, CqAssumption DEF CqCounts, CqTypeOK
    <3> QED BY <2>1, <2>2, <3>1, <3>2 DEF CqDrain, CqReturned
  <2> QED BY <1>2, <2>3, <2>4 DEF SubmitSelect
<1>3. ASSUME NEW t \in CqTasks, RunTask(t) PROVE CqDrain'
  <2>1. t \in CqRunning
    BY <1>3, CqMoves
  <2>2. UNCHANGED <<cqQueue, cqClosed, cqOwnCtx, cqDone, cqStop>> /\ cqIdle' # 0
    BY <1>3 DEF RunTask, CqTypeOK
  <2>3. ~CqReturned
    BY <2>1 DEF CqDrain
  <2> QED BY <2>2, <2>3 DEF CqDrain, CqReturned
<1>4. ASSUME NEW s \in CqStoppers, StopQueue(s) PROVE CqDrain'
  <2>1. CqRunning' = CqRunning
    BY <1>4, CqMoves DEF StopQueue
  <2>2. CqReturned' <=> CqReturned
    BY <1>4 DEF StopQueue, CqReturned, CqTypeOK
  <2>3. cqClosed' /\ UNCHANGED <<cqQueue, cqIdle, cqOwnCtx, cqDone>>
    BY <1>4 DEF StopQueue
  <2> QED BY <2>1, <2>2, <2>3 DEF CqDrain
<1>5. ASSUME NEW s \in CqStoppers, WaitQueue(s) PROVE CqDrain'
  <2>1. CqRunning' = CqRunning
    BY <1>5, CqMoves DEF WaitQueue
  <2>2. /\ cqStop[s] = "waiting" /\ cqIdle = 0 /\ CqRunning = {}
        /\ UNCHANGED <<cqQueue, cqIdle, cqClosed, cqOwnCtx>>
    BY <1>5 DEF WaitQueue
  <2>3. cqClosed /\ CqReturned'
    BY <1>5, <2>2 DEF WaitQueue, CqDrain, CqReturned, CqTypeOK
  <2>4. cqOwnCtx => cqQueue = << >>
    BY <2>2 DEF CqDrain
  <2> QED BY <2>1, <2>2, <2>3, <2>4 DEF CqDrain
<1>6. CASE Worker
  <2>1. cqIdle > 0 /\ UNCHANGED <<cqClosed, cqOwnCtx, cqDone, cqStop>>
    BY <1>6 DEF Worker
  <2>2. ~CqReturned
    BY <2>1, SMTT(60) DEF CqDrain
  <2>3. CASE cqQueue # << >> /\ SetTask(Head(cqQueue), "running")
    <3>1. CqRunning' # {}
      BY <1>6, <2>3, CqMoves, Zenon
    <3> QED BY <2>1, <2>2, <3>1, Zenon DEF CqDrain, CqReturned
  <2>4. CASE cqDone \/ (cqClosed /\ cqQueue = << >> /\ UNCHANGED cqQueue)
    BY <2>1, <2>2, <2>4, Zenon DEF CqDrain, CqReturned
  <2> QED BY <1>6, <2>3, <2>4 DEF Worker
<1>7. CASE CancelCtx
  <2>1. CqRunning' = CqRunning
    BY <1>7, CqMoves, Zenon DEF CancelCtx
  <2> QED BY <1>7, <2>1, Zenon DEF CancelCtx, CqDrain, CqReturned
<1>8. CASE UNCHANGED queueVars
  <2>1. CqRunning' = CqRunning
    BY <1>8, CqMoves, Zenon DEF queueVars
  <2> QED BY <1>8, <2>1, Zenon DEF queueVars, CqDrain, CqReturned
<1>9. ASSUME NEW t \in CqTasks, SubmitMeetsWorker(t) PROVE CqDrain'
  <2>1. CqRunning' # {}
    BY <1>9, CqMoves, Zenon
  <2>2. ~cqClosed /\ UNCHANGED <<cqQueue, cqClosed, cqOwnCtx, cqDone, cqStop>>
    BY <1>9, Zenon DEF SubmitMeetsWorker
  <2>3. ~CqReturned
    BY <2>2 DEF CqDrain, CqReturned
  <2> QED BY <2>1, <2>2, <2>3, Zenon DEF CqDrain, CqReturned
<1> QED BY <1>1, <1>2, <1>3, <1>4, <1>5, <1>6, <1>7, <1>8, <1>9 DEF CqNext

\* A new queue satisfies the invariant.
LEMMA CqInitInv == CqInit => CqInv
<1> SUFFICES ASSUME CqInit PROVE CqInv
  BY Zenon
<1>1. CqTypeOK
  <2>1. cqClosed \in BOOLEAN /\ cqOwnCtx \in BOOLEAN /\ cqDone \in BOOLEAN
    BY Zenon DEF CqInit
  <2>2. /\ cqTask \in [CqTasks -> {"new", "checked", "queued", "running", "dropped",
                                  "panicked"} \cup CqEnded]
        /\ cqStop \in [CqStoppers -> {"none", "waiting", "returned"}]
    BY Zenon DEF CqInit
  <2>3. cqQueue \in Seq(CqTasks) /\ Len(cqQueue) =< CqQueueSize
    BY CqAssumption, SMTT(60) DEF CqInit
  <2>4. cqIdle \in Nat /\ cqErr \in Nat /\ cqPanics \in Nat
    BY CqAssumption, Zenon DEF CqInit
  <2> QED BY <2>1, <2>2, <2>3, <2>4, Zenon DEF CqTypeOK
<1>2. CqRunning = {} /\ CqFailed = {} /\ ~CqReturned
  BY Zenon DEF CqInit, CqRunning, CqFailed, CqReturned
<1>3. CqCounts
  BY <1>2, FS_EmptySet, CqAssumption, SMTT(60) DEF CqInit, CqCounts
<1>4. CqChannel /\ CqDrain
  BY <1>2, SMTT(60) DEF CqInit, CqChannel, CqDrain
<1> QED BY <1>1, <1>3, <1>4, Zenon DEF CqInv

\* The inductive invariant is kept by every step, and so holds in every
\* behaviour of the queue.
LEMMA CqInvStep == CqInv /\ [CqNext]_queueVars => CqInv'
<1> QED BY CqTypeStep, CqCountsStep, CqChannelStep, CqDrainStep, Zenon DEF CqInv

\* Every reachable state of the queue satisfies its invariant.
LEMMA CqInvariant == CqSpec => []CqInv
<1> QED BY CqInvStep, CqInitInv, PTL DEF CqSpec

\* The queue serves what it accepts: no task costs an open queue a worker, and
\* when StopAndWait has returned every accepted task has run to its end, unless
\* the caller cancelled the context, and errCount counts those that failed
\* (queue.go:79-134).
THEOREM QueueServesAlways == CqSpec => []QueueServes
<1>1. CqInv => QueueServes
  <2> SUFFICES ASSUME CqTypeOK, CqCounts, CqChannel, CqDrain PROVE QueueServes
    BY Zenon DEF CqInv
  <2>1. WorkersKept
    <3>1. Cardinality(CqRunning) \in Nat
      BY FS_CardinalityType, Zenon DEF CqCounts
    <3> QED BY <3>1, CqAssumption, SMTT(60) DEF CqCounts, WorkersKept, CqTypeOK
  <2>2. ASSUME CqReturned, cqOwnCtx, NEW t \in CqTasks PROVE cqTask[t] # "queued"
    BY <2>2, SMTT(60) DEF CqDrain, CqChannel
  <2>3. StopAndWaitDrained
    BY <2>2, Zenon DEF StopAndWaitDrained, CqDrain, CqReturned, CqCounts, CqFailed
  <2> QED BY <2>1, <2>3, Zenon DEF QueueServes
<1> QED BY <1>1, CqInvariant, PTL

(***************************************************************************)
(* Leaving the process.                                                    *)
(***************************************************************************)
LcOpen == {c \in LcClosers : lcClose[c] = "running"}

\* As long as no registration raced, the wait group counts first the closers
\* registered and then those that still run; code 0 comes after the wait.
LcCounted ==
  /\ lcMain \in {"run", "waiting", "exit", "counted"} => LcOpen = {}
  /\ lcMain = "counted" /\ ~lcRace => lcWg = Cardinality(lcList)
  /\ lcMain = "closing" /\ ~lcRace => lcWg = Cardinality(LcOpen)
  /\ lcMain = "sleep" /\ ~lcRace => LcOpen = {}
  /\ lcExit = "zero" => lcForced \/ lcMain = "sleep"

LcInv == LcTypeOK /\ LcCounted

\* Sets of closers are finite, as LcClosers is.
LEMMA LcFinite ==
  ASSUME NEW S \in SUBSET LcClosers
  PROVE  IsFiniteSet(S) /\ Cardinality(S) \in 0..Cardinality(LcClosers)
  BY LcAssumption, FS_Subset, FS_CardinalityType, SMTT(60)

\* Every step of leaving the process keeps the types.
LEMMA LcTypeStep == LcTypeOK /\ [LcNext]_lifeVars => LcTypeOK'
<1> SUFFICES ASSUME LcTypeOK, [LcNext]_lifeVars PROVE LcTypeOK'
  OBVIOUS
<1> USE DEF LcTypeOK, LcMainGo
<1>1. ASSUME NEW c \in LcClosers, AddCloser(c) PROVE LcTypeOK'
  BY <1>1, Zenon DEF AddCloser
<1>2. ASSUME NEW c \in LcClosers, AddCloserAppend(c) PROVE LcTypeOK'
  <2>1. lcRace' \in BOOLEAN
    BY <1>2, Zenon DEF AddCloserAppend
  <2>2. /\ lcList' \subseteq LcClosers
        /\ lcAdd' \in [LcClosers -> {"new", "read", "added"}]
        /\ lcSnap' \in [LcClosers -> SUBSET LcClosers]
    BY <1>2, Zenon DEF AddCloserAppend
  <2>3. UNCHANGED <<lcClose, lcMain, lcWg, lcSig, lcCh, lcExiter, lcForced, lcExit>>
    BY <1>2, Zenon DEF AddCloserAppend
  <2> QED BY <2>1, <2>2, <2>3, Zenon
<1>3. ASSUME NEW c \in LcClosers, CloserDone(c) PROVE LcTypeOK'
  <2>1. lcWg' \in 0..Cardinality(LcClosers)
    BY <1>3, LcFinite, SMTT(60) DEF CloserDone
  <2>2. lcClose' \in [LcClosers -> {"none", "running", "done"}]
        /\ lcExit' \in {"no", "zero", "timeout", "killed", "panic"}
    BY <1>3, Zenon DEF CloserDone
  <2> QED BY <1>3, <2>1, <2>2, ZenonT(60) DEF CloserDone
<1>4. ASSUME NEW x \in LcExiters, Exit(x) \/ ExitCloseCh(x) PROVE LcTypeOK'
  BY <1>4, ZenonT(60) DEF Exit, ExitCloseCh
<1>5. CASE Signal \/ WaitExit
  BY <1>5, Zenon DEF Signal, WaitExit
<1>6. CASE ExitBegin
  BY <1>6, Zenon DEF ExitBegin
<1>7. CASE ExitCount
  BY <1>7, LcFinite, SMTT(60) DEF ExitCount
<1>8. CASE ExitStartClosers
  BY <1>8, SMTT(60) DEF ExitStartClosers
<1>9. CASE ExitWait \/ ExitZero \/ ExitTimeout
  BY <1>9, SMTT(60) DEF ExitWait, ExitZero, ExitTimeout
<1>10. CASE UNCHANGED lifeVars
  BY <1>10 DEF lifeVars
<1> QED BY <1>1, <1>2, <1>3, <1>4, <1>5, <1>6, <1>7, <1>8, <1>9, <1>10, ZenonT(60) DEF LcNext, LcMainStep

\* Every step of the closers and of the main goroutine keeps the count.
LEMMA LcCountedStep == LcTypeOK /\ LcCounted /\ [LcNext]_lifeVars => LcCounted'
<1> SUFFICES ASSUME LcTypeOK, LcCounted, [LcNext]_lifeVars PROVE LcCounted'
  OBVIOUS
<1> USE DEF LcMainGo
<1>1. CASE UNCHANGED <<lcClose, lcMain, lcWg, lcList, lcRace, lcForced>>
           /\ (lcExit' = "zero" => lcExit = "zero" \/ lcMain = "sleep")
  <2>1. LcOpen' = LcOpen
    BY <1>1 DEF LcOpen
  <2> QED BY <1>1, <2>1 DEF LcCounted
<1>2. ASSUME NEW c \in LcClosers, AddCloserAppend(c) PROVE LcCounted'
  <2>1. LcOpen' = LcOpen
    BY <1>2 DEF LcOpen, AddCloserAppend
  <2>2. UNCHANGED <<lcClose, lcMain, lcWg, lcForced, lcExit>>
    BY <1>2 DEF AddCloserAppend
  <2>3. ~lcRace' => ~lcRace /\ lcMain # "counted"
    BY <1>2, Zenon DEF AddCloserAppend
  <2> QED BY <2>1, <2>2, <2>3, SMTT(60) DEF LcCounted
<1>3. ASSUME NEW c \in LcClosers, CloserDone(c) PROVE LcCounted'
  <2>1. c \in LcOpen /\ LcOpen' = LcOpen \ {c}
    BY <1>3 DEF CloserDone, LcOpen, LcTypeOK
  <2>2. IsFiniteSet(LcOpen) /\ Cardinality(LcOpen) \in Nat
        /\ Cardinality(LcOpen') = Cardinality(LcOpen) - 1
    <3>1. LcOpen \in SUBSET LcClosers
      BY DEF LcOpen
    <3> QED BY <2>1, <3>1, LcFinite, FS_RemoveElement, FS_CardinalityType
  <2>3. Cardinality(LcOpen) # 0
    BY <2>1, <2>2, FS_EmptySet
  <2>4. lcMain \in {"closing", "sleep"} /\ (lcMain = "sleep" => lcRace)
    BY <2>1 DEF LcCounted, LcTypeOK
  <2>5. lcMain = "closing" /\ ~lcRace => lcWg' = Cardinality(LcOpen')
    BY <1>3, <2>2, <2>3 DEF LcCounted, CloserDone
  <2>6. UNCHANGED <<lcMain, lcRace, lcForced>> /\ lcExit' # "zero"
    BY <1>3 DEF CloserDone
  <2> QED BY <2>4, <2>5, <2>6 DEF LcCounted
<1>4. CASE WaitExit \/ ExitBegin
  <2>1. LcOpen' = LcOpen
    BY <1>4, Zenon DEF LcOpen, WaitExit, ExitBegin
  <2> QED BY <1>4, <2>1, Zenon DEF LcCounted, WaitExit, ExitBegin
<1>5. CASE ExitCount
  <2>1. LcOpen' = LcOpen /\ lcList' = lcList
    BY <1>5 DEF LcOpen, ExitCount
  <2> QED BY <1>5, <2>1 DEF LcCounted, ExitCount
<1>6. CASE ExitStartClosers
  <2>1. LcOpen' = lcList
    BY <1>6 DEF LcOpen, ExitStartClosers, LcTypeOK
  <2> QED BY <1>6, <2>1 DEF LcCounted, ExitStartClosers
<1>7. CASE ExitWait
  <2>1. LcOpen' = LcOpen
    BY <1>7 DEF LcOpen, ExitWait
  <2>2. LcOpen \in SUBSET LcClosers
    BY DEF LcOpen
  <2>3. Cardinality(LcOpen) = 0 => LcOpen = {}
    BY <2>2, LcFinite, FS_EmptySet
  <2> QED BY <1>7, <2>1, <2>3 DEF LcCounted, ExitWait
<1>8. ASSUME NEW c \in LcClosers, AddCloser(c)
      PROVE  UNCHANGED <<lcClose, lcMain, lcWg, lcList, lcRace, lcForced, lcExit>>
  BY <1>8 DEF AddCloser
<1>9. ASSUME NEW x \in LcExiters, Exit(x) \/ ExitCloseCh(x)
      PROVE  UNCHANGED <<lcClose, lcMain, lcWg, lcList, lcRace, lcForced>>
             /\ lcExit' # "zero"
  BY <1>9 DEF Exit, ExitCloseCh
<1>10. CASE Signal \/ ExitZero \/ ExitTimeout \/ UNCHANGED lifeVars
  <2>1. UNCHANGED <<lcClose, lcMain, lcWg, lcList, lcRace, lcForced>>
        /\ (lcExit' = "zero" => lcExit = "zero" \/ lcMain = "sleep")
    BY <1>10 DEF Signal, ExitZero, ExitTimeout, lifeVars
  <2> QED BY <1>1, <2>1, SMTT(60)
<1> QED BY <1>1, <1>2, <1>3, <1>4, <1>5, <1>6, <1>7, <1>8, <1>9, <1>10, SMTT(60) DEF LcNext, LcMainStep

\* Before anything is registered the wait group counts right.
LEMMA LcInvInit == LcInit => LcInv
<1> SUFFICES ASSUME LcInit PROVE LcInv
  OBVIOUS
<1>1. 0 \in 0..Cardinality(LcClosers)
  BY LcFinite
<1>2. LcTypeOK
  BY <1>1, Zenon DEF LcInit, LcTypeOK
<1>3. LcCounted
  BY DEF LcInit, LcCounted, LcOpen
<1> QED BY <1>2, <1>3 DEF LcInv

\* Every step keeps the count.
LEMMA LcInvStep == LcInv /\ [LcNext]_lifeVars => LcInv'
  BY LcTypeStep, LcCountedStep DEF LcInv

\* With that count, exit code 0 comes after the closers.
LEMMA LcInvZero == LcInv => ZeroMeansClosed
  BY DEF LcInv, LcCounted, ZeroMeansClosed, LcOpen

(***************************************************************************)
(* The goroutines of the task services.                                    *)
(***************************************************************************)
\* The goroutines of the last Start.
RtLast == ((rtCtx - 1) * RoutineCount + 1)..(rtCtx * RoutineCount)

\* Goroutines not yet started are idle; as long as no Stop gave up and no Start
\* overlapped a Stop, only those of the last Start run, and none once a Stop
\* has seen the wait group empty.
RtQuiet ==
  /\ \A i \in Routines : i > rtCtx * RoutineCount => rtAt[i] = "none"
  /\ ~rtLoose =>
       /\ Running \subseteq RtLast
       /\ ~rtStarted => Running = {}
       /\ (\E s \in RtStoppers : rtStop[s] = "finish") => Running = {}

\* A service that was started, or that somebody stops, has a context.
RtBegun == rtStarted \/ (\E s \in RtStoppers : rtStop[s] # "idle") => rtCtx > 0

RtInv == RtTypeOK /\ RtBegun /\ RtQuiet

\* A Start begins one or two goroutines, which have numbers.
LEMMA RtCount == RtTypeOK => RoutineCount \in {1, 2} /\ Routines \subseteq Nat
  BY RtAssumption DEF RoutineCount, Routines

\* Every step keeps the types, and a started service its context.
LEMMA RtTypeStep == RtTypeOK /\ RtBegun /\ [RtNext]_routineVars => RtTypeOK' /\ RtBegun'
<1> SUFFICES ASSUME RtTypeOK, RtBegun, [RtNext]_routineVars PROVE RtTypeOK' /\ RtBegun'
  OBVIOUS
<1>0. UNCHANGED rtKind
  BY DEF RtNext, WorkerStart, ManagerStart, CheckerStart, Start, ParentDone, RoutineStep,
         WorkerStop, ManagerStop, CheckerStop, StopStep, StopBegin, StopCancel, StopDone,
         StopTimeout, StopFinish, routineVars
<1>r. Routines' = Routines /\ RoutineCount' = RoutineCount
  BY <1>0 DEF Routines, RoutineCount
<1>1. CASE Start
  <2>1. rtAt' \in [Routines -> {"none", "turn", "wait", "busy", "gone"}]
    BY <1>1 DEF Start, RtTypeOK
  <2>2. rtLoose' \in BOOLEAN
    BY <1>1 DEF Start
  <2>3. rtCtx' \in 0..RtMaxStarts
    BY <1>1, RtAssumption DEF Start, RtTypeOK
  <2>4. rtStarted' = TRUE /\ UNCHANGED <<rtKind, rtCancelled, rtSees, rtStop>>
    BY <1>1 DEF Start
  <2>5. rtCtx' > 0
    BY <1>1 DEF Start, RtTypeOK
  <2> QED BY <2>1, <2>2, <2>3, <2>4, <2>5, <1>r, SMTT(60) DEF RtTypeOK, RtBegun
<1>2. CASE ParentDone
  <2>1. rtCancelled' \subseteq 1..RtMaxStarts
    BY <1>2, RtAssumption DEF ParentDone, RtTypeOK
  <2> QED BY <1>2, <2>1, <1>r DEF ParentDone, RtTypeOK, RtBegun
<1>3. ASSUME NEW i \in Routines, RoutineStep(i) PROVE RtTypeOK' /\ RtBegun'
  <2>1. rtAt' \in [Routines -> {"none", "turn", "wait", "busy", "gone"}]
        /\ rtSees' \in [Routines -> 0..RtMaxStarts]
    <3>1. \E to \in {"none", "turn", "wait", "busy", "gone"} : rtAt' = [rtAt EXCEPT ![i] = to]
      BY <1>3, ZenonT(60)
      DEF RoutineStep, workRoutine, startHealthReportRoutine, queueSyncRoutine,
          timeoutCheckRoutine, healthCheckRoutine, TickerLoop, TurnEnds, At
    <3>2. rtSees' = rtSees \/ \E c \in {0, rtCtx} : rtSees' = [rtSees EXCEPT ![i] = c]
      BY <1>3, ZenonT(60)
      DEF RoutineStep, workRoutine, startHealthReportRoutine, queueSyncRoutine,
          timeoutCheckRoutine, healthCheckRoutine, TickerLoop, TurnEnds
    <3>3. {0, rtCtx} \subseteq 0..RtMaxStarts
      BY RtAssumption, SMTT(60) DEF RtTypeOK
    <3> QED BY <3>1, <3>2, <3>3, Zenon DEF RtTypeOK
  <2>2. UNCHANGED <<rtKind, rtStarted, rtCtx, rtCancelled, rtStop, rtLoose>>
    BY <1>3 DEF RoutineStep
  <2> QED BY <2>1, <2>2, <1>r, SMTT(60) DEF RtTypeOK, RtBegun
<1>4. ASSUME NEW s \in RtStoppers, StopStep(s) PROVE RtTypeOK' /\ RtBegun'
  <2>1. CASE StopCancel(s)
    <3>1. rtCtx \in 1..RtMaxStarts
      BY <2>1, RtAssumption DEF StopCancel, StopAt, RtTypeOK, RtBegun
    <3>2. rtCancelled' \subseteq 1..RtMaxStarts
      BY <2>1, <3>1, Zenon DEF StopCancel, RtTypeOK
    <3> QED BY <2>1, <3>1, <3>2, <1>r DEF StopCancel, StopAt, RtTypeOK, RtBegun
  <2>2. CASE StopBegin(s) \/ StopDone(s) \/ StopTimeout(s) \/ StopFinish(s)
    <3>1. rtCtx' = rtCtx /\ rtCtx > 0
      BY <2>2 DEF StopBegin, StopDone, StopTimeout, StopFinish, StopAt, RtTypeOK, RtBegun
    <3> QED BY <2>2, <3>1, <1>r, ZenonT(60) DEF StopBegin, StopDone, StopTimeout, StopFinish, StopAt,
                                    RtTypeOK, RtBegun
  <2> QED BY <1>4, <2>1, <2>2, SMTT(60) DEF StopStep
<1>5. CASE UNCHANGED routineVars
  BY <1>5, <1>r DEF routineVars, RtTypeOK, RtBegun
<1> QED BY <1>1, <1>2, <1>3, <1>4, <1>5, SMTT(60)
       DEF RtNext, WorkerStart, ManagerStart, CheckerStart, WorkerStop, ManagerStop, CheckerStop

\* A step of a goroutine moves one that runs, and starts none.
LEMMA RtRoutineStep ==
  ASSUME RtTypeOK, NEW i \in Routines, RoutineStep(i)
  PROVE  /\ UNCHANGED <<rtKind, rtStarted, rtCtx, rtStop, rtLoose>>
         /\ rtAt[i] # "none" /\ \A j \in Routines \ {i} : rtAt'[j] = rtAt[j]
         /\ Running' \subseteq Running
<1>1. UNCHANGED <<rtKind, rtStarted, rtCtx, rtStop, rtLoose>>
  BY SMTT(60) DEF RoutineStep
<1>2. PICK to : At(i, "turn", to) \/ At(i, "wait", to) \/ At(i, "busy", to)
  BY DEF RoutineStep, workRoutine, startHealthReportRoutine, queueSyncRoutine,
         timeoutCheckRoutine, healthCheckRoutine, TickerLoop, TurnEnds
<1>3. rtAt[i] \in {"turn", "wait", "busy"} /\ rtAt' = [rtAt EXCEPT ![i] = to]
  BY <1>2 DEF At
<1>4. Routines' = Routines
  BY <1>1 DEF Routines, RoutineCount
<1> QED BY <1>1, <1>3, <1>4 DEF Running, RtTypeOK

\* Every step keeps the goroutines of earlier Starts and of a finished Stop gone.
LEMMA RtQuietStep ==
  RtTypeOK /\ RtBegun /\ RtQuiet /\ [RtNext]_routineVars => RtQuiet'
<1> SUFFICES ASSUME RtTypeOK, RtBegun, RtQuiet, [RtNext]_routineVars PROVE RtQuiet'
  OBVIOUS
<1>0. RoutineCount \in {1, 2} /\ Routines \subseteq Nat /\ rtCtx \in Nat
  BY RtCount, RtAssumption DEF RtTypeOK
<1>1. CASE Start
  <2>1. Routines' = Routines /\ RoutineCount' = RoutineCount /\ rtCtx' = rtCtx + 1
        /\ rtStarted' /\ rtStop' = rtStop
    BY <1>1 DEF Start, Routines, RoutineCount
  <2>2. /\ rtCtx' * RoutineCount' = rtCtx * RoutineCount + RoutineCount
        /\ (rtCtx' - 1) * RoutineCount' = rtCtx * RoutineCount
        /\ rtCtx * RoutineCount \in Nat
    BY <1>0, <2>1
  <2>3. \A i \in Routines : i > rtCtx * RoutineCount + RoutineCount => rtAt'[i] = "none"
    BY <1>0, <1>1, <2>2, SMTT(60) DEF Start, RtQuiet
  <2>4. \A i \in Routines : i \notin RtLast' => rtAt'[i] = rtAt[i]
    BY <1>0, <1>1, <2>1, <2>2, SMTT(60) DEF Start, RtLast
  <2>5. ASSUME ~rtLoose'
        PROVE  Running' \subseteq RtLast' /\ ~(\E s \in RtStoppers : rtStop'[s] = "finish")
    <3>1. ~rtLoose /\ \A s \in RtStoppers : rtStop[s] = "idle"
      BY <1>1, <2>5, Zenon DEF Start
    <3>2. Running = {}
      BY <1>1, <3>1, SMTT(60) DEF Start, RtQuiet
    <3> QED BY <2>1, <2>4, <3>1, <3>2 DEF Running
  <2> QED BY <2>1, <2>2, <2>3, <2>5, SMTT(60) DEF RtQuiet
<1>2. ASSUME UNCHANGED <<rtKind, rtCtx>>,
             \A i \in Routines : rtAt[i] = "none" => rtAt'[i] = "none",
             Running' \subseteq Running,
             ~rtLoose' => /\ ~rtLoose
                          /\ ~rtStarted' => Running = {}
                          /\ (\E s \in RtStoppers : rtStop'[s] = "finish") => Running = {}
      PROVE  RtQuiet'
  <2>1. Routines' = Routines /\ RoutineCount' = RoutineCount /\ RtLast' = RtLast
    BY <1>2, SMTT(60) DEF Routines, RoutineCount, RtLast
  <2> QED BY <1>2, <2>1 DEF RtQuiet
<1>3. ASSUME NEW i \in Routines, RoutineStep(i) PROVE RtQuiet'
  BY <1>2, <1>3, RtRoutineStep DEF RtQuiet
<1>4. ASSUME UNCHANGED <<rtKind, rtCtx, rtAt>>
      PROVE  Running' = Running /\ \A i \in Routines : rtAt[i] = "none" => rtAt'[i] = "none"
  BY <1>4, SMTT(60) DEF Running, Routines, RoutineCount
<1>5. CASE ParentDone \/ UNCHANGED routineVars
  <2>1. UNCHANGED <<rtKind, rtCtx, rtAt, rtLoose, rtStarted, rtStop>>
    BY <1>5 DEF ParentDone, routineVars
  <2> QED BY <1>2, <1>4, <2>1 DEF RtQuiet
<1>6. ASSUME NEW s \in RtStoppers, StopStep(s) PROVE RtQuiet'
  <2>1. UNCHANGED <<rtKind, rtCtx, rtAt>>
    BY <1>6, SMTT(60) DEF StopStep, StopBegin, StopCancel, StopDone, StopTimeout, StopFinish
  <2>2. CASE StopBegin(s) \/ StopCancel(s)
    <3>1. UNCHANGED <<rtLoose, rtStarted>>
          /\ \A u \in RtStoppers : rtStop'[u] = "finish" => rtStop[u] = "finish"
      BY <2>2 DEF StopBegin, StopCancel, StopAt, RtTypeOK
    <3> QED BY <1>2, <1>4, <2>1, <3>1, ZenonT(60) DEF RtQuiet
  <2>3. CASE StopDone(s)
    <3>1. UNCHANGED <<rtLoose, rtStarted>> /\ Running = {}
      BY <2>3 DEF StopDone
    <3> QED BY <1>2, <1>4, <2>1, <3>1
  <2>4. CASE StopTimeout(s)
    <3>1. rtLoose'
      BY <2>4, SMTT(60) DEF StopTimeout
    <3> QED BY <1>2, <1>4, <2>1, <3>1
  <2>5. CASE StopFinish(s)
    <3>1. rtLoose' = rtLoose /\ rtStop[s] = "finish"
      BY <2>5, Zenon DEF StopFinish, StopAt
    <3>2. ~rtLoose => Running = {}
      BY <3>1 DEF RtQuiet
    <3> QED BY <1>2, <1>4, <2>1, <3>1, <3>2
  <2> QED BY <1>6, <2>2, <2>3, <2>4, <2>5, SMTT(60) DEF StopStep
<1> QED BY <1>1, <1>3, <1>5, <1>6
       DEF RtNext, WorkerStart, ManagerStart, CheckerStart, WorkerStop, ManagerStop, CheckerStop

\* Before the first Start nothing runs.
LEMMA RtInvInit == RtInit => RtInv
<1> SUFFICES ASSUME RtInit PROVE RtInv
  OBVIOUS
<1>1. RtTypeOK
  <2>1. 0 \in 0..RtMaxStarts
    BY RtAssumption, SMTT(60)
  <2>2. rtAt \in [Routines -> {"none", "turn", "wait", "busy", "gone"}]
    BY Zenon DEF RtInit
  <2>3. rtSees \in [Routines -> 0..RtMaxStarts]
    BY <2>1, Zenon DEF RtInit
  <2>4. /\ rtKind \in {"worker", "manager", "checker"} /\ rtStarted \in BOOLEAN
        /\ rtLoose \in BOOLEAN /\ rtCancelled \subseteq 1..RtMaxStarts
        /\ rtStop \in [RtStoppers -> {"idle", "cancel", "wait", "finish"}]
    BY Zenon DEF RtInit
  <2> QED BY <2>1, <2>2, <2>3, <2>4, Zenon DEF RtInit, RtTypeOK
<1>2. RtBegun
  <2>1. ~rtStarted /\ \A s \in RtStoppers : rtStop[s] = "idle"
    BY DEF RtInit
  <2> QED BY <2>1 DEF RtBegun
<1>3. RtQuiet
  BY DEF RtInit, RtQuiet, Running
<1> QED BY <1>1, <1>2, <1>3, Zenon DEF RtInv

\* Every step of Start, Stop and the goroutines keeps the invariant.
LEMMA RtInvStep == RtInv /\ [RtNext]_routineVars => RtInv'
  BY RtTypeStep, RtQuietStep DEF RtInv

\* With that invariant a stopped service has no goroutine left.
LEMMA RtInvStopped == RtInv => RoutinesStopped
<1> SUFFICES ASSUME RtInv, ~rtLoose
             PROVE  Cardinality(Running) =< RoutineCount /\ (~rtStarted => Running = {})
  BY DEF RoutinesStopped
<1>1. RoutineCount \in {1, 2} /\ rtCtx \in Nat
  BY RtCount, RtAssumption DEF RtInv, RtTypeOK
<1>2. /\ rtCtx * RoutineCount \in Int /\ (rtCtx - 1) * RoutineCount + 1 \in Int
      /\ rtCtx * RoutineCount - ((rtCtx - 1) * RoutineCount + 1) + 1 = RoutineCount
  BY <1>1
<1>3. IsFiniteSet(RtLast) /\ Cardinality(RtLast) = RoutineCount
  BY <1>1, <1>2, FS_Interval DEF RtLast
<1>4. Running \in SUBSET RtLast
  BY DEF RtInv, RtQuiet
<1>5. Cardinality(Running) =< RoutineCount
  BY <1>3, <1>4, FS_Subset
<1> QED BY <1>5 DEF RtInv, RtQuiet
=============================================================================
