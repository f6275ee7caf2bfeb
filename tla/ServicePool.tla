----------------------------- MODULE ServicePool -----------------------------
(***************************************************************************)
(* A pool of service slots kept in a Redis sorted set (pool/redis.go) and  *)
(* its users (pool/svrpool/pool.go).  The score of a member is the time at *)
(* which it is free again, 0 for one that was given back.  Every process   *)
(* has its own RedisPool and ServicePool objects and shares the sorted set *)
(* and the setting with the others.                                        *)
(***************************************************************************)
EXTENDS Integers, FiniteSets

CONSTANTS PoolProcs,     \* processes
          PoolConfs,     \* possible settings: [service name -> capacity]
          PoolExpire,    \* ServicePoolConfig.Expire, in ticks
          RetryTimes,    \* the argument of AcquireService
          PoolMaxTime,   \* bound on the clock
          PoolMaxFaults  \* bound on failing commands and crashes

ASSUME PoolAssumption ==
  /\ PoolExpire \in Nat /\ RetryTimes \in Nat
  /\ PoolMaxTime \in Nat /\ PoolMaxFaults \in Nat

VARIABLES plZset,    \* the sorted set: [member -> score]
          plNow,     \* the clock
          plSetting, \* the setting row
          plLock,    \* the key <rdsKey>_lock exists
          plPc,      \* where each process is
          plConf,    \* RedisPool.conf, as its set of members
          plSvrConf, \* ServicePool.conf
          plAt,      \* the local now of Acquire
          plHand,    \* the member and score in the hands of a process
          plTries,   \* calls of AcquireString left in Retry
          plFaults,  \* failures left
          plKnown,   \* history: members that must be somewhere
          plTaint    \* history: members whose score was reset while in use

poolVars == <<plZset, plNow, plSetting, plLock, plPc, plConf, plSvrConf, plAt,
              plHand, plTries, plFaults, plKnown, plTaint>>

Nobody == [m |-> <<0, "">>, s |-> 0]

generateMembers(conf) ==
  UNION {{<<i, name>> : i \in 1..conf[name]} : name \in DOMAIN conf}

diff(source, target) == source \ target

AllMembers == UNION {generateMembers(c) : c \in PoolConfs}

Refreshing == {"lock", "add", "rem", "unlock", "defer"}
Popped(p, m) == plPc[p] \in {"back", "grant"} /\ plHand[p].m = m
Holds(p, m) == plPc[p] \in {"hold", "score", "put"} /\ plHand[p].m = m
InUse(m) == \E p \in PoolProcs :
  Popped(p, m) \/ (Holds(p, m) /\ plHand[p].s > plNow)

PoolTypeOK ==
  /\ DOMAIN plZset \subseteq AllMembers
  /\ \A m \in DOMAIN plZset : plZset[m] \in 0..(PoolMaxTime + PoolExpire)
  /\ plNow \in 1..PoolMaxTime /\ plSetting \in PoolConfs /\ plLock \in BOOLEAN
  /\ plPc \in [PoolProcs -> Refreshing \cup {"new", "nil", "idle", "pop", "back",
                 "grant", "hold", "score", "put", "dead"}]
  /\ plConf \in [PoolProcs -> SUBSET AllMembers]
  /\ plTries \in [PoolProcs -> 0..RetryTimes]
  /\ plFaults \in 0..PoolMaxFaults
  /\ plKnown \subseteq AllMembers /\ plTaint \subseteq AllMembers

PoolInit ==
  /\ plZset = << >> /\ plNow = 1 /\ plLock = FALSE
  /\ plSetting = CHOOSE c \in PoolConfs : TRUE
  /\ plPc = [p \in PoolProcs |-> "new"]
  /\ plConf = [p \in PoolProcs |-> {}]
  /\ plSvrConf = [p \in PoolProcs |-> plSetting]
  /\ plAt = [p \in PoolProcs |-> 0]
  /\ plHand = [p \in PoolProcs |-> Nobody]
  /\ plTries = [p \in PoolProcs |-> 0]
  /\ plFaults = PoolMaxFaults /\ plKnown = {} /\ plTaint = {}

PoolGoto(p, pc) == plPc' = [plPc EXCEPT ![p] = pc]
Fault == plFaults > 0 /\ plFaults' = plFaults - 1
ZAdd(ms, s) == plZset' = [m \in ms \cup DOMAIN plZset |-> IF m \in ms THEN s ELSE plZset[m]]
ZRem(ms) == plZset' = [m \in DOMAIN plZset \ ms |-> plZset[m]]

\* NewServicePool loads the setting and refreshes an empty
\* RedisPool; when the setting cannot be read the registered pool is nil.
NewServicePool(p) ==
  /\ plPc[p] = "new"
  /\ plConf' = [plConf EXCEPT ![p] = {}]
  /\ \/ /\ PoolGoto(p, "lock") /\ UNCHANGED plFaults
        /\ plSvrConf' = [plSvrConf EXCEPT ![p] = plSetting]
     \/ PoolGoto(p, "nil") /\ Fault /\ UNCHANGED plSvrConf
  /\ UNCHANGED <<plZset, plNow, plSetting, plLock, plAt, plHand, plTries, plKnown, plTaint>>

\* A key is registered once in the life of a process; the goroutine that is
\* started with it takes the steps of refreshSetting.
RegistryServicePool(p) == NewServicePool(p)

\* refreshSetting, every five minutes: a changed setting is handed to
\* RefreshConfig, and is remembered whether or not that works.
refreshSetting(p) ==
  /\ plPc[p] = "idle" /\ plSvrConf[p] # plSetting
  /\ plSvrConf' = [plSvrConf EXCEPT ![p] = plSetting]
  /\ PoolGoto(p, "lock")
  /\ UNCHANGED <<plZset, plNow, plSetting, plLock, plConf, plAt, plHand, plTries,
                 plFaults, plKnown, plTaint>>

\* The refresh of a nil ServicePool panics in a goroutine of its own, which
\* ends the process; a failing NewRedisPool panics too.
RefreshPanics(p) ==
  /\ plPc[p] = "nil"
  /\ PoolGoto(p, "dead")
  /\ UNCHANGED <<plZset, plNow, plSetting, plLock, plConf, plSvrConf, plAt, plHand,
                 plTries, plFaults, plKnown, plTaint>>

\* RefreshConfig: redispool.Lock gets the lock, or gives up and fails.
RefreshLock(p) ==
  /\ plPc[p] = "lock"
  /\ \/ ~plLock /\ plLock' = TRUE /\ PoolGoto(p, "add")
     \/ plLock /\ UNCHANGED plLock
        /\ PoolGoto(p, IF plConf[p] = {} THEN "dead" ELSE "idle")
  /\ UNCHANGED <<plZset, plNow, plSetting, plConf, plSvrConf, plAt, plHand, plTries,
                 plFaults, plKnown, plTaint>>

\* A command of RefreshConfig for the members ms was executed.  Its answer may be
\* lost, and RefreshConfig then returns the error.
Answered(p, pc, ms) ==
  \/ PoolGoto(p, pc) /\ UNCHANGED plFaults
  \/ ms # {} /\ Fault /\ PoolGoto(p, "defer")

\* ... ZADD of the new members with score 0, whatever score they have,
RefreshAdd(p) ==
  LET toAdd == diff(generateMembers(plSvrConf[p]), plConf[p]) IN
  /\ plPc[p] = "add"
  /\ \/ /\ ZAdd(toAdd, 0)
        /\ plKnown' = plKnown \cup toAdd
        /\ plTaint' = plTaint \cup {m \in toAdd : InUse(m)}
        /\ Answered(p, "rem", toAdd)
     \/ /\ toAdd # {} /\ Fault /\ PoolGoto(p, "defer") /\ UNCHANGED <<plZset, plKnown, plTaint>>
  /\ UNCHANGED <<plNow, plSetting, plLock, plConf, plSvrConf, plAt, plHand, plTries>>

\* ... ZREM of those that are no longer configured,
RefreshRemove(p) ==
  LET toRemove == diff(plConf[p], generateMembers(plSvrConf[p])) IN
  /\ plPc[p] = "rem"
  /\ \/ ZRem(toRemove) /\ plKnown' = plKnown \ toRemove
        /\ Answered(p, "unlock", toRemove)
     \/ toRemove # {} /\ Fault /\ PoolGoto(p, "defer") /\ UNCHANGED <<plZset, plKnown>>
  /\ UNCHANGED <<plNow, plSetting, plLock, plConf, plSvrConf, plAt, plHand, plTries, plTaint>>

\* ... UnLock and the new configuration, and then the deferred UnLock.
RefreshUnlock(p) ==
  /\ plPc[p] \in {"unlock", "defer"}
  /\ plLock' = FALSE
  /\ IF plPc[p] = "unlock"
     THEN PoolGoto(p, "defer") /\ plConf' = [plConf EXCEPT ![p] = generateMembers(plSvrConf[p])]
     ELSE PoolGoto(p, IF plConf[p] = {} THEN "dead" ELSE "idle") /\ UNCHANGED plConf
  /\ UNCHANGED <<plZset, plNow, plSetting, plSvrConf, plAt, plHand, plTries, plFaults,
                 plKnown, plTaint>>

\* AcquireService starts Retry; with retryTimes 0 it returns at once, with no
\* service and no error.
AcquireService(p) ==
  /\ plPc[p] = "idle" /\ RetryTimes > 0
  /\ plTries' = [plTries EXCEPT ![p] = RetryTimes]
  /\ plAt' = [plAt EXCEPT ![p] = plNow]
  /\ PoolGoto(p, "pop")
  /\ UNCHANGED <<plZset, plNow, plSetting, plLock, plConf, plSvrConf, plHand, plFaults,
                 plKnown, plTaint>>

\* The end of one failed call of Acquire: Retry calls again or gives up.
AcquireFails(p) ==
  /\ plTries' = [plTries EXCEPT ![p] = @ - 1]
  /\ plAt' = [plAt EXCEPT ![p] = IF plTries[p] > 1 THEN plNow ELSE 0]
  /\ plHand' = [plHand EXCEPT ![p] = Nobody]
  /\ PoolGoto(p, IF plTries[p] > 1 THEN "pop" ELSE "idle")

\* The end of a successful one.
Granted(p) ==
  /\ plTries' = [plTries EXCEPT ![p] = 0] /\ plAt' = [plAt EXCEPT ![p] = 0]
  /\ UNCHANGED plHand

\* The end of a use, with or without success: the caller forgets the member.
Forget(p) == PoolGoto(p, "idle") /\ plHand' = [plHand EXCEPT ![p] = Nobody]

\* ZPOPMIN takes the member m.
PopMin(m) ==
  /\ m \in DOMAIN plZset /\ \A n \in DOMAIN plZset : plZset[m] =< plZset[n]
  /\ ZRem({m})

\* The member m is in the hands of p, to be stored with score s.
Take(p, m, s, pc) ==
  /\ plHand' = [plHand EXCEPT ![p] = [m |-> m, s |-> s]]
  /\ PoolGoto(p, pc) /\ UNCHANGED <<plTries, plAt>>

\* ZPOPMIN brings nothing: the sorted set is empty, the command fails, or it is
\* executed and the answer is lost, and with it the member.
PopFails(p) ==
  /\ AcquireFails(p)
  /\ \/ DOMAIN plZset = {} /\ UNCHANGED <<plZset, plKnown, plFaults>>
     \/ Fault /\ UNCHANGED <<plZset, plKnown>>
     \/ Fault /\ \E m \in AllMembers : PopMin(m) /\ plKnown' = plKnown \ {m}

\* Mutant: the score is not looked at.
AcquireNoCheck(p) ==
  /\ plPc[p] = "pop"
  /\ \/ PopFails(p)
     \/ /\ \E m \in AllMembers : PopMin(m) /\ Take(p, m, plAt[p] + PoolExpire, "grant")
        /\ UNCHANGED <<plFaults, plKnown>>
  /\ UNCHANGED <<plNow, plSetting, plLock, plConf, plSvrConf, plTaint>>

\* Acquire: ZPOPMIN, and a look at the score with the time read before it.
Acquire(p) ==
  /\ plPc[p] = "pop"
  /\ \/ PopFails(p)
     \/ /\ \E m \in AllMembers :
             /\ PopMin(m)
             /\ IF plZset[m] > plAt[p] THEN Take(p, m, plZset[m], "back")
                                       ELSE Take(p, m, plAt[p] + PoolExpire, "grant")
        /\ UNCHANGED <<plFaults, plKnown>>
  /\ UNCHANGED <<plNow, plSetting, plLock, plConf, plSvrConf, plTaint>>

\* The second command of Acquire: ZADD of the member, with its old score when
\* it is not free and with the end of the new lease when it is.  It may fail, with
\* or without having been executed.
AcquirePut(p) ==
  /\ plPc[p] \in {"back", "grant"}
  /\ \/ /\ ZAdd({plHand[p].m}, plHand[p].s) /\ UNCHANGED plKnown
        /\ \/ plPc[p] = "grant" /\ PoolGoto(p, "hold") /\ Granted(p) /\ UNCHANGED plFaults
           \/ plPc[p] = "grant" /\ AcquireFails(p) /\ Fault
           \/ plPc[p] = "back" /\ AcquireFails(p) /\ UNCHANGED plFaults
     \/ /\ Fault /\ plKnown' = plKnown \ {plHand[p].m}
        /\ AcquireFails(p) /\ UNCHANGED plZset
  /\ UNCHANGED <<plNow, plSetting, plLock, plConf, plSvrConf, plTaint>>

\* Release: ZSCORE under WATCH, either of which may fail ...
ReleaseScore(p) ==
  LET m == plHand[p].m IN
  /\ plPc[p] = "hold"
  /\ \/ IF m \in DOMAIN plZset /\ plZset[m] = plHand[p].s
        THEN PoolGoto(p, "put") /\ UNCHANGED <<plHand, plFaults>>
        ELSE Forget(p) /\ UNCHANGED plFaults
     \/ Forget(p) /\ Fault
  /\ UNCHANGED <<plZset, plNow, plSetting, plLock, plConf, plSvrConf, plAt, plTries,
                 plKnown, plTaint>>

\* ... and ZADD 0 through Pipelined, which sends no MULTI and no EXEC: what
\* happened to the member since ZSCORE does not matter.  The caller forgets the
\* member whether ZADD works or not; an answer that is lost changes nothing.
ReleasePut(p) ==
  LET m == plHand[p].m IN
  /\ plPc[p] = "put" /\ Forget(p)
  /\ \/ /\ ZAdd({m}, 0) /\ UNCHANGED plFaults
        /\ plTaint' = IF \E q \in PoolProcs \ {p} : Holds(q, m) \/ Popped(q, m)
                      THEN plTaint \cup {m} ELSE plTaint
     \/ Fault /\ UNCHANGED <<plZset, plTaint>>
  /\ UNCHANGED <<plNow, plSetting, plLock, plConf, plSvrConf, plAt, plTries, plKnown>>

\* ReleaseString decodes "1_name" as JSON, which fails before anything is sent.
ReleaseString(p) ==
  /\ plPc[p] = "hold"
  /\ Forget(p)
  /\ UNCHANGED <<plZset, plNow, plSetting, plLock, plConf, plSvrConf, plAt, plTries,
                 plFaults, plKnown, plTaint>>

\* ReleaseService reports nothing: the holder forgets the service.
ReleaseService(p) == ReleaseString(p)

\* Clear drops every member; a failure is not looked at and changes nothing.
Clear(p) ==
  /\ plPc[p] = "idle"
  /\ ZRem(DOMAIN plZset)
  /\ plKnown' = {m \in plKnown : \E q \in PoolProcs : Popped(q, m)}
  /\ UNCHANGED <<plNow, plSetting, plLock, plPc, plConf, plSvrConf, plAt, plHand, plTries,
                 plFaults, plTaint>>

\* External: a process dies, with what it has popped; it may be started again.
PoolCrash(p) ==
  /\ plPc[p] \notin {"new", "dead"} /\ Fault
  /\ PoolGoto(p, "dead")
  /\ plKnown' = IF plPc[p] \in {"back", "grant"} THEN plKnown \ {plHand[p].m} ELSE plKnown
  /\ plHand' = [plHand EXCEPT ![p] = Nobody] /\ plAt' = [plAt EXCEPT ![p] = 0]
  /\ plTries' = [plTries EXCEPT ![p] = 0]
  /\ UNCHANGED <<plZset, plNow, plSetting, plLock, plConf, plSvrConf, plTaint>>

PoolRestart(p) ==
  /\ plPc[p] = "dead"
  /\ PoolGoto(p, "new")
  /\ UNCHANGED <<plZset, plNow, plSetting, plLock, plConf, plSvrConf, plAt, plHand,
                 plTries, plFaults, plKnown, plTaint>>

\* External: time, the expiry of the lock key, and an edit of the setting.
PoolEnvironment ==
  /\ \/ plNow < PoolMaxTime /\ plNow' = plNow + 1 /\ UNCHANGED <<plLock, plSetting, plFaults>>
     \/ plLock /\ plLock' = FALSE /\ UNCHANGED <<plNow, plSetting>>
        /\ IF \E p \in PoolProcs : plPc[p] \in Refreshing \ {"lock"}
           THEN Fault ELSE UNCHANGED plFaults
     \/ plSetting' \in PoolConfs \ {plSetting} /\ Fault /\ UNCHANGED <<plNow, plLock>>
  /\ UNCHANGED <<plZset, plPc, plConf, plSvrConf, plAt, plHand, plTries, plKnown, plTaint>>

PoolStep(p) ==
  \/ RegistryServicePool(p) \/ refreshSetting(p) \/ RefreshPanics(p)
  \/ RefreshLock(p) \/ RefreshAdd(p) \/ RefreshRemove(p) \/ RefreshUnlock(p)
  \/ AcquireService(p) \/ Acquire(p) \/ AcquirePut(p)
  \/ ReleaseScore(p) \/ ReleasePut(p) \/ ReleaseService(p) \/ Clear(p)
  \/ PoolCrash(p) \/ PoolRestart(p)

PoolNext == PoolEnvironment \/ \E p \in PoolProcs : PoolStep(p)

PoolSpec == PoolInit /\ [][PoolNext]_poolVars

\* Two processes have the same member with leases that still run only if its
\* score was reset while it was in use: by a process that starts and adds every
\* member with score 0 (redis.go:189), or by a Release whose lease ran out
\* between ZSCORE and ZADD (redis.go:106).  Acquire alone never does it.
PoolExclusive ==
  \A p, q \in PoolProcs : \A m \in AllMembers :
    /\ p # q /\ Holds(p, m) /\ Holds(q, m)
    /\ plHand[p].s > plNow /\ plHand[q].s > plNow
    => m \in plTaint

\* Every member that was added and not removed on purpose is in the sorted set
\* or on its way back to it, unless the process that popped it died, its ZADD
\* failed (redis.go:69 and 79) or the answer of ZPOPMIN did not reach it
\* (redis.go:55-59): what is busy, free, expired or given back is never forgotten.
PoolNothingLost ==
  \A m \in plKnown : m \in DOMAIN plZset \/ \E p \in PoolProcs : Popped(p, m)

\* The pool is sound: it lends no member twice on its own (PoolExclusive), and
\* it forgets none (PoolNothingLost).
PoolSound == PoolExclusive /\ PoolNothingLost
=============================================================================
