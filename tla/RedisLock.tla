------------------------------ MODULE RedisLock ------------------------------
(***************************************************************************)
(* The locks on one Redis key: RedisLocker of mutex/redis_locker.go, which *)
(* tries for ever, and Lock, LockWithTimeout and UnLock of                 *)
(* dbtools/redispool/redis_cache.go, which give up.  A lock is the key     *)
(* itself: SETNX with a time to live takes it, DEL gives it back, whoever  *)
(* sends it.  RefreshConfig of pool/redis.go sends the DEL twice.          *)
(***************************************************************************)
EXTENDS Integers

CONSTANTS LockClients,  \* goroutines that use the lock
          Patient,      \* those that call RedisLocker.Lock: no limit of tries
          TimeLimited,  \* those that call LockWithTimeout
          DoubleUnlock, \* those that unlock twice, as RefreshConfig does
          MaxTries,     \* tries of redispool.Lock (100 in the code)
          LockTtl,      \* the time to live given to SETNX, in ticks
          LockFaults    \* bound on failing commands and crashes

ASSUME LockAssumption ==
  /\ Patient \subseteq LockClients /\ DoubleUnlock \subseteq LockClients
  /\ TimeLimited \subseteq LockClients \ Patient
  /\ MaxTries \in Nat \ {0} /\ LockTtl \in Nat \ {0} /\ LockFaults \in Nat

VARIABLES lkKey,    \* TRUE while the key exists
          lkTtl,    \* ticks until it expires; 0 for a key without time to live
          lkPc,     \* where each client is
          lkTries,  \* failed tries of the call in progress
          lkFaults, \* failures left
          lkSafe    \* history: no breach since the section was last empty

lockVars == <<lkKey, lkTtl, lkPc, lkTries, lkFaults, lkSafe>>

LockInside == {c \in LockClients : lkPc[c] = "inside"}

LockTypeOK ==
  /\ lkKey \in BOOLEAN /\ lkSafe \in BOOLEAN
  /\ lkTtl \in 0..LockTtl /\ (~lkKey => lkTtl = 0)
  /\ lkPc \in [LockClients -> {"idle", "trying", "inside", "again", "dead"}]
  /\ lkTries \in [LockClients -> 0..MaxTries]
  /\ lkFaults \in 0..LockFaults

LockInit ==
  /\ lkKey = FALSE /\ lkTtl = 0 /\ lkSafe = TRUE /\ lkFaults = LockFaults
  /\ lkPc = [c \in LockClients |-> "idle"]
  /\ lkTries = [c \in LockClients |-> 0]

LockStart(c) ==
  /\ lkPc[c] = "idle"
  /\ lkPc' = [lkPc EXCEPT ![c] = "trying"]
  /\ lkTries' = [lkTries EXCEPT ![c] = 0]
  /\ UNCHANGED <<lkKey, lkTtl, lkFaults, lkSafe>>

GetLockOverwrites(c) ==
  /\ lkPc[c] = "trying"
  /\ lkKey' = TRUE /\ lkTtl' = LockTtl
  /\ lkPc' = [lkPc EXCEPT ![c] = "inside"]
  /\ UNCHANGED <<lkTries, lkFaults, lkSafe>>

GetLockNoTtl(c) ==
  /\ lkPc[c] = "trying" /\ ~lkKey
  /\ lkKey' = TRUE /\ lkTtl' = 0
  /\ lkPc' = [lkPc EXCEPT ![c] = "inside"]
  /\ UNCHANGED <<lkTries, lkFaults, lkSafe>>

\* SETNX key 1 with its time to live, one command, and the key was free.
GetLock(c) ==
  /\ lkPc[c] = "trying" /\ ~lkKey
  /\ lkKey' = TRUE /\ lkTtl' = LockTtl
  /\ lkPc' = [lkPc EXCEPT ![c] = "inside"]
  /\ UNCHANGED <<lkTries, lkFaults, lkSafe>>

\* RedisLocker.Lock: SETNX fails, and Lock returns as if it had the lock.
LockerError(c) ==
  /\ c \in Patient /\ lkPc[c] = "trying" /\ lkFaults > 0
  /\ lkPc' = [lkPc EXCEPT ![c] = "inside"]
  /\ lkFaults' = lkFaults - 1 /\ lkSafe' = FALSE
  /\ UNCHANGED <<lkKey, lkTtl, lkTries>>

\* A try that does not get the key: it is taken, or the command fails, which
\* GetLock reports as "taken".
TryFails ==
  \/ lkKey /\ UNCHANGED lkFaults
  \/ lkFaults > 0 /\ lkFaults' = lkFaults - 1

\* redispool.Lock counts such tries, and the last ends the call with an error.
LockTryFails(c) ==
  /\ c \notin Patient \cup TimeLimited /\ lkPc[c] = "trying" /\ TryFails
  /\ lkTries' = [lkTries EXCEPT ![c] = @ + 1]
  /\ lkPc' = [lkPc EXCEPT ![c] = IF lkTries[c] + 1 = MaxTries THEN "idle" ELSE @]
  /\ UNCHANGED <<lkKey, lkTtl, lkSafe>>

\* LockWithTimeout gives up after a failed try once its time is over; before
\* that it sleeps and tries again.
LockWithTimeoutFails(c) ==
  /\ c \in TimeLimited /\ lkPc[c] = "trying" /\ TryFails
  /\ lkPc' = [lkPc EXCEPT ![c] = "idle"]
  /\ UNCHANGED <<lkKey, lkTtl, lkTries, lkSafe>>

\* DEL key, which takes the lock from whoever has it; the DEL may fail.
DelKey(c) ==
  /\ lkPc[c] \in {"inside", "again"}
  /\ \/ lkKey' = FALSE /\ lkTtl' = 0 /\ UNCHANGED lkFaults
     \/ lkFaults > 0 /\ lkFaults' = lkFaults - 1 /\ UNCHANGED <<lkKey, lkTtl>>
  /\ lkPc' = [lkPc EXCEPT ![c] =
       IF @ = "inside" /\ c \in DoubleUnlock THEN "again" ELSE "idle"]
  /\ lkSafe' = IF LockInside \ {c} = {} THEN TRUE ELSE lkSafe /\ lkKey'
  /\ UNCHANGED lkTries

\* RedisLocker.Unlock and redispool.UnLock.
Unlock(c) == c \in Patient /\ DelKey(c)
UnLock(c) == c \notin Patient /\ DelKey(c)

\* External: a client dies where it is; its key stays until it expires.
LockCrash(c) ==
  /\ lkPc[c] \notin {"idle", "dead"} /\ lkFaults > 0
  /\ lkPc' = [lkPc EXCEPT ![c] = "dead"]
  /\ lkFaults' = lkFaults - 1
  /\ lkSafe' = IF LockInside \ {c} = {} THEN TRUE ELSE lkSafe
  /\ UNCHANGED <<lkKey, lkTtl, lkTries>>

\* External: time passes, and Redis expires a key with a time to live.
LockTick ==
  /\ lkKey /\ lkTtl > 0
  /\ lkTtl' = lkTtl - 1
  /\ lkKey' = (lkTtl > 1)
  /\ lkSafe' = (lkSafe /\ (lkKey' \/ LockInside = {}))
  /\ UNCHANGED <<lkPc, lkTries, lkFaults>>

LockStep(c) ==
  \/ LockStart(c) \/ GetLock(c) \/ LockerError(c) \/ LockTryFails(c)
  \/ LockWithTimeoutFails(c) \/ Unlock(c) \/ UnLock(c) \/ LockCrash(c)

LockNext ==
  (\E c \in LockClients : LockStep(c)) \/ LockTick

LockFairness ==
  /\ \A c \in LockClients : WF_lockVars(GetLock(c)) /\ WF_lockVars(LockTryFails(c))
  /\ WF_lockVars(LockTick)

LockSpec == LockInit /\ [][LockNext]_lockVars /\ LockFairness

Section == INSTANCE AbstractLock
  WITH Clients <- LockClients, inside <- LockInside, safe <- lkSafe

\* The Redis locks implement the abstract lock: a client enters an occupied
\* section only after a lease ran out, a DEL was sent by a client without the
\* key, or SETNX failed (redis_locker.go:46, redis_cache.go:358), and once the
\* section has been empty the lock excludes again.
LockImplementsSection == Section!Init /\ [][Section!Next]_(Section!vars)

\* A key whose owner died does not block the others for ever: while a client
\* tries, some client gets in or all of them give up (the time to live is set
\* by the same command that creates the key, redis_locker.go:46).
LockNotStuck ==
  (\E c \in LockClients : lkPc[c] = "trying")
    ~> (LockInside # {} \/ \A c \in LockClients : lkPc[c] # "trying")
=============================================================================
