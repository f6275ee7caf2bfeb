----------------------------- MODULE LeaseProofs -----------------------------
(***************************************************************************)
(* What one process has until a time that Redis keeps, for any number of   *)
(* processes: being the master of ClusterMutex, for any timing with        *)
(* MaxInterval + 2 * MaxLag < Expiration while Redis answers and no process*)
(* returns under its old name, and a service of ServicePool.               *)
(***************************************************************************)
EXTENDS ClusterMutex, ServicePool, TLAPS

\* Every tick, command, failure and expiry keeps the lock and the processes well-formed.
LEMMA TypeStep == CmTypeOK /\ [CmNext]_mutexVars => CmTypeOK'
<1> SUFFICES ASSUME CmTypeOK, [CmNext]_mutexVars PROVE CmTypeOK'
  OBVIOUS
<1> USE NodeAssumption, CmTimeAssumption DEF CmTypeOK, Goto, NewTicker
<1>1. ASSUME NEW n \in Node, Start(n) \/ Restart(n) \/ CmTick(n) PROVE CmTypeOK'
  <2>1. CASE Start(n)
    BY <2>1 DEF Start
  <2>2. CASE Restart(n)
    BY <2>2 DEF Restart
  <2>3. CASE CmTick(n)
    BY <2>3 DEF CmTick
  <2> QED BY <1>1, <2>1, <2>2, <2>3
<1>2. ASSUME NEW n \in Node, TryPreempt(n) PROVE CmTypeOK'
  <2>1. CASE key = CmNone
    <3>1. /\ key' = n /\ ttl' = Expiration /\ cmPc' = [cmPc EXCEPT ![n] = "idle"]
          /\ master' = [master EXCEPT ![n] = n] /\ ready' = [ready EXCEPT ![n] = TRUE]
      BY <1>2, <2>1 DEF TryPreempt
    <3>2. clock' \in [Node -> Nat] /\ cmErrors' \in Nat /\ cmRestarts' \in Nat
      BY <1>2 DEF TryPreempt
    <3>3. Expiration \in Nat /\ Expiration # 0 /\ n # CmNone
      OBVIOUS
    <3> QED BY <3>1, <3>2, <3>3, Zenon
  <2>2. CASE key # CmNone
    BY <1>2, <2>2 DEF TryPreempt
  <2> QED BY <2>1, <2>2
<1>3. ASSUME NEW n \in Node, FirstLook(n) \/ GetCurrentMaster(n) PROVE CmTypeOK'
  <2>1. CASE FirstLook(n)
    BY <2>1 DEF FirstLook
  <2>2. CASE GetCurrentMaster(n)
    BY <2>2 DEF GetCurrentMaster
  <2> QED BY <1>3, <2>1, <2>2
<1>4. ASSUME NEW n \in Node, Renew(n) PROVE CmTypeOK'
  BY <1>4 DEF Renew
<1>5. ASSUME NEW n \in Node, CmFail(n) PROVE CmTypeOK'
  BY <1>5 DEF CmFail
<1>6. ASSUME NEW n \in Node, Release(n) \/ CmCrash(n) PROVE CmTypeOK'
  BY <1>6 DEF Release, CmCrash
<1>7. CASE Advance
  BY <1>7 DEF Advance
<1>8. CASE UNCHANGED mutexVars
  BY <1>8 DEF mutexVars
<1> QED BY <1>1, <1>2, <1>3, <1>4, <1>5, <1>6, <1>7, <1>8 DEF CmNext, Step

\* The variables of the election stay well-formed; the key exists exactly while
\* its time to live is positive.
THEOREM TypeCorrect == CmSpec => []CmTypeOK
<1>1. CmInit => CmTypeOK
  BY SMTT(60) DEF CmInit, CmTypeOK
<1> QED BY <1>1, TypeStep, PTL DEF CmSpec

\* Every step but a failing command and a restart keeps the lease.
LEMMA LeaseStep ==
  ASSUME CmTypeOK, Lease, [CmNext]_mutexVars,
         \A n \in Node : ~CmFail(n) /\ ~Restart(n)
  PROVE  Lease'
<1>t. CmTypeOK /\ CmTypeOK'
  BY TypeStep
<1> USE <1>t, NodeAssumption, CmTimeAssumption DEF CmTypeOK, Lease, Up, IsMaster, Goto, NewTicker
<1>1. ASSUME NEW n \in Node, Start(n) PROVE Lease'
  BY <1>1 DEF Start
<1>2. ASSUME NEW n \in Node, TryPreempt(n) PROVE Lease'
  BY <1>2 DEF TryPreempt
<1>3. ASSUME NEW n \in Node, FirstLook(n) PROVE Lease'
  BY <1>3 DEF FirstLook
<1>4. ASSUME NEW n \in Node, CmTick(n) PROVE Lease'
  BY <1>4 DEF CmTick
<1>5. ASSUME NEW n \in Node, GetCurrentMaster(n) PROVE Lease'
  BY <1>5 DEF GetCurrentMaster
<1>6. ASSUME NEW n \in Node, Renew(n) PROVE Lease'
  BY <1>6 DEF Renew
<1>7. ASSUME NEW n \in Node, Release(n) \/ CmCrash(n) PROVE Lease'
  BY <1>7 DEF Release, CmCrash
<1>8. CASE Advance
  <2>1. \A n \in Up : IsMaster(n) => ttl > 1
    BY <1>8 DEF Advance
  <2> QED BY <1>8, <2>1 DEF Advance
<1>9. CASE UNCHANGED mutexVars
  BY <1>9 DEF mutexVars
<1> QED BY <1>1, <1>2, <1>3, <1>4, <1>5, <1>6, <1>7, <1>8, <1>9 DEF CmNext, Step

\* At most one running process takes itself for the master, until a command failed
\* or a process came back under its old name.
THEOREM MutualExclusion == CmSpec => []AtMostOneMaster
<1> DEFINE Timely == cmErrors = 0 /\ cmRestarts = 0
           IInv == CmTypeOK /\ (Timely => Lease)
<1>1. CmInit => IInv
  BY NodeAssumption DEF CmInit, CmTypeOK, Lease, Up, IsMaster
<1>2. IInv /\ [CmNext]_mutexVars => IInv'
  <2> SUFFICES ASSUME IInv, [CmNext]_mutexVars, Timely' PROVE Lease'
    BY TypeStep
  <2>1. \A n \in Node : ~CmFail(n) /\ ~Restart(n)
    BY DEF CmTypeOK, CmFail, Restart
  <2>2. UNCHANGED <<cmErrors, cmRestarts>>
    BY <2>1 DEF CmNext, Step, Start, TryPreempt, FirstLook, CmTick, GetCurrentMaster, Renew,
                Release, CmCrash, Advance, mutexVars
  <2> QED BY <2>1, <2>2, LeaseStep
<1>3. IInv => AtMostOneMaster
  BY DEF CmTypeOK, Lease, AtMostOneMaster, Up
<1> QED BY <1>1, <1>2, <1>3, PTL DEF CmSpec

-----------------------------------------------------------------------------
(* The pool of services.  A member that was never reset in use is popped by*)
(* one process at a time, is not in the sorted set meanwhile, and its score*)
(* is never before the end of a lease that still runs.                     *)

PoolPcs == Refreshing \cup {"new", "nil", "idle", "pop", "back", "grant", "hold", "score",
                            "put", "dead"}
Runs(p, m) == Holds(p, m) /\ plHand[p].s > plNow

PoolShape ==
  /\ plNow \in Nat \ {0} /\ plPc \in [PoolProcs -> PoolPcs]
  /\ plAt \in [PoolProcs -> Nat] /\ \A p \in PoolProcs : plAt[p] =< plNow
  /\ DOMAIN plHand = PoolProcs /\ \A p \in PoolProcs : plHand[p].s \in Nat
  /\ \A m \in DOMAIN plZset : plZset[m] \in Nat

\* One popper, and the member is out of the sorted set.
PoolPops(m) ==
  \A p \in PoolProcs : Popped(p, m) =>
    m \notin DOMAIN plZset /\ \A q \in PoolProcs : Popped(q, m) => q = p

\* One running lease, which whoever looks at the member can see.
PoolLeases(m) ==
  \A p \in PoolProcs : Runs(p, m) =>
    /\ \A q \in PoolProcs : Runs(q, m) => q = p
    /\ m \in DOMAIN plZset => plHand[p].s =< plZset[m]
    /\ \A q \in PoolProcs : Popped(q, m) => plPc[q] = "back" /\ plHand[p].s =< plHand[q].s

PoolInv ==
  /\ PoolShape /\ PoolNothingLost
  /\ \A m : m \notin plTaint => PoolPops(m) /\ PoolLeases(m)

\* An empty pool satisfies the invariant.
LEMMA PoolInvInit == PoolInit => PoolInv
<1> SUFFICES ASSUME PoolInit PROVE PoolInv
  OBVIOUS
<1>1. /\ plNow = 1 /\ DOMAIN plHand = PoolProcs /\ \A p \in PoolProcs : plHand[p] = Nobody
      /\ plPc = [p \in PoolProcs |-> "new"] /\ plAt = [p \in PoolProcs |-> 0]
      /\ DOMAIN plZset = {} /\ plKnown = {}
  BY DEF PoolInit
<1>2. Nobody.s = 0
  BY Zenon DEF Nobody
<1>3. PoolShape
  BY <1>1, <1>2 DEF PoolShape, PoolPcs, Refreshing
<1>4. \A p \in PoolProcs : \A m : ~Popped(p, m) /\ ~Holds(p, m)
  BY <1>1, Zenon DEF Popped, Holds
<1> QED BY <1>1, <1>3, <1>4, Zenon DEF PoolInv, PoolNothingLost, PoolPops, PoolLeases, Runs

\* The invariant implies that the pool is sound.
LEMMA PoolInvImplies == PoolInv => PoolSound
BY Zenon DEF PoolInv, PoolSound, PoolExclusive, PoolLeases, Runs

\* A step of p that leaves the sorted set, the clock and what others do alone
\* and takes nothing into its hands.
LEMMA PoolAside ==
  ASSUME PoolInv, NEW p \in PoolProcs, PoolShape',
         plZset' = plZset, plNow' = plNow, plTaint \subseteq plTaint',
         plKnown' \subseteq plKnown,
         \A m \in plKnown' : ~Popped(p, m) \/ Popped(p, m)',
         \A q \in PoolProcs \ {p} : plPc'[q] = plPc[q] /\ plHand'[q] = plHand[q],
         \A m : Popped(p, m)' => Popped(p, m) /\ plPc'[p] = plPc[p],
         \A m : Holds(p, m)' => Holds(p, m),
         \A m : Popped(p, m)' \/ Holds(p, m)' => plHand'[p].s = plHand[p].s
  PROVE  PoolInv'
<1>1. \A q \in PoolProcs : \A m :
        /\ Popped(q, m)' => Popped(q, m) /\ plPc'[q] = plPc[q] /\ plHand'[q].s = plHand[q].s
        /\ Runs(q, m)' => Runs(q, m) /\ plHand'[q].s = plHand[q].s
  BY Zenon DEF Popped, Holds, Runs
<1>2. \A q \in PoolProcs \ {p} : \A m : Popped(q, m) => Popped(q, m)'
  BY Zenon DEF Popped
<1>3. PoolNothingLost'
  BY <1>2, Zenon DEF PoolInv, PoolNothingLost
<1>4. ASSUME NEW m, m \notin plTaint' PROVE PoolPops(m)' /\ PoolLeases(m)'
  <2>1. PoolPops(m) /\ PoolLeases(m)
    BY <1>4, Zenon DEF PoolInv
  <2> QED BY <1>1, <2>1, ZenonT(60) DEF PoolPops, PoolLeases
<1> QED BY <1>3, <1>4, Zenon DEF PoolInv

\* The steps that only move a process, let go of a member or read.
LEMMA PoolAsides ==
  ASSUME PoolInv, NEW p \in PoolProcs,
         \/ RegistryServicePool(p) \/ refreshSetting(p) \/ RefreshPanics(p)
         \/ RefreshLock(p) \/ RefreshUnlock(p) \/ AcquireService(p)
         \/ ReleaseScore(p) \/ ReleaseService(p) \/ PoolCrash(p) \/ PoolRestart(p)
  PROVE  PoolInv'
<1> USE DEF PoolInv
<1>1. plZset' = plZset /\ plNow' = plNow /\ plTaint' = plTaint
  BY Zenon DEF RegistryServicePool, NewServicePool, refreshSetting, RefreshPanics, RefreshLock,
         RefreshUnlock, AcquireService, ReleaseScore, ReleaseService, ReleaseString, PoolCrash,
         PoolRestart
<1>2. PICK to \in PoolPcs \ {"back", "grant"} : plPc' = [plPc EXCEPT ![p] = to]
  BY Zenon DEF RegistryServicePool, NewServicePool, refreshSetting, RefreshPanics, RefreshLock,
         RefreshUnlock, AcquireService, ReleaseScore, ReleaseService, ReleaseString, PoolCrash,
         PoolRestart, PoolGoto, Forget, PoolPcs, Refreshing
<1>3. plPc' \in [PoolProcs -> PoolPcs] /\ plPc'[p] = to /\ \A q \in PoolProcs \ {p} : plPc'[q] = plPc[q]
  BY <1>2, Zenon DEF PoolShape
<1>4. plHand' = plHand \/ plHand' = [plHand EXCEPT ![p] = Nobody]
  BY Zenon DEF RegistryServicePool, NewServicePool, refreshSetting, RefreshPanics, RefreshLock,
         RefreshUnlock, AcquireService, ReleaseScore, ReleaseService, ReleaseString, PoolCrash,
         PoolRestart, Forget
<1>5. /\ DOMAIN plHand' = PoolProcs /\ \A q \in PoolProcs : plHand'[q].s \in Nat
      /\ \A q \in PoolProcs \ {p} : plHand'[q] = plHand[q]
  <2>1. Nobody.s \in Nat
    BY Zenon DEF Nobody
  <2>2. CASE plHand' = plHand
    BY <2>2, Zenon DEF PoolShape
  <2>3. CASE plHand' = [plHand EXCEPT ![p] = Nobody]
    BY <2>1, <2>3, Zenon DEF PoolShape
  <2> QED BY <1>4, <2>2, <2>3, Zenon
<1>6. plAt' = plAt \/ plAt' = [plAt EXCEPT ![p] = plNow] \/ plAt' = [plAt EXCEPT ![p] = 0]
  BY Zenon DEF RegistryServicePool, NewServicePool, refreshSetting, RefreshPanics, RefreshLock,
         RefreshUnlock, AcquireService, ReleaseScore, ReleaseService, ReleaseString, PoolCrash,
         PoolRestart
<1>7. plAt' \in [PoolProcs -> Nat] /\ \A q \in PoolProcs : plAt'[q] =< plNow
  BY <1>6 DEF PoolShape
<1>8. PoolShape'
  BY <1>1, <1>3, <1>5, <1>7, Zenon DEF PoolShape
<1>9. plPc[p] \notin {"back", "grant"} \/ PoolCrash(p)
  BY Zenon DEF RegistryServicePool, NewServicePool, refreshSetting, RefreshPanics, RefreshLock,
         RefreshUnlock, AcquireService, ReleaseScore, ReleaseService, ReleaseString,
         PoolRestart
<1>10. plKnown' \subseteq plKnown /\ \A m \in plKnown' : ~Popped(p, m)
  <2>1. CASE PoolCrash(p)
    BY <2>1, Zenon DEF PoolCrash, Popped
  <2>2. CASE ~PoolCrash(p)
    <3>1. plKnown' = plKnown
      BY <2>2, Zenon DEF RegistryServicePool, NewServicePool, refreshSetting, RefreshPanics, RefreshLock,
            RefreshUnlock, AcquireService, ReleaseScore, ReleaseService, ReleaseString, PoolRestart
    <3> QED BY <1>9, <2>2, <3>1, Zenon DEF Popped
  <2> QED BY <2>1, <2>2, Zenon
<1>11. to \in {"hold", "score", "put"} =>
         plPc[p] \in {"hold", "score", "put"} /\ plHand'[p] = plHand[p]
  <2>1. CASE ReleaseScore(p)
    <3>1. plPc[p] = "hold" /\ (plHand' = plHand \/ plPc' = [plPc EXCEPT ![p] = "idle"])
      BY <2>1, Zenon DEF ReleaseScore, PoolGoto, Forget
    <3> QED BY <1>3, <3>1, Zenon DEF PoolShape
  <2>2. CASE ~ReleaseScore(p)
    <3>1. PICK r \in Refreshing \cup {"new", "nil", "idle", "pop", "dead"} : plPc' = [plPc EXCEPT ![p] = r]
      BY <2>2, Zenon DEF RegistryServicePool, NewServicePool, refreshSetting, RefreshPanics, RefreshLock,
           RefreshUnlock, AcquireService, ReleaseService, ReleaseString, PoolCrash,
           PoolRestart, PoolGoto, Forget, Refreshing
    <3> QED BY <1>3, <3>1, Zenon DEF PoolShape, Refreshing
  <2> QED BY <2>1, <2>2, Zenon
<1>12. \A m : ~Popped(p, m)'
  BY <1>3, Zenon DEF Popped
<1>13. \A m : Holds(p, m)' => Holds(p, m) /\ plHand'[p].s = plHand[p].s
  BY <1>3, <1>11, Zenon DEF Holds
<1> QED BY <1>1, <1>3, <1>5, <1>8, <1>10, <1>12, <1>13, PoolAside, Zenon

\* A write to the sorted set by p that pops nothing and begins no lease: members
\* that get another score are tainted, unless nobody has them.
LEMMA PoolWrites ==
  ASSUME PoolInv, NEW p \in PoolProcs, PoolShape', plNow' = plNow, plTaint \subseteq plTaint',
         PoolNothingLost',
         \A q \in PoolProcs \ {p} : plPc'[q] = plPc[q] /\ plHand'[q] = plHand[q],
         \A n : ~Popped(p, n)' /\ ~Holds(p, n)',
         \A n \in DOMAIN plZset' :
           \/ n \in DOMAIN plZset /\ plZset'[n] = plZset[n]
           \/ n \in plTaint'
           \/ \A q \in PoolProcs \ {p} : ~Popped(q, n) /\ ~Runs(q, n)
  PROVE  PoolInv'
<1> USE DEF PoolInv
<1>1. \A q \in PoolProcs \ {p} : \A n : (Popped(q, n)' <=> Popped(q, n)) /\ (Runs(q, n)' <=> Runs(q, n))
  BY Zenon DEF Popped, Holds, Runs
<1>2. \A n : ~Popped(p, n)' /\ ~Runs(p, n)'
  BY Zenon DEF Runs
<1>3. ASSUME NEW n, n \notin plTaint' PROVE PoolPops(n)' /\ PoolLeases(n)'
  <2>1. PoolPops(n) /\ PoolLeases(n)
    BY <1>3, Zenon
  <2>2. CASE \A q \in PoolProcs \ {p} : ~Popped(q, n) /\ ~Runs(q, n)
    BY <1>1, <1>2, <2>2, ZenonT(60) DEF PoolPops, PoolLeases
  <2>3. CASE n \in DOMAIN plZset' => n \in DOMAIN plZset /\ plZset'[n] = plZset[n]
    <3>1. PoolPops(n)'
      BY <1>1, <1>2, <2>1, <2>3, Zenon DEF PoolPops
    <3>2. PoolLeases(n)'
      BY <1>1, <1>2, <2>1, <2>3, Zenon DEF PoolLeases
    <3> QED BY <3>1, <3>2, Zenon
  <2> QED BY <1>3, <2>2, <2>3, Zenon
<1> QED BY <1>3, Zenon

\* A failed call of Acquire.
LEMMA PoolFails ==
  ASSUME PoolInv, NEW p \in PoolProcs, AcquireFails(p), plNow' = plNow, plTaint' = plTaint,
         plKnown' \subseteq plKnown,
         DOMAIN plZset' \subseteq DOMAIN plZset, \A m \in DOMAIN plZset' : plZset'[m] = plZset[m],
         \A m \in plKnown' : ~Popped(p, m) /\ (m \in DOMAIN plZset => m \in DOMAIN plZset')
  PROVE  PoolInv'
<1> USE DEF PoolInv
<1>1. PICK to \in {"pop", "idle"} : plPc' = [plPc EXCEPT ![p] = to]
  BY Zenon DEF AcquireFails, PoolGoto
<1>2. /\ plPc' \in [PoolProcs -> PoolPcs] /\ plPc'[p] \in {"pop", "idle"}
      /\ \A q \in PoolProcs \ {p} : plPc'[q] = plPc[q]
  BY <1>1, Zenon DEF PoolShape, PoolPcs
<1>3. /\ DOMAIN plHand' = PoolProcs /\ \A q \in PoolProcs : plHand'[q].s \in Nat
      /\ \A q \in PoolProcs \ {p} : plHand'[q] = plHand[q]
  BY Zenon DEF AcquireFails, PoolShape, Nobody
<1>4. plAt' = [plAt EXCEPT ![p] = plNow] \/ plAt' = [plAt EXCEPT ![p] = 0]
  BY Zenon DEF AcquireFails
<1>5. plAt' \in [PoolProcs -> Nat] /\ \A q \in PoolProcs : plAt'[q] =< plNow
  BY <1>4 DEF PoolShape
<1>6. PoolShape'
  BY <1>2, <1>3, <1>5, Zenon DEF PoolShape
<1>7. \A m : ~Popped(p, m)' /\ ~Holds(p, m)'
  BY <1>2, Zenon DEF Popped, Holds
<1>8. \A q \in PoolProcs \ {p} : \A m : Popped(q, m) => Popped(q, m)'
  BY <1>2, <1>3, Zenon DEF Popped
<1>9. PoolNothingLost'
  BY <1>8, Zenon DEF PoolNothingLost
<1> QED BY <1>2, <1>3, <1>6, <1>7, <1>9, PoolWrites, Zenon

\* ZPOPMIN, which takes a member out of the sorted set.
LEMMA PoolPop ==
  ASSUME PoolInv, NEW p \in PoolProcs, Acquire(p)
  PROVE  PoolInv'
<1> USE DEF PoolInv
<1>1. plPc[p] = "pop" /\ UNCHANGED <<plNow, plTaint>>
  BY Zenon DEF Acquire
<1>2. \A m : ~Popped(p, m) /\ ~Holds(p, m)
  BY <1>1, Zenon DEF Popped, Holds
<1>3. CASE PopFails(p)
  <2>1. CASE UNCHANGED <<plZset, plKnown>>
    BY <1>1, <1>2, <1>3, <2>1, PoolFails, Zenon DEF PopFails
  <2>2. ASSUME NEW m, PopMin(m), plKnown' = plKnown \ {m}
        PROVE  PoolInv'
    <3>1. DOMAIN plZset' = DOMAIN plZset \ {m} /\ \A n \in DOMAIN plZset' : plZset'[n] = plZset[n]
      BY <2>2, Zenon DEF PopMin, ZRem
    <3> QED BY <1>1, <1>2, <1>3, <2>2, <3>1, PoolFails, Zenon DEF PopFails
  <2> QED BY <1>3, <2>1, <2>2, Zenon DEF PopFails
<1>4. CASE ~PopFails(p)
  <2>0. plKnown' = plKnown
    BY <1>4, Zenon DEF Acquire
  <2>1. PICK m \in DOMAIN plZset :
          /\ plZset' = [n \in DOMAIN plZset \ {m} |-> plZset[n]] /\ plAt' = plAt
          /\ IF plZset[m] > plAt[p]
             THEN /\ plHand' = [plHand EXCEPT ![p] = [m |-> m, s |-> plZset[m]]]
                  /\ plPc' = [plPc EXCEPT ![p] = "back"]
             ELSE /\ plHand' = [plHand EXCEPT ![p] = [m |-> m, s |-> plAt[p] + PoolExpire]]
                  /\ plPc' = [plPc EXCEPT ![p] = "grant"]
    BY <1>4, Zenon DEF Acquire, PopMin, Take, ZRem, PoolGoto
  <2>2. /\ plPc' \in [PoolProcs -> PoolPcs] /\ plPc'[p] \in {"back", "grant"}
        /\ \A q \in PoolProcs \ {p} : plPc'[q] = plPc[q]
        /\ plPc'[p] = "back" <=> plZset[m] > plAt[p]
    BY <2>1, Zenon DEF PoolShape, PoolPcs
  <2>3. plZset[m] \in Nat /\ plAt[p] + PoolExpire \in Nat
    BY PoolAssumption DEF PoolShape
  <2>4. /\ DOMAIN plHand' = PoolProcs /\ plHand'[p].m = m /\ plHand'[p].s \in Nat
        /\ plPc'[p] = "back" => plHand'[p].s = plZset[m]
        /\ \A q \in PoolProcs \ {p} : plHand'[q] = plHand[q]
    BY <2>1, <2>2, <2>3 DEF PoolShape
  <2>5. DOMAIN plZset' = DOMAIN plZset \ {m} /\ \A n \in DOMAIN plZset' : plZset'[n] = plZset[n]
    BY <2>1, Zenon
  <2>6. PoolShape'
    BY <1>1, <2>1, <2>2, <2>4, <2>5, Zenon DEF PoolShape
  <2>7. /\ \A q \in PoolProcs \ {p} : \A n : (Popped(q, n)' <=> Popped(q, n)) /\ (Runs(q, n)' <=> Runs(q, n))
        /\ \A n : (Popped(p, n)' <=> n = m) /\ ~Runs(p, n)'
    BY <1>1, <2>2, <2>4, Zenon DEF Popped, Holds, Runs
  <2>8. PoolNothingLost'
    BY <1>2, <2>0, <2>5, <2>7, ZenonT(60) DEF PoolNothingLost
  <2>9. ASSUME NEW n, n \notin plTaint' PROVE PoolPops(n)' /\ PoolLeases(n)'
    <3>1. PoolPops(n) /\ PoolLeases(n)
      BY <1>1, <2>9, Zenon
    <3>2. n = m => \A q \in PoolProcs : ~Popped(q, n)
      BY <3>1, Zenon DEF PoolPops
    <3>3. PoolPops(n)'
      BY <1>2, <2>5, <2>7, <3>1, <3>2, Zenon DEF PoolPops
    <3>4. ASSUME NEW q \in PoolProcs, Runs(q, n)'
          PROVE  /\ \A r \in PoolProcs : Runs(r, n)' => r = q
                 /\ n \in DOMAIN plZset' => plHand'[q].s =< plZset'[n]
                 /\ \A r \in PoolProcs : Popped(r, n)' => plPc'[r] = "back" /\ plHand'[q].s =< plHand'[r].s
      <4>1. q # p /\ Runs(q, n) /\ plHand'[q] = plHand[q]
        BY <2>4, <2>7, <3>4, Zenon
      <4>2. \A r \in PoolProcs : Runs(r, n)' => r = q
        BY <2>7, <3>1, <4>1, Zenon DEF PoolLeases
      <4>3. n \in DOMAIN plZset' => plHand'[q].s =< plZset'[n]
        BY <2>5, <3>1, <4>1, Zenon DEF PoolLeases
      <4>4. ASSUME n = m PROVE plPc'[p] = "back" /\ plHand'[q].s =< plHand'[p].s
        <5>1. plHand[q].s > plNow /\ plHand[q].s =< plZset[m]
          BY <3>1, <4>1, <4>4, Zenon DEF PoolLeases, Runs
        <5>2. plZset[m] > plAt[p]
          BY <2>3, <5>1 DEF PoolShape
        <5> QED BY <2>2, <2>4, <4>1, <5>1, <5>2, Zenon
      <4>5. ASSUME NEW r \in PoolProcs \ {p}, Popped(r, n)'
            PROVE  plPc'[r] = "back" /\ plHand'[q].s =< plHand'[r].s
        BY <2>2, <2>4, <2>7, <3>1, <4>1, <4>5, ZenonT(60) DEF PoolLeases
      <4> QED BY <2>7, <4>2, <4>3, <4>4, <4>5, Zenon
    <3> QED BY <3>3, <3>4, Zenon DEF PoolLeases
  <2> QED BY <2>6, <2>8, <2>9, Zenon
<1> QED BY <1>3, <1>4, Zenon

\* The second command of Acquire.
LEMMA PoolPut ==
  ASSUME PoolInv, NEW p \in PoolProcs, AcquirePut(p)
  PROVE  PoolInv'
<1> USE DEF PoolInv
<1> DEFINE m == plHand[p].m
           s == plHand[p].s
<1>1. plPc[p] \in {"back", "grant"} /\ UNCHANGED <<plNow, plTaint>>
  BY Zenon DEF AcquirePut
<1>2. \A n : (Popped(p, n) <=> n = m) /\ ~Holds(p, n)
  BY <1>1, Zenon DEF Popped, Holds
<1>3. CASE AcquireFails(p) /\ plKnown' = plKnown \ {m} /\ plZset' = plZset
  BY <1>1, <1>2, <1>3, PoolFails, Zenon
<1>4. CASE /\ ZAdd({m}, s) /\ plKnown' = plKnown
           /\ (plPc[p] = "grant" /\ PoolGoto(p, "hold") /\ Granted(p)) \/ AcquireFails(p)
  <2>1. s \in Nat /\ DOMAIN plZset' = DOMAIN plZset \cup {m} /\ plZset'[m] = s
        /\ \A n \in DOMAIN plZset \ {m} : plZset'[n] = plZset[n]
    BY <1>4, Zenon DEF ZAdd, PoolShape
  <2>2. PICK to \in {"hold", "pop", "idle"} :
          /\ plPc' = [plPc EXCEPT ![p] = to]
          /\ IF to = "hold" THEN plPc[p] = "grant" /\ Granted(p) ELSE AcquireFails(p)
    <3>1. CASE plPc[p] = "grant" /\ PoolGoto(p, "hold") /\ Granted(p)
      BY <3>1, Zenon DEF PoolGoto
    <3>2. CASE AcquireFails(p)
      BY <3>2, Zenon DEF PoolGoto, AcquireFails
    <3> QED BY <1>4, <3>1, <3>2, Zenon
  <2>3. /\ plPc' \in [PoolProcs -> PoolPcs] /\ plPc'[p] = to
        /\ \A q \in PoolProcs \ {p} : plPc'[q] = plPc[q]
    BY <2>2, Zenon DEF PoolShape, PoolPcs
  <2>4. plHand' = plHand \/ (to # "hold" /\ plHand' = [plHand EXCEPT ![p] = Nobody])
    BY <2>2, Zenon DEF Granted, AcquireFails
  <2>5. /\ DOMAIN plHand' = PoolProcs /\ \A q \in PoolProcs \ {p} : plHand'[q] = plHand[q]
        /\ to = "hold" => plHand'[p] = plHand[p]
        /\ \A q \in PoolProcs : plHand'[q].s \in Nat
    <3>1. Nobody.s \in Nat
      BY Zenon DEF Nobody
    <3>2. CASE plHand' = plHand
      BY <3>2, Zenon DEF PoolShape
    <3>3. CASE to # "hold" /\ plHand' = [plHand EXCEPT ![p] = Nobody]
      BY <3>1, <3>3, Zenon DEF PoolShape
    <3> QED BY <2>4, <3>2, <3>3, Zenon
  <2>6. plAt' = [plAt EXCEPT ![p] = plNow] \/ plAt' = [plAt EXCEPT ![p] = 0]
    BY <1>4, Zenon DEF Granted, AcquireFails
  <2>7. plAt' \in [PoolProcs -> Nat] /\ \A q \in PoolProcs : plAt'[q] =< plNow
    BY <2>6 DEF PoolShape
  <2>8. PoolShape'
    BY <1>1, <2>1, <2>3, <2>5, <2>7, Zenon DEF PoolShape
  <2>9. /\ \A q \in PoolProcs \ {p} : \A n : (Popped(q, n)' <=> Popped(q, n)) /\ (Runs(q, n)' <=> Runs(q, n))
        /\ \A n : ~Popped(p, n)' /\ (Runs(p, n)' => n = m /\ plPc[p] = "grant" /\ plHand'[p].s = s)
    BY <1>1, <2>2, <2>3, <2>5, Zenon DEF Popped, Holds, Runs
  <2>10. PoolNothingLost'
    BY <1>2, <1>4, <2>1, <2>9 DEF PoolNothingLost
  <2>11. ASSUME NEW n, n \notin plTaint' PROVE PoolPops(n)' /\ PoolLeases(n)'
    <3>1. PoolPops(n) /\ PoolLeases(n)
      BY <1>1, <2>11, Zenon
    <3>2. n = m => \A q \in PoolProcs \ {p} : ~Popped(q, n)
      BY <1>2, <3>1, Zenon DEF PoolPops
    <3>3. n = m => \A q \in PoolProcs : Runs(q, n) => plPc[p] = "back" /\ plHand[q].s =< s
      BY <1>2, <3>1, Zenon DEF PoolLeases
    <3>4. PoolPops(n)'
      BY <2>1, <2>9, <3>1, <3>2, ZenonT(60) DEF PoolPops
    <3>5. ASSUME NEW q \in PoolProcs, Runs(q, n)'
          PROVE  /\ \A r \in PoolProcs : Runs(r, n)' => r = q
                 /\ n \in DOMAIN plZset' => plHand'[q].s =< plZset'[n]
                 /\ \A r \in PoolProcs : Popped(r, n)' => plPc'[r] = "back" /\ plHand'[q].s =< plHand'[r].s
      <4>1. CASE q = p
        <5>1. n = m /\ plPc[p] = "grant" /\ plHand'[q].s = s
          BY <2>9, <3>5, <4>1, Zenon
        <5>2. \A r \in PoolProcs \ {p} : ~Runs(r, n) /\ ~Popped(r, n)
          BY <3>2, <3>3, <5>1, Zenon
        <5>3. plHand'[q].s =< plZset'[n]
          BY <2>1, <5>1
        <5> QED BY <2>9, <4>1, <5>2, <5>3, Zenon
      <4>2. CASE q # p
        <5>1. Runs(q, n) /\ plHand'[q] = plHand[q]
          BY <2>5, <2>9, <3>5, <4>2, Zenon
        <5>2. \A r \in PoolProcs : Runs(r, n)' => r = q
          BY <2>9, <3>1, <3>3, <4>2, <5>1, Zenon DEF PoolLeases
        <5>3. n \in DOMAIN plZset' => plHand'[q].s =< plZset'[n]
          BY <2>1, <3>1, <3>3, <5>1, Zenon DEF PoolLeases
        <5>4. ASSUME NEW r \in PoolProcs, Popped(r, n)'
              PROVE  plPc'[r] = "back" /\ plHand'[q].s =< plHand'[r].s
          <6>1. r # p /\ Popped(r, n) /\ plPc'[r] = plPc[r] /\ plHand'[r] = plHand[r]
            BY <2>3, <2>5, <2>9, <5>4, Zenon
          <6> QED BY <3>1, <5>1, <6>1, Zenon DEF PoolLeases
        <5> QED BY <5>2, <5>3, <5>4, Zenon
      <4> QED BY <4>1, <4>2, Zenon
    <3> QED BY <3>4, <3>5, Zenon DEF PoolLeases
  <2> QED BY <2>8, <2>10, <2>11, Zenon
<1> QED BY <1>3, <1>4, Zenon DEF AcquirePut

\* The steps of RefreshConfig that change the sorted set.
LEMMA PoolRefreshes ==
  ASSUME PoolInv, NEW p \in PoolProcs, RefreshAdd(p) \/ RefreshRemove(p)
  PROVE  PoolInv'
<1> USE DEF PoolInv
<1> DEFINE toAdd == diff(generateMembers(plSvrConf[p]), plConf[p])
           toRemove == diff(plConf[p], generateMembers(plSvrConf[p]))
<1>1. plPc[p] \in {"add", "rem"} /\ UNCHANGED <<plNow, plHand, plAt>> /\ plTaint \subseteq plTaint'
  BY Zenon DEF RefreshAdd, RefreshRemove
<1>2. PICK to \in Refreshing : plPc' = [plPc EXCEPT ![p] = to]
  BY Zenon DEF RefreshAdd, RefreshRemove, Answered, PoolGoto, Refreshing
<1>3. /\ plPc' \in [PoolProcs -> PoolPcs] /\ plPc'[p] \in Refreshing
      /\ \A q \in PoolProcs \ {p} : plPc'[q] = plPc[q]
  BY <1>2, Zenon DEF PoolShape, PoolPcs
<1>4. \A n : ~Popped(p, n) /\ ~Holds(p, n) /\ ~Popped(p, n)' /\ ~Holds(p, n)'
  BY <1>1, <1>3, Zenon DEF Popped, Holds, Refreshing
<1>5. \A q \in PoolProcs : \A n : Popped(q, n)' <=> Popped(q, n)
  BY <1>1, <1>3, <1>4, Zenon DEF Popped
<1>6. CASE UNCHANGED <<plZset, plKnown>>
  <2>1. PoolShape'
    BY <1>1, <1>3, <1>6, Zenon DEF PoolShape
  <2>2. PoolNothingLost'
    BY <1>5, <1>6, Zenon DEF PoolNothingLost
  <2> QED BY <1>1, <1>3, <1>4, <1>6, <2>1, <2>2, PoolWrites, Zenon
<1>7. CASE ZRem(toRemove) /\ plKnown' = plKnown \ toRemove
  <2>1. DOMAIN plZset' = DOMAIN plZset \ toRemove /\ \A n \in DOMAIN plZset' : plZset'[n] = plZset[n]
    BY <1>7, Zenon DEF ZRem
  <2>2. PoolShape'
    BY <1>1, <1>3, <2>1, Zenon DEF PoolShape
  <2>3. PoolNothingLost'
    BY <1>5, <1>7, <2>1, Zenon DEF PoolNothingLost
  <2> QED BY <1>1, <1>3, <1>4, <2>1, <2>2, <2>3, PoolWrites, Zenon
<1>8. CASE /\ ZAdd(toAdd, 0) /\ plKnown' = plKnown \cup toAdd
           /\ plTaint' = plTaint \cup {m \in toAdd : InUse(m)}
  <2>1. /\ DOMAIN plZset' = DOMAIN plZset \cup toAdd
        /\ \A n \in DOMAIN plZset' : IF n \in toAdd THEN plZset'[n] = 0 ELSE plZset'[n] = plZset[n]
    BY <1>8, Zenon DEF ZAdd
  <2>2. PoolShape'
    <3>1. \A n \in DOMAIN plZset' : plZset'[n] \in Nat
      BY <2>1 DEF PoolShape
    <3> QED BY <1>1, <1>3, <3>1, Zenon DEF PoolShape
  <2>3. PoolNothingLost'
    BY <1>5, <1>8, <2>1, Zenon DEF PoolNothingLost
  <2>4. \A n \in toAdd : n \in plTaint' \/ \A q \in PoolProcs \ {p} : ~Popped(q, n) /\ ~Runs(q, n)
    BY <1>8, Zenon DEF InUse, Runs
  <2> QED BY <1>1, <1>3, <1>4, <2>1, <2>2, <2>3, <2>4, PoolWrites, Zenon
<1> QED BY <1>6, <1>7, <1>8, Zenon DEF RefreshAdd, RefreshRemove

\* Release puts the member back with score 0, and marks it if others have it.
LEMMA PoolReleases ==
  ASSUME PoolInv, NEW p \in PoolProcs, ReleasePut(p)
  PROVE  PoolInv'
<1> USE DEF PoolInv
<1> DEFINE m == plHand[p].m
<1>1. plPc[p] = "put" /\ Forget(p) /\ UNCHANGED <<plNow, plAt, plKnown>> /\ plTaint \subseteq plTaint'
  BY Zenon DEF ReleasePut
<1>2. /\ plPc' \in [PoolProcs -> PoolPcs] /\ plPc'[p] = "idle"
      /\ \A q \in PoolProcs \ {p} : plPc'[q] = plPc[q]
  BY <1>1, Zenon DEF Forget, PoolGoto, PoolShape, PoolPcs
<1>3. /\ DOMAIN plHand' = PoolProcs /\ \A q \in PoolProcs : plHand'[q].s \in Nat
      /\ \A q \in PoolProcs \ {p} : plHand'[q] = plHand[q]
  <2>1. Nobody.s \in Nat
    BY Zenon DEF Nobody
  <2> QED BY <1>1, <2>1, Zenon DEF Forget, PoolShape
<1>4. \A n : ~Popped(p, n) /\ ~Popped(p, n)' /\ ~Holds(p, n)'
  BY <1>1, <1>2, Zenon DEF Popped, Holds
<1>5. \A q \in PoolProcs : \A n : Popped(q, n) => Popped(q, n)'
  BY <1>2, <1>3, <1>4, Zenon DEF Popped
<1>6. CASE plZset' = plZset
  <2>1. PoolShape'
    BY <1>1, <1>2, <1>3, <1>6, Zenon DEF PoolShape
  <2>2. PoolNothingLost'
    BY <1>1, <1>5, <1>6, Zenon DEF PoolNothingLost
  <2> QED BY <1>1, <1>2, <1>3, <1>4, <1>6, <2>1, <2>2, PoolWrites, Zenon
<1>7. CASE /\ ZAdd({m}, 0)
           /\ m \in plTaint' \/ \A q \in PoolProcs \ {p} : ~Holds(q, m) /\ ~Popped(q, m)
  <2>1. /\ DOMAIN plZset' = DOMAIN plZset \cup {m} /\ plZset'[m] = 0
        /\ \A n \in DOMAIN plZset \ {m} : plZset'[n] = plZset[n]
    BY <1>7, Zenon DEF ZAdd
  <2>2. PoolShape'
    BY <1>1, <1>2, <1>3, <2>1 DEF PoolShape
  <2>3. PoolNothingLost'
    BY <1>1, <1>5, <2>1, Zenon DEF PoolNothingLost
  <2>4. m \in plTaint' \/ \A q \in PoolProcs \ {p} : ~Popped(q, m) /\ ~Runs(q, m)
    BY <1>7, Zenon DEF Runs
  <2>5. \A n \in DOMAIN plZset' :
          \/ n \in DOMAIN plZset /\ plZset'[n] = plZset[n]
          \/ n \in plTaint'
          \/ \A q \in PoolProcs \ {p} : ~Popped(q, n) /\ ~Runs(q, n)
    BY <2>1, <2>4, Zenon
  <2> QED BY <1>1, <1>2, <1>3, <1>4, <2>2, <2>3, <2>5, PoolWrites, Zenon
<1> QED BY <1>6, <1>7, Zenon DEF ReleasePut

\* Clear drops the members on purpose.
LEMMA PoolClears ==
  ASSUME PoolInv, NEW p \in PoolProcs, Clear(p)
  PROVE  PoolInv'
<1> USE DEF PoolInv
<1>1. /\ plPc[p] = "idle" /\ UNCHANGED <<plNow, plAt, plHand, plPc, plTaint>>
      /\ plKnown' = {m \in plKnown : \E q \in PoolProcs : Popped(q, m)}
      /\ DOMAIN plZset' = {}
  BY Zenon DEF Clear, ZRem
<1>2. PoolShape'
  BY <1>1, Zenon DEF PoolShape
<1>3. \A q \in PoolProcs : \A n : Popped(q, n)' <=> Popped(q, n)
  BY <1>1, Zenon DEF Popped
<1>4. PoolNothingLost'
  BY <1>1, <1>3, Zenon DEF PoolNothingLost
<1>5. \A n : ~Popped(p, n)' /\ ~Holds(p, n)'
  BY <1>1, Zenon DEF Popped, Holds
<1> QED BY <1>1, <1>2, <1>4, <1>5, PoolWrites, Zenon

\* Time, the expiry of the lock and a new setting start no lease.
LEMMA PoolEnv ==
  ASSUME PoolInv, PoolEnvironment
  PROVE  PoolInv'
<1> USE DEF PoolInv
<1>1. UNCHANGED <<plZset, plPc, plAt, plHand, plKnown, plTaint>> /\ plNow' \in {plNow, plNow + 1}
  BY Zenon DEF PoolEnvironment
<1>2. PoolShape'
  BY <1>1 DEF PoolShape
<1>3. \A q \in PoolProcs : \A n : Popped(q, n)' <=> Popped(q, n)
  BY <1>1, Zenon DEF Popped
<1>4. \A q \in PoolProcs : \A n : Runs(q, n)' => Runs(q, n)
  BY <1>1 DEF Holds, Runs, PoolShape
<1>5. PoolNothingLost'
  BY <1>1, <1>3, Zenon DEF PoolNothingLost
<1>6. ASSUME NEW n, n \notin plTaint' PROVE PoolPops(n)' /\ PoolLeases(n)'
  <2>1. PoolPops(n) /\ PoolLeases(n)
    BY <1>1, <1>6, Zenon
  <2>2. PoolPops(n)'
    BY <1>1, <1>3, <2>1, Zenon DEF PoolPops
  <2>3. PoolLeases(n)'
    BY <1>1, <1>3, <1>4, <2>1, Zenon DEF PoolLeases
  <2> QED BY <2>2, <2>3, Zenon
<1> QED BY <1>2, <1>5, <1>6, Zenon

\* Every step of the pool keeps the invariant.
LEMMA PoolInvStep == PoolInv /\ [PoolNext]_poolVars => PoolInv'
<1> SUFFICES ASSUME PoolInv, [PoolNext]_poolVars PROVE PoolInv'
  BY Zenon
<1>1. CASE UNCHANGED poolVars
  BY <1>1 DEF poolVars, PoolInv, PoolShape, PoolNothingLost, PoolPops, PoolLeases, Runs, Popped, Holds
<1>2. CASE PoolEnvironment
  BY <1>2, PoolEnv, Zenon
<1>3. ASSUME NEW p \in PoolProcs, PoolStep(p) PROVE PoolInv'
  BY <1>3, PoolAsides, PoolRefreshes, PoolPop, PoolPut, PoolReleases, PoolClears, Zenon DEF PoolStep
<1> QED BY <1>1, <1>2, <1>3, Zenon DEF PoolNext

\* No member of the pool is lent twice while it was never reset in use, and every
\* member that was added is in the sorted set or on its way back to it, for any
\* number of processes, settings, ticks and failures (redis.go:40-120).
THEOREM ServicesStaySound == PoolSpec => []PoolSound
BY PoolInvInit, PoolInvStep, PoolInvImplies, PTL DEF PoolSpec
=============================================================================
