---------------------------- MODULE ClusterMutex ----------------------------
(***************************************************************************)
(* Master election of mutex/cluster.go: every process tries to SETNX one   *)
(* Redis key that expires, the one that succeeds renews it on every tick,  *)
(* and IsMaster answers from the name each process saw last.               *)
(*                                                                         *)
(* Time advances in units.  A process that is running completes each step  *)
(* of a tick at most MaxLag units after the tick fired, and fires its next *)
(* tick between MinInterval and MaxInterval + MaxLag units after the last. *)
(***************************************************************************)
EXTENDS Naturals

CONSTANTS Node,         \* the processes, by their nodeID
          CmNone,       \* no master: the key does not exist
          Expiration,   \* clusterMutexExpiration
          MinInterval,  \* minRenewInterval
          MaxInterval,  \* minRenewInterval plus the largest random offset
          MaxLag,       \* how late a running process may be
          CmMaxErrors,  \* bound: Redis commands that fail
          CmMaxRestarts \* bound: processes that come back with the same HOSTNAME

ASSUME NodeAssumption == CmNone \notin Node

ASSUME CmTimeAssumption == /\ Expiration \in Nat /\ MinInterval \in Nat
                           /\ MaxInterval \in Nat /\ MaxLag \in Nat
                           /\ CmMaxErrors \in Nat /\ CmMaxRestarts \in Nat
                           /\ MinInterval <= MaxInterval
                           /\ MaxInterval + MaxLag + MaxLag < Expiration

VARIABLES key,       \* the value of the Redis key, or CmNone
          ttl,       \* how long the key still lives
          master,    \* master[n]: currentMaster of process n
          cmPc,      \* cmPc[n]: where the daemon routine of n is
          clock,     \* clock[n]: time since the last tick of n fired
          ready,     \* ready[n]: the ready channel of n is closed
          cmErrors,  \* failed Redis commands so far
          cmRestarts \* restarted processes so far

mutexVars == <<key, ttl, master, cmPc, clock, ready, cmErrors, cmRestarts>>

Up == {n \in Node : cmPc[n] \notin {"off", "stopped"}}

IsMaster(n) == master[n] = n

Goto(n, l) == cmPc' = [cmPc EXCEPT ![n] = l]

\* daemonRoutine creates its ticker after the first tryPreempt.
NewTicker(n) ==
  clock' = IF cmPc[n] \in {"first", "look"} THEN [clock EXCEPT ![n] = 0] ELSE clock

\* NewClusterMutex starts the daemon routine.
Start(n) ==
  /\ cmPc[n] = "off"
  /\ Goto(n, "first")
  /\ clock' = [clock EXCEPT ![n] = 0]
  /\ UNCHANGED <<key, ttl, master, ready, cmErrors, cmRestarts>>

\* A process that stopped starts again under the same HOSTNAME.
Restart(n) ==
  /\ cmRestarts < CmMaxRestarts
  /\ cmRestarts' = cmRestarts + 1
  /\ cmPc[n] = "stopped"
  /\ Goto(n, "first")
  /\ master' = [master EXCEPT ![n] = CmNone]
  /\ clock' = [clock EXCEPT ![n] = 0]
  /\ ready' = [ready EXCEPT ![n] = FALSE]
  /\ UNCHANGED <<key, ttl, cmErrors>>

\* Mutant: SETNX without an expiry.
TryPreemptForever(n) ==
  /\ cmPc[n] \in {"first", "preempt"}
  /\ key = CmNone
  /\ key' = n
  /\ master' = [master EXCEPT ![n] = n]
  /\ ready' = [ready EXCEPT ![n] = TRUE]
  /\ Goto(n, "idle")
  /\ NewTicker(n)
  /\ UNCHANGED <<ttl, cmErrors, cmRestarts>>

\* tryPreempt: SETNX with an expiry.  Only the first call looks up the master
\* when it loses, and only it then reports ready.
TryPreempt(n) ==
  /\ cmPc[n] \in {"first", "preempt"}
  /\ \/ /\ key = CmNone
        /\ key' = n
        /\ ttl' = Expiration
        /\ master' = [master EXCEPT ![n] = n]
        /\ ready' = [ready EXCEPT ![n] = TRUE]
        /\ Goto(n, "idle")
     \/ /\ key # CmNone
        /\ Goto(n, IF cmPc[n] = "first" THEN "look" ELSE "idle")
        /\ UNCHANGED <<key, ttl, master, ready>>
  /\ NewTicker(n)
  /\ UNCHANGED <<cmErrors, cmRestarts>>

\* tryPreempt, first call that lost: getCurrentMaster, then markReady.
FirstLook(n) ==
  /\ cmPc[n] = "look"
  /\ master' = IF key = CmNone THEN master ELSE [master EXCEPT ![n] = key]
  /\ ready' = [ready EXCEPT ![n] = TRUE]
  /\ Goto(n, "idle")
  /\ NewTicker(n)
  /\ UNCHANGED <<key, ttl, cmErrors, cmRestarts>>

\* The ticker fires.
CmTick(n) ==
  /\ cmPc[n] = "idle"
  /\ clock[n] >= MinInterval
  /\ clock' = [clock EXCEPT ![n] = 0]
  /\ Goto(n, "get")
  /\ UNCHANGED <<key, ttl, master, ready, cmErrors, cmRestarts>>

\* Mutants: a missing key is left alone; the name found is not remembered.
GetCurrentMasterPassive(n) ==
  /\ cmPc[n] = "get"
  /\ master' = IF key = CmNone THEN master ELSE [master EXCEPT ![n] = key]
  /\ Goto(n, IF key = n THEN "renew" ELSE "idle")
  /\ UNCHANGED <<key, ttl, clock, ready, cmErrors, cmRestarts>>

GetCurrentMasterForgets(n) ==
  /\ cmPc[n] = "get"
  /\ Goto(n, IF key = CmNone THEN "preempt" ELSE IF key = n THEN "renew" ELSE "idle")
  /\ UNCHANGED <<key, ttl, master, clock, ready, cmErrors, cmRestarts>>

\* tick: getCurrentMaster.  A missing key leaves currentMaster as it was.
GetCurrentMaster(n) ==
  /\ cmPc[n] = "get"
  /\ master' = IF key = CmNone THEN master ELSE [master EXCEPT ![n] = key]
  /\ Goto(n, IF key = CmNone THEN "preempt" ELSE IF key = n THEN "renew" ELSE "idle")
  /\ UNCHANGED <<key, ttl, clock, ready, cmErrors, cmRestarts>>

\* Mutant: a renewal without effect.
RenewNothing(n) ==
  /\ cmPc[n] = "renew"
  /\ Goto(n, "idle")
  /\ UNCHANGED <<key, ttl, master, clock, ready, cmErrors, cmRestarts>>

\* renew: EXPIRE, whoever holds the key by now.
Renew(n) ==
  /\ cmPc[n] = "renew"
  /\ ttl' = IF key = CmNone THEN ttl ELSE Expiration
  /\ Goto(n, "idle")
  /\ UNCHANGED <<key, master, clock, ready, cmErrors, cmRestarts>>

\* A Redis command fails.  A failing GET is taken for a missing key.
CmFail(n) ==
  /\ cmErrors < CmMaxErrors
  /\ cmErrors' = cmErrors + 1
  /\ cmPc[n] \in {"first", "look", "get", "preempt", "renew"}
  /\ Goto(n, IF cmPc[n] = "get" THEN "preempt" ELSE "idle")
  /\ ready' = IF cmPc[n] = "look" THEN [ready EXCEPT ![n] = TRUE] ELSE ready
  /\ NewTicker(n)
  /\ UNCHANGED <<key, ttl, master, cmRestarts>>

\* The context ends between two ticks: release deletes the key if this process
\* believes to be master.
Release(n) ==
  /\ cmPc[n] = "idle"
  /\ key' = IF IsMaster(n) THEN CmNone ELSE key
  /\ ttl' = IF IsMaster(n) THEN 0 ELSE ttl
  /\ Goto(n, "stopped")
  /\ UNCHANGED <<master, clock, ready, cmErrors, cmRestarts>>

\* The process dies.
CmCrash(n) ==
  /\ n \in Up
  /\ Goto(n, "stopped")
  /\ UNCHANGED <<key, ttl, master, clock, ready, cmErrors, cmRestarts>>

\* A unit of time passes; Redis drops the key when its time is over.
Advance ==
  /\ \A n \in Up : IF cmPc[n] = "idle" THEN clock[n] < MaxInterval + MaxLag
                                     ELSE clock[n] < MaxLag
  /\ ttl' = IF ttl > 0 THEN ttl - 1 ELSE 0
  /\ key' = IF ttl > 1 THEN key ELSE CmNone
  /\ clock' = [n \in Node |-> IF n \in Up THEN clock[n] + 1 ELSE clock[n]]
  /\ UNCHANGED <<master, cmPc, ready, cmErrors, cmRestarts>>

CmInit ==
  /\ key = CmNone
  /\ ttl = 0
  /\ master = [n \in Node |-> CmNone]
  /\ cmPc = [n \in Node |-> "off"]
  /\ clock = [n \in Node |-> 0]
  /\ ready = [n \in Node |-> FALSE]
  /\ cmErrors = 0
  /\ cmRestarts = 0

Step(n) == TryPreempt(n) \/ FirstLook(n) \/ CmTick(n) \/ GetCurrentMaster(n) \/ Renew(n)

CmNext ==
  \/ \E n \in Node : Step(n) \/ Start(n) \/ Restart(n) \/ CmFail(n) \/ Release(n) \/ CmCrash(n)
  \/ Advance

CmSpec == CmInit /\ [][CmNext]_mutexVars

CmFairness == WF_mutexVars(Advance) /\ \A n \in Node : WF_mutexVars(Step(n))

CmFairSpec == CmSpec /\ CmFairness

(***************************************************************************)
(* Properties                                                              *)
(***************************************************************************)
\* Type invariant of the lock and of what every process believes; Redis drops the
\* key exactly when its time to live has run out.
CmTypeOK ==
  /\ key \in Node \cup {CmNone}
  /\ ttl \in Nat
  /\ master \in [Node -> Node \cup {CmNone}]
  /\ cmPc \in [Node -> {"off", "first", "look", "idle", "get", "preempt", "renew", "stopped"}]
  /\ clock \in [Node -> Nat]
  /\ ready \in [Node -> BOOLEAN]
  /\ cmErrors \in Nat /\ cmRestarts \in Nat
  /\ key = CmNone <=> ttl = 0

\* As long as Redis answers and no process comes back under the name it had, two
\* running processes never both take themselves for the master: the lease a
\* process still believes in has not expired.
AtMostOneMaster ==
  cmErrors = 0 /\ cmRestarts = 0 => \A n, m \in Up : IsMaster(n) /\ IsMaster(m) => n = m

\* Strengthens AtMostOneMaster for its proof: a running master holds the key, the
\* holder of the key knows it, and the key outlives the time to its next renewal.
Lease ==
  /\ \A n \in Up : IsMaster(n) <=> key = n
  /\ \A n \in Node : cmPc[n] = "off" => key # n /\ master[n] = CmNone
  /\ \A n \in Up : clock[n] <= IF cmPc[n] = "idle" THEN MaxInterval + MaxLag ELSE MaxLag
  /\ \A n \in Up : IsMaster(n) =>
       /\ cmPc[n] \in {"idle", "get", "renew"}
       /\ ttl + clock[n] > IF cmPc[n] = "idle" THEN MaxInterval + MaxLag + MaxLag ELSE MaxLag
  /\ \A n \in Node : cmPc[n] = "renew" => IsMaster(n)

\* When the master dies or stops, a running process becomes master, although
\* every other one keeps the dead one's name until the key has expired.
Failover ==
  \A n \in Node : (key = n /\ n \notin Up) ~>
    (\E m \in Up : IsMaster(m) /\ key = m) \/ Up = {}

\* Two masters do not last: a process that lost the key without knowing it finds
\* out at its next tick that Redis answers, or stops.
DualMasterEnds ==
  \A n \in Node : (IsMaster(n) /\ key \notin {n, CmNone}) ~>
    (~IsMaster(n) \/ key = n \/ n \notin Up)

\* mutex/cluster.go:141: release deletes the lock "only on the master".  A process
\* whose renewals failed still takes itself for the master and deletes the lock
\* of its successor.
ReleaseOnlyByHolder ==
  [][\A n \in Node : cmPc[n] = "idle" /\ cmPc'[n] = "stopped" /\ key' # key => key = n]_mutexVars
=============================================================================
