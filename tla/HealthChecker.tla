---------------------------- MODULE HealthChecker ---------------------------
(***************************************************************************)
(* Heartbeats of task/health/checker.go: workers refresh an entry of a     *)
(* Redis hash per task type, and every process that believes to be master  *)
(* periodically reads the hashes, marks silent workers in a second hash    *)
(* (the grace period) and reports those that stay silent as dead.          *)
(*                                                                         *)
(* Timestamps are kept as ages, which all grow together and saturate at    *)
(* MaxAge.  A check reads its hashes once and then works from the copies,  *)
(* so that every Redis command is a step of its own.  Only SetHeartbeat    *)
(* writes the first hash, as "time-task", so that no check meets an entry  *)
(* that it cannot parse and would delete (checker.go:310-322).             *)
(***************************************************************************)
EXTENDS Naturals, FiniteSets

CONSTANTS Type,                \* task types
          Worker,              \* worker IDs
          Punctual,            \* workers that never miss a heartbeat while they run
          Checker,             \* processes that may believe to be master
          None,                \* no entry in a hash
          HeartbeatTimeout,
          GracePeriodTimeout,
          BeatLag,             \* longest way of a heartbeat to Redis
          MaxCheck,            \* longest duration of one CheckWorkerHealth
          MaxAge,              \* bound: ages saturate here
          MaxErrors,           \* bound: Redis commands that fail, checks that die
          MaxRestarts          \* bound: workers that come back under their ID

ASSUME SetAssumption == Punctual \subseteq Worker /\ None \notin Nat /\ None \notin Type \cup Worker

ASSUME TimeAssumption == /\ HeartbeatTimeout \in Nat /\ GracePeriodTimeout \in Nat
                         /\ BeatLag \in Nat /\ MaxCheck \in Nat /\ MaxAge \in Nat
                         /\ MaxErrors \in Nat /\ MaxRestarts \in Nat
                         /\ BeatLag <= HeartbeatTimeout
                         /\ MaxCheck < GracePeriodTimeout
                         /\ HeartbeatTimeout + MaxCheck < MaxAge
                         /\ GracePeriodTimeout + MaxCheck < MaxAge

VARIABLES hb,       \* hb[t][w]: age of the heartbeat in Redis, or None
          gp,       \* gp[t][w]: age of the grace period entry in Redis, or None
          life,     \* life[w]: "up", "down" (died) or "leaving" (stopped in order)
          check,    \* check[c]: the check that c is running
          reported, \* reported[t][w]: a dead callback succeeded since the last heartbeat
          errors,
          restarts

vars == <<hb, gp, life, check, reported, errors, restarts>>

Age == 0 .. MaxAge

\* The local state of a check: since is the age of its `now`, hb and gp are the
\* maps it read for the task type type, left the workers it has still to look at.
NoEntries == [w \in Worker |-> None]

Idle == [pc |-> "idle", since |-> 0, types |-> {}, type |-> None,
         hb |-> NoEntries, gp |-> NoEntries, left |-> {}, cur |-> None]

Registered(m) == {w \in Worker : m[w] # None}

\* getWorkerStatus.  elapsed is measured from the `now` of the whole check, the
\* time in the grace period from the moment of the call.
Elapsed(k, w) == IF k.hb[w] > k.since THEN k.hb[w] - k.since ELSE 0

Status(k, w) ==
  IF Elapsed(k, w) <= HeartbeatTimeout THEN "healthy"
  ELSE IF k.gp[w] # None /\ k.gp[w] > GracePeriodTimeout THEN "dead" ELSE "grace"

\* Mutant: the heartbeat of exactly that age counts as lost.
IsWorkerAliveStrict(t, w) == hb[t][w] # None /\ hb[t][w] < HeartbeatTimeout

IsWorkerAlive(t, w) == hb[t][w] # None /\ hb[t][w] <= HeartbeatTimeout

Set(c, k) == check' = [check EXCEPT ![c] = k]

(***************************************************************************)
(* Workers                                                                 *)
(***************************************************************************)

\* Mutant: the heartbeat leaves the grace period entry in place.
SetHeartbeatKeepsGrace(t, w, age) ==
  /\ life[w] = "up"
  /\ hb' = [hb EXCEPT ![t][w] = age]
  /\ reported' = [reported EXCEPT ![t][w] = FALSE]
  /\ UNCHANGED <<gp, life, check, errors, restarts>>

\* SetHeartbeat takes the time, then runs one script on both hashes.
SetHeartbeat(t, w, age) ==
  /\ life[w] = "up"
  /\ hb' = [hb EXCEPT ![t][w] = age]
  /\ gp' = [gp EXCEPT ![t][w] = None]
  /\ reported' = [reported EXCEPT ![t][w] = FALSE]
  /\ UNCHANGED <<life, check, errors, restarts>>

\* A worker that stops in order deletes its entries, one task type at a time.
Leave(t, w) ==
  /\ life[w] \in {"up", "leaving"}
  /\ life' = [life EXCEPT ![w] = "leaving"]
  /\ hb' = [hb EXCEPT ![t][w] = None]
  /\ gp' = [gp EXCEPT ![t][w] = None]
  /\ UNCHANGED <<check, reported, errors, restarts>>

Die(w) ==
  /\ life[w] \in {"up", "leaving"}
  /\ life' = [life EXCEPT ![w] = "down"]
  /\ UNCHANGED <<hb, gp, check, reported, errors, restarts>>

Return(w) ==
  /\ restarts < MaxRestarts
  /\ restarts' = restarts + 1
  /\ life[w] # "up"
  /\ life' = [life EXCEPT ![w] = "up"]
  /\ UNCHANGED <<hb, gp, check, reported, errors>>

(***************************************************************************)
(* Checks                                                                  *)
(***************************************************************************)

\* healthCheckRoutine: a tick of a master; CheckWorkerHealth takes the time.
BeginCheck(c) ==
  /\ check[c].pc = "idle"
  /\ Set(c, [Idle EXCEPT !.pc = "scan"])
  /\ UNCHANGED <<hb, gp, life, reported, errors, restarts>>

\* getAllTaskTypes: a hash without entries has no key.
GetAllTaskTypes(c) ==
  /\ check[c].pc = "scan"
  /\ Set(c, [check[c] EXCEPT !.pc = "types", !.types = {t \in Type : Registered(hb[t]) # {}}])
  /\ UNCHANGED <<hb, gp, life, reported, errors, restarts>>

\* checkTaskTypeWorkers: HGETALL of the heartbeats ...
ReadHeartbeats(c, t) ==
  /\ check[c].pc = "types"
  /\ t \in check[c].types
  /\ Set(c, [check[c] EXCEPT !.pc = "grace", !.types = @ \ {t}, !.type = t,
                               !.hb = hb[t], !.gp = NoEntries])
  /\ UNCHANGED <<hb, gp, life, reported, errors, restarts>>

\* Mutant: every worker is looked at, registered or not.
ReadGraceOfAll(c) ==
  /\ check[c].pc = "grace"
  /\ Set(c, [check[c] EXCEPT !.pc = "loop", !.gp = gp[check[c].type], !.left = Worker])
  /\ UNCHANGED <<hb, gp, life, reported, errors, restarts>>

\* ... and then of the grace period.
ReadGrace(c) ==
  /\ check[c].pc = "grace"
  /\ Set(c, [check[c] EXCEPT !.pc = "loop", !.gp = gp[check[c].type], !.left = Registered(check[c].hb)])
  /\ UNCHANGED <<hb, gp, life, reported, errors, restarts>>

\* One worker of the map, in any order.
CheckHealthy(c, w) ==
  LET k == check[c] IN
  /\ k.pc = "loop" /\ w \in k.left
  /\ Status(k, w) = "healthy"
  /\ gp' = IF k.gp[w] # None THEN [gp EXCEPT ![k.type][w] = None] ELSE gp
  /\ Set(c, [k EXCEPT !.left = @ \ {w}])
  /\ UNCHANGED <<hb, life, reported, errors, restarts>>

\* Mutant: the entry is renewed at every check.
CheckGraceAgain(c, w) ==
  LET k == check[c] IN
  /\ k.pc = "loop" /\ w \in k.left
  /\ Status(k, w) = "grace"
  /\ gp' = [gp EXCEPT ![k.type][w] = k.since]
  /\ Set(c, [k EXCEPT !.left = @ \ {w}])
  /\ UNCHANGED <<hb, life, reported, errors, restarts>>

CheckGrace(c, w) ==
  LET k == check[c] IN
  /\ k.pc = "loop" /\ w \in k.left
  /\ Status(k, w) = "grace"
  /\ gp' = IF k.gp[w] = None THEN [gp EXCEPT ![k.type][w] = k.since] ELSE gp
  /\ Set(c, [k EXCEPT !.left = @ \ {w}])
  /\ UNCHANGED <<hb, life, reported, errors, restarts>>

CheckDead(c, w) ==
  LET k == check[c] IN
  /\ k.pc = "loop" /\ w \in k.left
  /\ Status(k, w) = "dead"
  /\ Set(c, [k EXCEPT !.pc = "call", !.left = @ \ {w}, !.cur = w])
  /\ UNCHANGED <<hb, gp, life, reported, errors, restarts>>

\* OnWorkerDead returns without an error ...
CallbackSucceeds(c) ==
  LET k == check[c] IN
  /\ k.pc = "call"
  /\ reported' = [reported EXCEPT ![k.type][k.cur] = TRUE]
  /\ Set(c, [k EXCEPT !.pc = "delete"])
  /\ UNCHANGED <<hb, gp, life, errors, restarts>>

\* Mutant: the heartbeat is deleted all the same.
CallbackFailsDeletes(c) ==
  /\ check[c].pc = "call"
  /\ Set(c, [check[c] EXCEPT !.pc = "delete"])
  /\ UNCHANGED <<hb, gp, life, reported, errors, restarts>>

\* ... or with one, and the heartbeat stays.
CallbackFails(c) ==
  /\ check[c].pc = "call"
  /\ Set(c, [check[c] EXCEPT !.pc = "loop", !.cur = None])
  /\ UNCHANGED <<hb, gp, life, reported, errors, restarts>>

DeleteHeartbeat(c) ==
  LET k == check[c] IN
  /\ k.pc = "delete"
  /\ hb' = [hb EXCEPT ![k.type][k.cur] = None]
  /\ gp' = [gp EXCEPT ![k.type][k.cur] = None]
  /\ Set(c, [k EXCEPT !.pc = "loop", !.cur = None])
  /\ UNCHANGED <<life, reported, errors, restarts>>

EndOfType(c) ==
  /\ check[c].pc = "loop"
  /\ check[c].left = {}
  /\ Set(c, [check[c] EXCEPT !.pc = "types", !.type = None, !.hb = NoEntries, !.gp = NoEntries])
  /\ UNCHANGED <<hb, gp, life, reported, errors, restarts>>

EndOfCheck(c) ==
  /\ check[c].pc = "types"
  /\ check[c].types = {}
  /\ Set(c, Idle)
  /\ UNCHANGED <<hb, gp, life, reported, errors, restarts>>

\* A Redis command fails.  Without its grace periods a check goes on as if there
\* were none; a failing HSET, HDEL or script is only logged.
Fail(c) ==
  LET k == check[c] IN
  /\ errors < MaxErrors
  /\ errors' = errors + 1
  /\ \/ k.pc = "scan" /\ Set(c, Idle)
     \/ k.pc = "types" /\ \E t \in k.types : Set(c, [k EXCEPT !.types = @ \ {t}])
     \/ k.pc = "grace" /\ Set(c, [k EXCEPT !.pc = "loop", !.left = Registered(k.hb)])
     \/ k.pc = "loop" /\ \E w \in k.left : /\ Status(k, w) # "dead"
                                           /\ Set(c, [k EXCEPT !.left = @ \ {w}])
     \/ k.pc = "delete" /\ Set(c, [k EXCEPT !.pc = "loop", !.cur = None])
  /\ UNCHANGED <<hb, gp, life, reported, restarts>>

\* The process dies, or Stop cancels the context of its check.
Abort(c) ==
  /\ errors < MaxErrors
  /\ errors' = errors + 1
  /\ check[c].pc # "idle"
  /\ Set(c, Idle)
  /\ UNCHANGED <<hb, gp, life, reported, restarts>>

(***************************************************************************)
(* Time                                                                    *)
(***************************************************************************)
Older(a) == IF a = None THEN None ELSE IF a < MaxAge THEN a + 1 ELSE a

Aged(m) == [w \in Worker |-> Older(m[w])]

\* A punctual worker refreshes its entries before they are too old.
Tick ==
  /\ \A t \in Type, w \in Punctual :
       life[w] = "up" /\ hb[t][w] # None => hb[t][w] < HeartbeatTimeout
  /\ \A c \in Checker : check[c].pc # "idle" => check[c].since < MaxCheck
  /\ hb' = [t \in Type |-> Aged(hb[t])]
  /\ gp' = [t \in Type |-> Aged(gp[t])]
  /\ check' = [c \in Checker |->
       IF check[c].pc = "idle" THEN check[c]
       ELSE [check[c] EXCEPT !.since = @ + 1, !.hb = Aged(@), !.gp = Aged(@)]]
  /\ UNCHANGED <<life, reported, errors, restarts>>

Init ==
  /\ hb = [t \in Type |-> NoEntries]
  /\ gp = [t \in Type |-> NoEntries]
  /\ life = [w \in Worker |-> "up"]
  /\ check = [c \in Checker |-> Idle]
  /\ reported = [t \in Type |-> [w \in Worker |-> FALSE]]
  /\ errors = 0
  /\ restarts = 0

Beat(t, w) == \E age \in 0 .. BeatLag : SetHeartbeat(t, w, age)

Look(c, w) == CheckHealthy(c, w) \/ CheckGrace(c, w) \/ CheckDead(c, w)

Advance(c) ==
  \/ BeginCheck(c) \/ GetAllTaskTypes(c) \/ ReadGrace(c)
  \/ DeleteHeartbeat(c) \/ EndOfType(c) \/ EndOfCheck(c)
  \/ \E t \in Type : ReadHeartbeats(c, t)
  \/ \E w \in Worker : Look(c, w)

Next ==
  \/ \E t \in Type, w \in Worker : Beat(t, w) \/ Leave(t, w)
  \/ \E w \in Worker : Die(w) \/ Return(w)
  \/ \E c \in Checker : \/ Advance(c) \/ CallbackSucceeds(c) \/ CallbackFails(c)
                        \/ Fail(c) \/ Abort(c)
  \/ Tick

Spec == Init /\ [][Next]_vars

\* Time passes, running punctual workers beat, a master keeps checking, and a
\* callback that is tried again and again for a worker succeeds some day.  OnWorkerDead
\* is taken not to panic: that would end the routine of its process for good
\* (checker.go:201-212).
Fairness ==
  /\ WF_vars(Tick)
  /\ \A t \in Type, w \in Punctual : WF_vars(Beat(t, w))
  /\ \A c \in Checker : WF_vars(Advance(c)) /\ WF_vars(CallbackSucceeds(c) \/ CallbackFails(c))
  /\ \A c \in Checker, t \in Type, w \in Worker :
       SF_vars(check[c].type = t /\ check[c].cur = w /\ CallbackSucceeds(c))

FairSpec == Spec /\ Fairness

(***************************************************************************)
(* Properties                                                              *)
(***************************************************************************)
Entries == [Worker -> Age \cup {None}]

CheckType ==
  [pc : {"idle", "scan", "types", "grace", "loop", "call", "delete"}, since : 0 .. MaxCheck,
   types : SUBSET Type, type : Type \cup {None}, hb : Entries, gp : Entries,
   left : SUBSET Worker, cur : Worker \cup {None}]

\* A check that looks at a task type, or at a worker, has read its entry.
Located(k) ==
  /\ k.pc \in {"grace", "loop", "call", "delete"} => k.type \in Type
  /\ k.pc \in {"loop", "call", "delete"} \/ k.left = {}
  /\ \A w \in k.left : k.hb[w] # None
  /\ k.pc \in {"call", "delete"} => k.cur \in Worker /\ k.hb[k.cur] # None

\* Type invariant of the hashes, the workers and the copies running checks keep.
TypeOK ==
  /\ hb \in [Type -> Entries]
  /\ gp \in [Type -> Entries]
  /\ life \in [Worker -> {"up", "down", "leaving"}]
  /\ check \in [Checker -> CheckType]
  /\ reported \in [Type -> [Worker -> BOOLEAN]]
  /\ errors \in Nat /\ restarts \in Nat
  /\ \A c \in Checker : Located(check[c])

PunctualSpared ==
  \A w \in Punctual : life[w] = "up" =>
    /\ \A t \in Type : hb[t][w] # None => IsWorkerAlive(t, w)
    /\ \A c \in Checker : check[c].pc \in {"call", "delete"} => check[c].cur # w

\* While no worker ID has been started twice, a worker that sends its heartbeats
\* in time counts as alive and is never reported or deleted, whatever other masters
\* do and however old the maps are that they work from.
NoFalseDeath == restarts = 0 => PunctualSpared

\* Strengthens NoFalseDeath for its proof: the copies of a running check are fresh
\* as well, measured from the start of the check.
FreshCopies ==
  /\ PunctualSpared
  /\ \A w \in Punctual, c \in Checker : life[w] = "up" /\ check[c].hb[w] # None =>
       check[c].hb[w] <= HeartbeatTimeout + check[c].since

\* OnWorkerDead is called for a heartbeat that is older than the grace period, up
\* to the duration of a check: a grace period entry of an earlier silence, or one
\* that a slow check wrote after a heartbeat, never shortens the wait by more.
DeadWasSilent ==
  \A c \in Checker : check[c].pc = "call" =>
    check[c].hb[check[c].cur] + MaxCheck > GracePeriodTimeout

\* Strengthens DeadWasSilent for its proof: no grace period entry, in Redis or in
\* the copy of a check, is older than the heartbeat beside it by more than a check.
GraceFollowsBeat ==
  /\ \A t \in Type, w \in Worker :
       hb[t][w] # None /\ gp[t][w] # None => gp[t][w] <= hb[t][w] + MaxCheck
  /\ \A c \in Checker, w \in Worker : LET k == check[c] IN
       /\ k.pc = "grace" /\ k.hb[w] # None /\ gp[k.type][w] # None =>
            gp[k.type][w] <= k.hb[w] + MaxCheck
       /\ k.hb[w] # None /\ k.gp[w] # None => k.gp[w] <= k.hb[w] + MaxCheck
  /\ DeadWasSilent

\* The entry of a worker that died goes away: no entry is lost between the two
\* hashes, the copies and the callbacks that failed.
EntryCleared ==
  \A t \in Type, w \in Worker : life[w] = "down" ~> (life[w] # "down" \/ hb[t][w] = None)

\* A punctual worker that dies with a heartbeat in Redis is reported, after its
\* last heartbeat, to a callback that succeeds, unless it is started again.
CrashDetected ==
  \A t \in Type, w \in Punctual :
    (restarts = 0 /\ life[w] = "down" /\ hb[t][w] # None) ~> (restarts > 0 \/ reported[t][w])

\* task/README.md:13: a fault of a worker is detected.  A worker that returns while
\* the dead callback of its former life runs loses its fresh heartbeat to the
\* DeleteHeartbeat that follows, and its next death goes unnoticed.
EveryCrashDetected ==
  \A t \in Type, w \in Worker :
    (life[w] = "down" /\ hb[t][w] # None) ~> (life[w] # "down" \/ reported[t][w])
=============================================================================
