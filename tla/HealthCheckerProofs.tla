------------------------- MODULE HealthCheckerProofs ------------------------
(***************************************************************************)
(* Proofs about HealthChecker: its type invariant, that the dead were      *)
(* silent, and that a punctual worker is never taken for dead.             *)
(***************************************************************************)
EXTENDS HealthChecker, TLAPS

\* An entry that ages stays an entry, by at most one unit.
LEMMA OlderFacts ==
  ASSUME NEW a \in Age \cup {None}
  PROVE  /\ Older(a) \in Age \cup {None}
         /\ Older(a) = None <=> a = None
         /\ a # None => Older(a) \in Nat /\ a \in Nat /\ Older(a) <= a + 1 /\ a <= Older(a)
BY SetAssumption, TimeAssumption DEF Older, Age

\* What a unit of time does to the entries of a hash.
LEMMA AgedFacts ==
  ASSUME NEW m \in Entries
  PROVE  /\ Aged(m) \in Entries
         /\ \A w \in Worker : Aged(m)[w] = Older(m[w])
<1>1. \A w \in Worker : m[w] \in Age \cup {None}
  BY DEF Entries
<1>2. \A w \in Worker : Older(m[w]) \in Age \cup {None}
  BY <1>1, OlderFacts
<1> QED
  BY <1>2 DEF Aged, Entries

\* The local state of a check that starts or ends.
LEMMA IdleFacts ==
  /\ Idle \in CheckType /\ Located(Idle)
  /\ \A w \in Worker : Idle.hb[w] = None /\ Idle.gp[w] = None
  /\ NoEntries \in Entries
<1>1. NoEntries \in Entries /\ \A w \in Worker : NoEntries[w] = None
  BY SMTT(60) DEF NoEntries, Entries
<1> QED
  BY <1>1, TimeAssumption DEF Idle, CheckType, Located

\* Every step of the model keeps the type invariant.
LEMMA TypeStep == TypeOK /\ [Next]_vars => TypeOK'
<1> SUFFICES ASSUME TypeOK, [Next]_vars PROVE TypeOK'
  OBVIOUS
<1> USE DEF TypeOK
<1>a. \A c \in Checker : check[c] \in CheckType /\ Located(check[c])
  OBVIOUS
<1>1. CASE UNCHANGED vars
  BY <1>1 DEF vars
<1>2. ASSUME NEW t \in Type, NEW w \in Worker, Beat(t, w) PROVE TypeOK'
  <2>1. PICK age \in 0 .. BeatLag : SetHeartbeat(t, w, age)
    BY <1>2 DEF Beat
  <2>2. age \in Age
    BY TimeAssumption DEF Age
  <2> QED
    BY <2>1, <2>2 DEF SetHeartbeat, Entries
<1>3. ASSUME NEW t \in Type, NEW w \in Worker, Leave(t, w) PROVE TypeOK'
  BY <1>3 DEF Leave, Entries
<1>4. ASSUME NEW w \in Worker, Die(w) PROVE TypeOK'
  BY <1>4 DEF Die
<1>5. ASSUME NEW w \in Worker, Return(w) PROVE TypeOK'
  BY <1>5 DEF Return
<1>6. ASSUME NEW c \in Checker, BeginCheck(c) PROVE TypeOK'
  <2>1. [Idle EXCEPT !.pc = "scan"] \in CheckType /\ Located([Idle EXCEPT !.pc = "scan"])
    BY IdleFacts, SMTT(60) DEF CheckType, Located, Idle
  <2> QED
    BY <1>6, <2>1, Zenon DEF BeginCheck, Set
<1>7. ASSUME NEW c \in Checker, GetAllTaskTypes(c) PROVE TypeOK'
  <2> DEFINE k == [check[c] EXCEPT !.pc = "types", !.types = {t \in Type : Registered(hb[t]) # {}}]
  <2>1. k \in CheckType /\ Located(k)
    BY <1>a, <1>7, ZenonT(60) DEF CheckType, Located, GetAllTaskTypes
  <2> QED
    BY <1>7, <2>1, ZenonT(60) DEF GetAllTaskTypes, Set
<1>8. ASSUME NEW c \in Checker, NEW t \in Type, ReadHeartbeats(c, t) PROVE TypeOK'
  <2> DEFINE k == [check[c] EXCEPT !.pc = "grace", !.types = @ \ {t}, !.type = t,
                                  !.hb = hb[t], !.gp = NoEntries]
  <2>1. k \in CheckType /\ Located(k)
    BY <1>a, <1>8, IdleFacts, ZenonT(60) DEF CheckType, Located, ReadHeartbeats
  <2> QED
    BY <1>8, <2>1 DEF ReadHeartbeats, Set
<1>9. ASSUME NEW c \in Checker, ReadGrace(c) PROVE TypeOK'
  <2> DEFINE k == [check[c] EXCEPT !.pc = "loop", !.gp = gp[check[c].type], !.left = Registered(check[c].hb)]
  <2>1. k \in CheckType /\ Located(k)
    BY <1>a, <1>9, ZenonT(60) DEF CheckType, Located, ReadGrace, Registered
  <2> QED
    BY <1>9, <2>1 DEF ReadGrace, Set
<1>10. ASSUME NEW c \in Checker, NEW w \in Worker, CheckHealthy(c, w) PROVE TypeOK'
  <2> DEFINE k == [check[c] EXCEPT !.left = @ \ {w}]
  <2>1. k \in CheckType /\ Located(k)
    BY <1>a, <1>10, ZenonT(60) DEF CheckType, Located, CheckHealthy
  <2>2. gp' \in [Type -> Entries]
    BY <1>a, <1>10, Zenon DEF CheckHealthy, Entries
  <2> QED
    BY <1>10, <2>1, <2>2, Zenon DEF CheckHealthy, Set
<1>11. ASSUME NEW c \in Checker, NEW w \in Worker, CheckGrace(c, w) PROVE TypeOK'
  <2> DEFINE k == [check[c] EXCEPT !.left = @ \ {w}]
  <2>1. k \in CheckType /\ Located(k)
    BY <1>a, <1>11, ZenonT(60) DEF CheckType, Located, CheckGrace
  <2>2. check[c].since \in Age
    BY <1>a, TimeAssumption DEF CheckType, Age
  <2>3. gp' \in [Type -> Entries]
    BY <1>a, <1>11, <2>2, Zenon DEF CheckGrace, Entries
  <2> QED
    BY <1>11, <2>1, <2>3, Zenon DEF CheckGrace, Set
<1>12. ASSUME NEW c \in Checker, NEW w \in Worker, CheckDead(c, w) PROVE TypeOK'
  <2> DEFINE k == [check[c] EXCEPT !.pc = "call", !.left = @ \ {w}, !.cur = w]
  <2>1. k \in CheckType /\ Located(k)
    BY <1>a, <1>12, ZenonT(60) DEF CheckType, Located, CheckDead
  <2> QED
    BY <1>12, <2>1 DEF CheckDead, Set
<1>13. ASSUME NEW c \in Checker, CallbackSucceeds(c) PROVE TypeOK'
  <2> DEFINE k == [check[c] EXCEPT !.pc = "delete"]
  <2>1. k \in CheckType /\ Located(k)
    BY <1>a, <1>13, ZenonT(60) DEF CheckType, Located, CallbackSucceeds
  <2>2. reported' \in [Type -> [Worker -> BOOLEAN]]
    BY <1>a, <1>13, Zenon DEF CallbackSucceeds
  <2> QED
    BY <1>13, <2>1, <2>2, Zenon DEF CallbackSucceeds, Set
<1>14. ASSUME NEW c \in Checker, CallbackFails(c) PROVE TypeOK'
  <2> DEFINE k == [check[c] EXCEPT !.pc = "loop", !.cur = None]
  <2>1. k \in CheckType /\ Located(k)
    BY <1>a, <1>14, ZenonT(60) DEF CheckType, Located, CallbackFails
  <2> QED
    BY <1>14, <2>1 DEF CallbackFails, Set
<1>15. ASSUME NEW c \in Checker, DeleteHeartbeat(c) PROVE TypeOK'
  <2> DEFINE k == [check[c] EXCEPT !.pc = "loop", !.cur = None]
  <2>1. k \in CheckType /\ Located(k)
    BY <1>a, <1>15, ZenonT(60) DEF CheckType, Located, DeleteHeartbeat
  <2>2. hb' \in [Type -> Entries] /\ gp' \in [Type -> Entries]
    BY <1>a, <1>15, Zenon DEF DeleteHeartbeat, Entries
  <2> QED
    BY <1>15, <2>1, <2>2 DEF DeleteHeartbeat, Set
<1>16. ASSUME NEW c \in Checker, EndOfType(c) PROVE TypeOK'
  <2> DEFINE k == [check[c] EXCEPT !.pc = "types", !.type = None, !.hb = NoEntries, !.gp = NoEntries]
  <2>0. k \in CheckType
    BY <1>a, IdleFacts, ZenonT(60) DEF CheckType
  <2>1. Located(k)
    <3>1. k.pc = "types" /\ k.left = {} /\ \A w \in Worker : k.gp[w] = None
      BY <1>a, <1>16 DEF CheckType, EndOfType, NoEntries
    <3> QED
      BY <3>1 DEF Located
  <2> QED
    BY <1>16, <2>0, <2>1 DEF EndOfType, Set
<1>17. ASSUME NEW c \in Checker, EndOfCheck(c) PROVE TypeOK'
  BY <1>17, IdleFacts DEF EndOfCheck, Set
<1>18. ASSUME NEW c \in Checker, Fail(c) PROVE TypeOK'
  <2>1. PICK k \in CheckType : Located(k) /\ Set(c, k)
    <3> DEFINE k == check[c]
    <3>1. CASE k.pc = "scan" /\ Set(c, Idle)
      BY <3>1, IdleFacts
    <3>2. ASSUME NEW t \in k.types, Set(c, [k EXCEPT !.types = @ \ {t}])
          PROVE \E j \in CheckType : Located(j) /\ Set(c, j)
      <4>1. [k EXCEPT !.types = @ \ {t}] \in CheckType /\ Located([k EXCEPT !.types = @ \ {t}])
        BY <1>a, ZenonT(60) DEF CheckType, Located
      <4> QED
        BY <4>1, <3>2
    <3>3. CASE k.pc = "grace" /\ Set(c, [k EXCEPT !.pc = "loop", !.left = Registered(k.hb)])
      <4> DEFINE j == [k EXCEPT !.pc = "loop", !.left = Registered(k.hb)]
      <4>1. j \in CheckType /\ Located(j)
        BY <1>a, <3>3, ZenonT(60) DEF CheckType, Located, Registered
      <4> QED
        BY <4>1, <3>3
    <3>4. ASSUME k.pc = "loop", NEW w \in k.left, Set(c, [k EXCEPT !.left = @ \ {w}])
          PROVE \E j \in CheckType : Located(j) /\ Set(c, j)
      <4>1. [k EXCEPT !.left = @ \ {w}] \in CheckType /\ Located([k EXCEPT !.left = @ \ {w}])
        BY <1>a, <3>4, ZenonT(60) DEF CheckType, Located
      <4> QED
        BY <4>1, <3>4
    <3>5. CASE k.pc = "delete" /\ Set(c, [k EXCEPT !.pc = "loop", !.cur = None])
      <4> DEFINE j == [k EXCEPT !.pc = "loop", !.cur = None]
      <4>1. j \in CheckType /\ Located(j)
        BY <1>a, <3>5, ZenonT(60) DEF CheckType, Located
      <4> QED
        BY <4>1, <3>5
    <3> QED
      BY <1>18, <3>1, <3>2, <3>3, <3>4, <3>5, Zenon DEF Fail
  <2> QED
    BY <1>18, <2>1 DEF Fail, Set
<1>19. ASSUME NEW c \in Checker, Abort(c) PROVE TypeOK'
  BY <1>19, IdleFacts DEF Abort, Set
<1>20. CASE Tick
  <2>1. \A t \in Type : hb[t] \in Entries /\ gp[t] \in Entries
    OBVIOUS
  <2>2. hb' \in [Type -> Entries] /\ gp' \in [Type -> Entries]
    BY <1>20, <2>1, AgedFacts, Zenon DEF Tick
  <2>3. ASSUME NEW c \in Checker PROVE check'[c] \in CheckType /\ Located(check'[c])
    <3>1. CASE check[c].pc = "idle"
      BY <1>20, <3>1, <1>a, ZenonT(60) DEF Tick
    <3>2. CASE check[c].pc # "idle"
      <4> DEFINE j == [check[c] EXCEPT !.since = @ + 1, !.hb = Aged(@), !.gp = Aged(@)]
      <4>1. check[c].hb \in Entries /\ check[c].gp \in Entries /\ check[c].since \in 0 .. MaxCheck
        BY <1>a DEF CheckType
      <4>6. check[c].since < MaxCheck
        BY <1>20, <3>2, Zenon DEF Tick
      <4>2. check[c].since + 1 \in 0 .. MaxCheck
        BY <4>6, <4>1, TimeAssumption
      <4>3. j \in CheckType
        BY <1>a, <4>1, <4>2, AgedFacts, ZenonT(60) DEF CheckType
      <4>4. \A w \in Worker : check[c].hb[w] # None => Aged(check[c].hb)[w] # None
        BY <4>1, AgedFacts, OlderFacts DEF Entries
      <4>5. Located(j)
        BY <1>a, <4>4 DEF Located, CheckType
      <4> QED
        BY <1>20, <3>2, <4>3, <4>5, Zenon DEF Tick
    <3> QED
      BY <3>1, <3>2
  <2>4. check' \in [Checker -> CheckType]
    BY <1>20, <2>3, Zenon DEF Tick
  <2> QED
    BY <1>20, <2>2, <2>3, <2>4, Zenon DEF Tick
<1> QED
  BY <1>1, <1>2, <1>3, <1>4, <1>5, <1>6, <1>7, <1>8, <1>9, <1>10, <1>11, <1>12, <1>13,
     <1>14, <1>15, <1>16, <1>17, <1>18, <1>19, <1>20 DEF Next, Advance, Look

\* The variables of a running system have their types, and the hash entries that
\* a check works from exist.
THEOREM TypeCorrect == Spec => []TypeOK
<1>1. Init => TypeOK
  BY IdleFacts, TimeAssumption DEF Init, TypeOK
<1> QED
  BY <1>1, TypeStep, PTL DEF Spec

\* Only Return counts a restart.
LEMMA RestartsKept ==
  ASSUME TypeOK, [Next]_vars, restarts' = 0
  PROVE  restarts' = restarts
<1>1. ASSUME NEW w \in Worker, Return(w) PROVE FALSE
  BY <1>1 DEF Return, TypeOK
<1>2. CASE \E t \in Type, w \in Worker : Beat(t, w) \/ Leave(t, w) \/ Die(w)
  BY <1>2 DEF Beat, SetHeartbeat, Leave, Die
<1>3. ASSUME NEW c \in Checker, Advance(c) PROVE restarts' = restarts
  BY <1>3, Zenon DEF Advance, BeginCheck, GetAllTaskTypes, ReadHeartbeats, ReadGrace, Look, CheckHealthy,
              CheckGrace, CheckDead, DeleteHeartbeat, EndOfType, EndOfCheck
<1>4. ASSUME NEW c \in Checker, CallbackSucceeds(c) \/ CallbackFails(c) \/ Fail(c) \/ Abort(c)
      PROVE  restarts' = restarts
  BY <1>4 DEF CallbackSucceeds, CallbackFails, Fail, Abort
<1>5. CASE \E w \in Worker : Die(w)
  BY <1>5 DEF Die
<1> QED
  BY <1>1, <1>2, <1>3, <1>4, <1>5, Zenon DEF Next, Tick, vars

\* While no worker is started again, every step keeps the heartbeats and the copies
\* of punctual workers fresh.
LEMMA FreshStep == TypeOK /\ FreshCopies /\ [Next]_vars /\ restarts' = restarts => FreshCopies'
<1> SUFFICES ASSUME TypeOK, FreshCopies, [Next]_vars, restarts' = restarts PROVE FreshCopies'
  OBVIOUS
<1>a. \A c \in Checker : check[c] \in CheckType /\ Located(check[c])
  BY DEF TypeOK
<1>b. \A w \in Punctual : w \in Worker
  BY SetAssumption
<1> DEFINE Ok(k, w) == /\ k.hb[w] # None => k.hb[w] <= HeartbeatTimeout + k.since
                       /\ k.pc \in {"call", "delete"} => k.cur # w
<1>c. \A w \in Punctual, c \in Checker : life[w] = "up" => Ok(check[c], w)
  BY DEF FreshCopies, PunctualSpared
<1>d. ASSUME UNCHANGED <<hb, life>>, NEW c \in Checker, NEW k \in CheckType, Set(c, k),
             \A w \in Punctual : life[w] = "up" => Ok(k, w)
      PROVE  FreshCopies'
  <2>1. \A d \in Checker : check'[d] = IF d = c THEN k ELSE check[d]
    BY <1>d DEF Set, TypeOK
  <2>2. \A w \in Punctual, d \in Checker : life[w] = "up" => Ok(check'[d], w)
    BY <2>1, <1>c, <1>d
  <2> QED
    BY <2>2, <1>d DEF FreshCopies, PunctualSpared, IsWorkerAlive
<1>1. CASE UNCHANGED vars
  BY <1>1 DEF vars, FreshCopies, PunctualSpared, IsWorkerAlive
<1>2. ASSUME NEW t \in Type, NEW w \in Worker, Beat(t, w) PROVE FreshCopies'
  <2>1. PICK age \in 0 .. BeatLag : SetHeartbeat(t, w, age)
    BY <1>2 DEF Beat
  <2>2. age \in Nat /\ age <= HeartbeatTimeout
    BY TimeAssumption
  <2>3. \A u \in Type, v \in Worker : hb'[u][v] = IF u = t /\ v = w THEN age ELSE hb[u][v]
    BY <2>1 DEF SetHeartbeat, TypeOK, Entries
  <2> QED
    BY <1>b, <2>1, <2>2, <2>3 DEF SetHeartbeat, FreshCopies, PunctualSpared, IsWorkerAlive
<1>3. ASSUME NEW t \in Type, NEW w \in Worker, Leave(t, w) PROVE FreshCopies'
  <2>1. \A u \in Type, v \in Worker : hb'[u][v] = IF u = t /\ v = w THEN None ELSE hb[u][v]
    BY <1>3 DEF Leave, TypeOK, Entries
  <2>2. \A v \in Worker : life'[v] = "up" => life[v] = "up"
    BY <1>3 DEF Leave, TypeOK
  <2> QED
    BY <1>3, <1>b, <2>1, <2>2 DEF Leave, FreshCopies, PunctualSpared, IsWorkerAlive
<1>4. ASSUME NEW w \in Worker, Die(w) PROVE FreshCopies'
  <2>2. \A v \in Worker : life'[v] = "up" => life[v] = "up"
    BY <1>4 DEF Die, TypeOK
  <2> QED
    BY <1>4, <1>b, <2>2 DEF Die, FreshCopies, PunctualSpared, IsWorkerAlive
<1>5. ASSUME NEW w \in Worker, Return(w) PROVE FreshCopies'
  BY <1>5 DEF Return, TypeOK
<1>6. ASSUME NEW c \in Checker, BeginCheck(c) PROVE FreshCopies'
  <2> DEFINE k == [Idle EXCEPT !.pc = "scan"]
  <2>1. k \in CheckType
    BY IdleFacts DEF CheckType
  <2>2. k.hb = Idle.hb /\ k.pc = "scan"
    BY DEF Idle
  <2>3. \A w \in Punctual : Ok(k, w)
    BY <1>b, <2>2, IdleFacts
  <2> QED
    BY <1>6, <1>d, <2>1, <2>3, Zenon DEF BeginCheck
<1>7. ASSUME NEW c \in Checker, GetAllTaskTypes(c) PROVE FreshCopies'
  <2> DEFINE k == [check[c] EXCEPT !.pc = "types", !.types = {t \in Type : Registered(hb[t]) # {}}]
  <2>1. k \in CheckType /\ k.hb = check[c].hb /\ k.since = check[c].since /\ k.pc = "types"
    BY <1>a, Zenon DEF CheckType
  <2>2. \A w \in Punctual : life[w] = "up" => Ok(k, w)
    <3> HIDE DEF k
    <3> QED
      BY <1>c, <2>1
  <2> QED
    BY <1>7, <1>d, <2>1, <2>2, Zenon DEF GetAllTaskTypes
<1>8. ASSUME NEW c \in Checker, NEW t \in Type, ReadHeartbeats(c, t) PROVE FreshCopies'
  <2> DEFINE k == [check[c] EXCEPT !.pc = "grace", !.types = @ \ {t}, !.type = t,
                                  !.hb = hb[t], !.gp = NoEntries]
  <2>0. hb[t] \in Entries /\ check[c].since \in Nat
    BY <1>a, TimeAssumption DEF CheckType, TypeOK
  <2>1. k \in CheckType /\ k.hb = hb[t] /\ k.since = check[c].since /\ k.pc = "grace"
    BY <1>a, <2>0, IdleFacts, Zenon DEF CheckType
  <2>2. ASSUME NEW w \in Punctual, life[w] = "up", hb[t][w] # None
        PROVE  hb[t][w] <= HeartbeatTimeout + check[c].since
    <3>1. hb[t][w] <= HeartbeatTimeout
      BY <2>2 DEF FreshCopies, PunctualSpared, IsWorkerAlive
    <3>2. hb[t][w] \in Nat
      BY <2>2, <1>b DEF TypeOK, Entries, Age
    <3> QED
      BY <3>1, <3>2, <2>0, TimeAssumption
  <2>3. \A w \in Punctual : life[w] = "up" => Ok(k, w)
    BY <2>1, <2>2
  <2> QED
    BY <1>8, <1>d, <2>1, <2>3, Zenon DEF ReadHeartbeats
<1>9. ASSUME NEW c \in Checker, ReadGrace(c) PROVE FreshCopies'
  <2> DEFINE k == [check[c] EXCEPT !.pc = "loop", !.gp = gp[check[c].type], !.left = Registered(check[c].hb)]
  <2>1. k \in CheckType /\ k.hb = check[c].hb /\ k.since = check[c].since /\ k.pc = "loop"
    BY <1>a, <1>9, ZenonT(60) DEF CheckType, Located, ReadGrace, Registered, TypeOK
  <2>2. \A w \in Punctual : life[w] = "up" => Ok(k, w)
    <3> HIDE DEF k
    <3> QED
      BY <1>c, <2>1
  <2> QED
    BY <1>9, <1>d, <2>1, <2>2, Zenon DEF ReadGrace
<1>10. ASSUME NEW c \in Checker, NEW w \in Worker, CheckHealthy(c, w) \/ CheckGrace(c, w)
       PROVE  FreshCopies'
  <2> DEFINE k == [check[c] EXCEPT !.left = @ \ {w}]
  <2>1. k \in CheckType /\ k.hb = check[c].hb /\ k.since = check[c].since /\ k.pc = check[c].pc /\ k.cur = check[c].cur
    BY <1>a DEF CheckType
  <2>2. \A v \in Punctual : life[v] = "up" => Ok(k, v)
    <3> HIDE DEF k
    <3> QED
      BY <1>c, <2>1
  <2> QED
    BY <1>10, <1>d, <2>1, <2>2, Zenon DEF CheckHealthy, CheckGrace
<1>11. ASSUME NEW c \in Checker, NEW w \in Worker, CheckDead(c, w) PROVE FreshCopies'
  <2> DEFINE k == [check[c] EXCEPT !.pc = "call", !.left = @ \ {w}, !.cur = w]
  <2>1. k \in CheckType /\ k.hb = check[c].hb /\ k.since = check[c].since /\ k.cur = w
    BY <1>a, Zenon DEF CheckType
  <2>2. check[c].hb[w] # None /\ check[c].hb[w] \in Nat /\ check[c].since \in Nat
    BY <1>a, <1>11, TimeAssumption DEF CheckDead, Located, CheckType, Entries, Age
  <2>3. ~ (Elapsed(check[c], w) <= HeartbeatTimeout)
    BY <1>11 DEF CheckDead, Status
  <2>4. ~ (check[c].hb[w] <= HeartbeatTimeout + check[c].since)
    BY <2>2, <2>3, TimeAssumption DEF Elapsed
  <2>5. w \in Punctual => life[w] # "up"
    BY <1>c, <2>2, <2>4
  <2>6. \A v \in Punctual : life[v] = "up" => Ok(k, v)
    BY <1>c, <2>1, <2>5
  <2> QED
    BY <1>11, <1>d, <2>1, <2>6, Zenon DEF CheckDead
<1>12. ASSUME NEW c \in Checker, CallbackSucceeds(c) PROVE FreshCopies'
  <2> DEFINE k == [check[c] EXCEPT !.pc = "delete"]
  <2>1. k \in CheckType /\ k.hb = check[c].hb /\ k.since = check[c].since /\ k.cur = check[c].cur
    BY <1>a DEF CheckType
  <2>2. \A w \in Punctual : life[w] = "up" => Ok(k, w)
    <3> HIDE DEF k
    <3> QED
      BY <1>c, <2>1, <1>12 DEF CallbackSucceeds
  <2> QED
    BY <1>12, <1>d, <2>1, <2>2, Zenon DEF CallbackSucceeds
<1>13. ASSUME NEW c \in Checker, CallbackFails(c) PROVE FreshCopies'
  <2> DEFINE k == [check[c] EXCEPT !.pc = "loop", !.cur = None]
  <2>1. k \in CheckType /\ k.hb = check[c].hb /\ k.since = check[c].since /\ k.pc = "loop"
    BY <1>a, ZenonT(60) DEF CheckType
  <2>2. \A w \in Punctual : life[w] = "up" => Ok(k, w)
    <3> HIDE DEF k
    <3> QED
      BY <1>c, <2>1
  <2> QED
    BY <1>13, <1>d, <2>1, <2>2, Zenon DEF CallbackFails
<1>14. ASSUME NEW c \in Checker, DeleteHeartbeat(c) PROVE FreshCopies'
  <2> DEFINE k == [check[c] EXCEPT !.pc = "loop", !.cur = None]
  <2>1. k \in CheckType /\ k.hb = check[c].hb /\ k.since = check[c].since /\ k.pc = "loop"
    BY <1>a, Zenon DEF CheckType
  <2>2. \A d \in Checker : check'[d] = IF d = c THEN k ELSE check[d]
    BY <1>14 DEF DeleteHeartbeat, Set, TypeOK
  <2>3. \A w \in Punctual, d \in Checker : life[w] = "up" => Ok(check'[d], w)
    <3> HIDE DEF k
    <3> QED
      BY <2>1, <2>2, <1>c
  <2>4. \A u \in Type, v \in Worker : hb'[u][v] = hb[u][v] \/ hb'[u][v] = None
    BY <1>14, <1>a DEF DeleteHeartbeat, TypeOK, Entries, Located
  <2> QED
    BY <1>14, <1>b, <2>3, <2>4 DEF DeleteHeartbeat, FreshCopies, PunctualSpared, IsWorkerAlive
<1>15. ASSUME NEW c \in Checker, EndOfType(c) PROVE FreshCopies'
  <2> DEFINE k == [check[c] EXCEPT !.pc = "types", !.type = None, !.hb = NoEntries, !.gp = NoEntries]
  <2>1. k \in CheckType /\ k.hb = NoEntries /\ k.pc = "types"
    BY <1>a, IdleFacts, Zenon DEF CheckType
  <2>2. \A w \in Punctual : Ok(k, w)
    BY <2>1, <1>b DEF NoEntries
  <2> QED
    BY <1>15, <1>d, <2>1, <2>2, Zenon DEF EndOfType
<1>16. ASSUME NEW c \in Checker, UNCHANGED <<hb, life>>, Set(c, Idle) PROVE FreshCopies'
  <2>1. \A w \in Punctual : Ok(Idle, w)
    BY <1>b, IdleFacts DEF Idle
  <2> QED
    BY <1>16, <1>d, <2>1, IdleFacts
<1>17. ASSUME NEW c \in Checker, Fail(c) PROVE FreshCopies'
  <2> DEFINE k == check[c]
  <2>1. CASE k.pc = "scan" /\ Set(c, Idle)
    BY <2>1, <1>16, <1>17 DEF Fail
  <2>2. ASSUME NEW t \in k.types, Set(c, [k EXCEPT !.types = @ \ {t}]) PROVE FreshCopies'
    <3> DEFINE j == [k EXCEPT !.types = @ \ {t}]
    <3>1. j \in CheckType /\ j.hb = k.hb /\ j.since = k.since /\ j.pc = k.pc /\ j.cur = k.cur
      BY <1>a DEF CheckType
    <3>2. \A v \in Punctual : life[v] = "up" => Ok(j, v)
      <4> HIDE DEF j
      <4> QED
        BY <1>c, <3>1
    <3> QED
      BY <3>1, <3>2, <2>2, <1>17, <1>d, Zenon DEF Fail
  <2>3. CASE k.pc = "grace" /\ Set(c, [k EXCEPT !.pc = "loop", !.left = Registered(k.hb)])
    <3> DEFINE j == [k EXCEPT !.pc = "loop", !.left = Registered(k.hb)]
    <3>1. j \in CheckType /\ j.hb = k.hb /\ j.since = k.since /\ j.pc = "loop"
      BY <1>a, Zenon DEF CheckType, Registered
    <3>2. \A v \in Punctual : life[v] = "up" => Ok(j, v)
      <4> HIDE DEF j
      <4> QED
        BY <1>c, <3>1
    <3> QED
      BY <3>1, <3>2, <2>3, <1>17, <1>d, Zenon DEF Fail
  <2>4. ASSUME NEW w \in k.left, Set(c, [k EXCEPT !.left = @ \ {w}]) PROVE FreshCopies'
    <3> DEFINE j == [k EXCEPT !.left = @ \ {w}]
    <3>1. j \in CheckType /\ j.hb = k.hb /\ j.since = k.since /\ j.pc = k.pc /\ j.cur = k.cur
      BY <1>a DEF CheckType
    <3>2. \A v \in Punctual : life[v] = "up" => Ok(j, v)
      <4> HIDE DEF j
      <4> QED
        BY <1>c, <3>1
    <3> QED
      BY <3>1, <3>2, <2>4, <1>17, <1>d, Zenon DEF Fail
  <2>5. CASE k.pc = "delete" /\ Set(c, [k EXCEPT !.pc = "loop", !.cur = None])
    <3> DEFINE j == [k EXCEPT !.pc = "loop", !.cur = None]
    <3>1. j \in CheckType /\ j.hb = k.hb /\ j.since = k.since /\ j.pc = "loop"
      BY <1>a, ZenonT(60) DEF CheckType
    <3>2. \A v \in Punctual : life[v] = "up" => Ok(j, v)
      <4> HIDE DEF j
      <4> QED
        BY <1>c, <3>1
    <3> QED
      BY <3>1, <3>2, <2>5, <1>17, <1>d, Zenon DEF Fail
  <2> QED
    BY <1>17, <2>1, <2>2, <2>3, <2>4, <2>5, Zenon DEF Fail
<1>18. CASE Tick
  <2>1. ASSUME NEW w \in Punctual, life[w] = "up", NEW t \in Type, hb'[t][w] # None
        PROVE  hb'[t][w] <= HeartbeatTimeout
    <3>1. hb'[t][w] = Older(hb[t][w]) /\ hb[t][w] \in Age \cup {None}
      BY <1>18, <1>b, AgedFacts, ZenonT(60) DEF Tick, TypeOK, Entries
    <3>2. hb[t][w] # None /\ hb[t][w] < HeartbeatTimeout
      BY <1>18, <2>1, <3>1, OlderFacts, Zenon DEF Tick
    <3> QED
      BY <3>1, <3>2, OlderFacts, TimeAssumption
  <2>2. ASSUME NEW w \in Punctual, life[w] = "up", NEW c \in Checker PROVE Ok(check'[c], w)
    <3>1. CASE check[c].pc = "idle"
      BY <1>18, <2>2, <3>1, <1>c, Zenon DEF Tick
    <3>2. CASE check[c].pc # "idle"
      <4> DEFINE k == check[c]
                 j == [k EXCEPT !.since = @ + 1, !.hb = Aged(@), !.gp = Aged(@)]
      <4>1. check'[c] = j
        BY <1>18, <3>2, Zenon DEF Tick
      <4>2. /\ j.since = k.since + 1 /\ j.hb = Aged(k.hb) /\ j.pc = k.pc /\ j.cur = k.cur
            /\ k.hb \in Entries /\ k.since \in Nat
        BY <1>a, TimeAssumption DEF CheckType
      <4>3. Aged(k.hb)[w] = Older(k.hb[w]) /\ k.hb[w] \in Age \cup {None}
        BY <4>2, <1>b, AgedFacts DEF Entries
      <4>4. Aged(k.hb)[w] # None => Aged(k.hb)[w] <= HeartbeatTimeout + (k.since + 1)
        BY <4>2, <4>3, <1>c, <2>2, OlderFacts, TimeAssumption
      <4> QED
        BY <4>1, <4>2, <4>4, <1>c, <2>2
    <3> QED
      BY <3>1, <3>2
  <2> QED
    BY <1>18, <2>1, <2>2, Zenon DEF Tick, FreshCopies, PunctualSpared, IsWorkerAlive
<1> QED
  BY <1>1, <1>2, <1>3, <1>4, <1>5, <1>6, <1>7, <1>8, <1>9, <1>10, <1>11, <1>12, <1>13,
     <1>14, <1>15, <1>16, <1>17, <1>18 DEF Next, Advance, Look, EndOfCheck, Abort

\* A punctual worker that is never started twice is not reported dead: no number
\* of checkers, no slow callback and no lost Redis command changes that.
THEOREM PunctualSurvive == Spec => []NoFalseDeath
<1> DEFINE IInv == restarts = 0 => FreshCopies
<1>1. Init => IInv
  BY SetAssumption, IdleFacts DEF Init, FreshCopies, PunctualSpared, IsWorkerAlive, NoEntries, Idle
<1>2. IInv => NoFalseDeath
  BY DEF FreshCopies, NoFalseDeath
<1>3. TypeOK /\ IInv /\ [Next]_vars => IInv'
  BY FreshStep, RestartsKept
<1> QED
  BY <1>1, <1>2, <1>3, TypeCorrect, PTL DEF Spec

\* Every step keeps the grace period entries, in Redis and in the copies, from
\* being much older than the heartbeats beside them.
LEMMA GraceStep == TypeOK /\ GraceFollowsBeat /\ [Next]_vars => GraceFollowsBeat'
<1> SUFFICES ASSUME TypeOK, GraceFollowsBeat, [Next]_vars PROVE GraceFollowsBeat'
  OBVIOUS
<1>a. \A c \in Checker : check[c] \in CheckType /\ Located(check[c])
  BY DEF TypeOK
<1>b. /\ \A t \in Type, w \in Worker : hb[t][w] \in Age \cup {None} /\ gp[t][w] \in Age \cup {None}
      /\ \A c \in Checker, w \in Worker : check[c].hb[w] \in Age \cup {None} /\ check[c].gp[w] \in Age \cup {None}
      /\ \A c \in Checker : check[c].since \in Nat /\ check[c].since <= MaxCheck
  BY <1>a, TimeAssumption DEF TypeOK, CheckType, Entries
<1> DEFINE Near(b, g) == b # None /\ g # None => g <= b + MaxCheck
           Copies(k) == /\ \A w \in Worker : Near(k.hb[w], k.gp[w])
                        /\ k.pc = "call" => k.hb[k.cur] + MaxCheck > GracePeriodTimeout
           Settled(k) == k.pc \notin {"grace", "call"}
           Pending(k, g) == k.pc = "grace" => \A w \in Worker : Near(k.hb[w], g[k.type][w])
           BeatsKept == \A t \in Type, w \in Worker : hb'[t][w] = hb[t][w] \/ gp'[t][w] = None
           GraceYoung == \A t \in Type, w \in Worker :
                           \/ gp'[t][w] = gp[t][w] \/ gp'[t][w] = None
                           \/ gp'[t][w] \in Nat /\ gp'[t][w] <= MaxCheck
<1>c. /\ \A t \in Type, w \in Worker : Near(hb[t][w], gp[t][w])
      /\ \A c \in Checker : Copies(check[c]) /\ Pending(check[c], gp)
  BY DEF GraceFollowsBeat, DeadWasSilent
<1>d. ASSUME \A t \in Type, w \in Worker : Near(hb'[t][w], gp'[t][w]),
             \A c \in Checker : Copies(check'[c]) /\ Pending(check'[c], gp')
      PROVE  GraceFollowsBeat'
  BY <1>d DEF GraceFollowsBeat, DeadWasSilent
<1> HIDE DEF Copies, Pending, Settled, BeatsKept, GraceYoung
<1>e. ASSUME NEW c \in Checker, NEW k, Set(c, k), UNCHANGED <<hb, gp>>,
             Copies(k), Pending(k, gp)
      PROVE  GraceFollowsBeat'
  <2>1. \A d \in Checker : check'[d] = IF d = c THEN k ELSE check[d]
    BY <1>e DEF Set, TypeOK
  <2>2. \A d \in Checker : Copies(check'[d]) /\ Pending(check'[d], gp)
    BY <2>1, <1>c, <1>e
  <2> QED
    BY <2>2, <1>c, <1>d, <1>e
<1>f. ASSUME NEW c \in Checker, NEW k, Set(c, k), Copies(k), Pending(k, gp'),
             BeatsKept, GraceYoung
      PROVE  GraceFollowsBeat'
  <2>1. \A d \in Checker : check'[d] = IF d = c THEN k ELSE check[d]
    BY <1>f DEF Set, TypeOK
  <2>2. \A d \in Checker : Copies(check'[d])
    BY <2>1, <1>c, <1>f
  <2>3. ASSUME NEW d \in Checker PROVE Pending(check'[d], gp')
    <3>1. CASE d = c
      BY <3>1, <2>1, <1>f
    <3>2. CASE d # c
      <4>1. ASSUME check[d].pc = "grace", NEW w \in Worker
            PROVE  Near(check[d].hb[w], gp'[check[d].type][w])
        <5>1. check[d].type \in Type
          BY <4>1, <1>a DEF Located
        <5>2. Near(check[d].hb[w], gp[check[d].type][w])
          BY <1>c, <4>1 DEF Pending
        <5> QED
          BY <5>1, <5>2, <1>b, <1>f, TimeAssumption DEF Age, GraceYoung
      <4> QED
        BY <4>1, <3>2, <2>1 DEF Pending
    <3> QED
      BY <3>1, <3>2
  <2>4. ASSUME NEW t \in Type, NEW w \in Worker PROVE Near(hb'[t][w], gp'[t][w])
    BY <1>b, <1>c, <1>f, TimeAssumption DEF Age, BeatsKept, GraceYoung
  <2> QED
    BY <2>2, <2>3, <2>4, <1>d
<1>g. ASSUME UNCHANGED check,
             \A t \in Type, w \in Worker : \/ hb'[t][w] = hb[t][w] /\ gp'[t][w] = gp[t][w]
                                          \/ gp'[t][w] = None
      PROVE  GraceFollowsBeat'
  <2>1. \A t \in Type, w \in Worker : Near(hb'[t][w], gp'[t][w])
    BY <1>c, <1>g
  <2>2. ASSUME NEW c \in Checker PROVE Pending(check[c], gp')
    <3>1. ASSUME check[c].pc = "grace", NEW w \in Worker
          PROVE  Near(check[c].hb[w], gp'[check[c].type][w])
      <4>1. check[c].type \in Type
        BY <3>1, <1>a DEF Located
      <4>2. Near(check[c].hb[w], gp[check[c].type][w])
        BY <1>c, <3>1 DEF Pending
      <4> QED
        BY <4>1, <4>2, <1>g
    <3> QED
      BY <3>1 DEF Pending
  <2> QED
    BY <2>1, <2>2, <1>c, <1>d, <1>g
<1>1. CASE UNCHANGED vars
  BY <1>1, <1>g DEF vars
<1>2. ASSUME NEW t \in Type, NEW w \in Worker, Beat(t, w) PROVE GraceFollowsBeat'
  <2>1. PICK age \in 0 .. BeatLag : SetHeartbeat(t, w, age)
    BY <1>2 DEF Beat
  <2> QED
    BY <2>1, <1>g DEF SetHeartbeat, TypeOK, Entries
<1>3. ASSUME NEW t \in Type, NEW w \in Worker, Leave(t, w) PROVE GraceFollowsBeat'
  BY <1>3, <1>g DEF Leave, TypeOK, Entries
<1>4. ASSUME NEW w \in Worker, Die(w) \/ Return(w) PROVE GraceFollowsBeat'
  BY <1>4, <1>g DEF Die, Return
<1>6. ASSUME NEW c \in Checker, NEW k \in CheckType, Set(c, k), UNCHANGED <<hb, gp>>,
             \A w \in Worker : k.hb[w] = None, Settled(k)
      PROVE  GraceFollowsBeat'
  <2>1. Copies(k)
    BY <1>6 DEF Copies, Settled
  <2>2. Pending(k, gp)
    BY <1>6 DEF Pending, Settled
  <2> QED
    BY <1>6, <1>e, <2>1, <2>2
<1>7. ASSUME NEW c \in Checker, UNCHANGED <<hb, gp>>, Set(c, Idle) PROVE GraceFollowsBeat'
  <2>1. Settled(Idle)
    BY DEF Idle, Settled
  <2> QED
    BY <1>6, <1>7, <2>1, IdleFacts
<1>8. ASSUME NEW c \in Checker, BeginCheck(c) PROVE GraceFollowsBeat'
  <2> DEFINE k == [Idle EXCEPT !.pc = "scan"]
  <2>1. k \in CheckType /\ k.hb = Idle.hb /\ Settled(k)
    BY IdleFacts DEF Settled, CheckType
  <2>2. \A w \in Worker : k.hb[w] = None
    BY <2>1, IdleFacts
  <2> QED
    BY <1>6, <1>8, <2>1, <2>2, Zenon DEF BeginCheck
<1>9. ASSUME NEW c \in Checker, GetAllTaskTypes(c) PROVE GraceFollowsBeat'
  <2> DEFINE k == [check[c] EXCEPT !.pc = "types", !.types = {t \in Type : Registered(hb[t]) # {}}]
  <2>1. k \in CheckType /\ k.hb = check[c].hb /\ k.gp = check[c].gp /\ Settled(k)
    BY <1>a, Zenon DEF Settled, CheckType
  <2>2. Set(c, k) /\ UNCHANGED <<hb, gp>>
    BY <1>9 DEF GetAllTaskTypes
  <2> HIDE DEF k
  <2>3. Copies(k) /\ Pending(k, gp)
    BY <2>1, <1>c DEF Copies, Pending, Settled
  <2> QED
    BY <1>e, <2>2, <2>3
<1>10. ASSUME NEW c \in Checker, NEW t \in Type, ReadHeartbeats(c, t) PROVE GraceFollowsBeat'
  <2> DEFINE k == [check[c] EXCEPT !.pc = "grace", !.types = @ \ {t}, !.type = t,
                                  !.hb = hb[t], !.gp = NoEntries]
  <2>1. k.hb = hb[t] /\ k.gp = NoEntries /\ k.pc = "grace" /\ k.type = t
    BY <1>a DEF CheckType
  <2>2. \A w \in Worker : k.gp[w] = None
    BY <2>1 DEF NoEntries
  <2>3. Set(c, k) /\ UNCHANGED <<hb, gp>>
    BY <1>10 DEF ReadHeartbeats
  <2> HIDE DEF k
  <2>4. Copies(k) /\ Pending(k, gp)
    BY <2>1, <2>2, <1>c DEF Copies, Pending
  <2> QED
    BY <1>e, <2>3, <2>4
<1>11. ASSUME NEW c \in Checker, ReadGrace(c) PROVE GraceFollowsBeat'
  <2> DEFINE k == [check[c] EXCEPT !.pc = "loop", !.gp = gp[check[c].type], !.left = Registered(check[c].hb)]
  <2>1. k.hb = check[c].hb /\ k.gp = gp[check[c].type] /\ Settled(k)
    BY <1>a DEF Settled, CheckType
  <2>2. \A w \in Worker : Near(check[c].hb[w], gp[check[c].type][w])
    BY <1>11, <1>c DEF ReadGrace, Pending
  <2>3. Set(c, k) /\ UNCHANGED <<hb, gp>>
    BY <1>11 DEF ReadGrace
  <2> HIDE DEF k
  <2>4. Copies(k) /\ Pending(k, gp)
    BY <2>1, <2>2 DEF Copies, Pending, Settled
  <2> QED
    BY <1>e, <2>3, <2>4
<1>12. ASSUME NEW c \in Checker, NEW w \in Worker, CheckHealthy(c, w) \/ CheckGrace(c, w)
       PROVE  GraceFollowsBeat'
  <2> DEFINE k == [check[c] EXCEPT !.left = @ \ {w}]
  <2>1. check[c].pc = "loop" /\ Set(c, k) /\ UNCHANGED hb
    BY <1>12 DEF CheckHealthy, CheckGrace
  <2>2. k \in CheckType /\ k.hb = check[c].hb /\ k.gp = check[c].gp /\ Settled(k)
    BY <1>a, <2>1 DEF Settled, CheckType
  <2>3. Copies(k) /\ Pending(k, gp')
    <3> HIDE DEF k
    <3> QED
      BY <2>2, <1>c DEF Copies, Pending, Settled
  <2>4. \/ gp' = gp
        \/ gp' = [gp EXCEPT ![check[c].type][w] = None]
        \/ gp' = [gp EXCEPT ![check[c].type][w] = check[c].since]
    BY <1>12 DEF CheckHealthy, CheckGrace
  <2>5. GraceYoung
    BY <2>4, <1>b, SMTT(60) DEF GraceYoung, TypeOK, Entries
  <2>6. BeatsKept
    BY <2>1 DEF BeatsKept
  <2>7. Set(c, k)
    BY <2>1
  <2> HIDE DEF k
  <2> QED
    BY ONLY <2>3, <2>5, <2>6, <2>7, <1>f
<1>13. ASSUME NEW c \in Checker, NEW w \in Worker, CheckDead(c, w) PROVE GraceFollowsBeat'
  <2> DEFINE k == [check[c] EXCEPT !.pc = "call", !.left = @ \ {w}, !.cur = w]
  <2>1. k.hb = check[c].hb /\ k.gp = check[c].gp /\ k.pc = "call" /\ k.cur = w
    BY <1>a DEF CheckType
  <2>2. check[c].hb[w] # None /\ check[c].gp[w] # None /\ check[c].gp[w] > GracePeriodTimeout
    BY <1>a, <1>13 DEF CheckDead, Located, Status
  <2>3. check[c].hb[w] + MaxCheck > GracePeriodTimeout
    <3>1. Near(check[c].hb[w], check[c].gp[w])
      BY <1>c DEF Copies
    <3> QED
      BY <2>2, <3>1, <1>b, TimeAssumption DEF Age
  <2>4. Set(c, k) /\ UNCHANGED <<hb, gp>>
    BY <1>13 DEF CheckDead
  <2> HIDE DEF k
  <2>5. Copies(k) /\ Pending(k, gp)
    BY <2>1, <2>3, <1>c DEF Copies, Pending
  <2> QED
    BY <1>e, <2>4, <2>5
<1>14. ASSUME NEW c \in Checker, CallbackSucceeds(c) PROVE GraceFollowsBeat'
  <2> DEFINE k == [check[c] EXCEPT !.pc = "delete"]
  <2>1. k \in CheckType /\ k.hb = check[c].hb /\ k.gp = check[c].gp /\ Settled(k)
    BY <1>a DEF Settled, CheckType
  <2>2. Set(c, k) /\ UNCHANGED <<hb, gp>>
    BY <1>14 DEF CallbackSucceeds
  <2> HIDE DEF k
  <2>3. Copies(k) /\ Pending(k, gp)
    BY <2>1, <1>c DEF Copies, Pending, Settled
  <2> QED
    BY <1>e, <2>2, <2>3
<1>15. ASSUME NEW c \in Checker, Set(c, [check[c] EXCEPT !.pc = "loop", !.cur = None]), UNCHANGED <<hb, gp>>
       PROVE  GraceFollowsBeat'
  <2> DEFINE k == [check[c] EXCEPT !.pc = "loop", !.cur = None]
  <2>1. k \in CheckType /\ k.hb = check[c].hb /\ k.gp = check[c].gp /\ Settled(k)
    BY <1>a, Zenon DEF Settled, CheckType
  <2>2. Set(c, k)
    BY <1>15
  <2> HIDE DEF k
  <2>3. Copies(k) /\ Pending(k, gp)
    BY <2>1, <1>c DEF Copies, Pending, Settled
  <2> QED
    BY <1>e, <1>15, <2>2, <2>3
<1>16. ASSUME NEW c \in Checker, DeleteHeartbeat(c) PROVE GraceFollowsBeat'
  <2> DEFINE k == [check[c] EXCEPT !.pc = "loop", !.cur = None]
  <2>1. k \in CheckType /\ k.hb = check[c].hb /\ k.gp = check[c].gp /\ Settled(k)
    BY <1>a, Zenon DEF Settled, CheckType
  <2>2. Set(c, k)
    BY <1>16 DEF DeleteHeartbeat
  <2>3. Copies(k) /\ Pending(k, gp')
    <3> HIDE DEF k
    <3> QED
      BY <2>1, <1>c DEF Copies, Pending, Settled
  <2>4. \A t \in Type, w \in Worker : \/ hb'[t][w] = hb[t][w] /\ gp'[t][w] = gp[t][w]
                                      \/ gp'[t][w] = None
    BY <1>16, <1>a DEF DeleteHeartbeat, Located, TypeOK, Entries
  <2>5. BeatsKept
    BY <2>4 DEF BeatsKept
  <2>6. GraceYoung
    BY <2>4 DEF GraceYoung
  <2> HIDE DEF k
  <2> QED
    BY ONLY <2>2, <2>3, <2>5, <2>6, <1>f
<1>17. ASSUME NEW c \in Checker, EndOfType(c) PROVE GraceFollowsBeat'
  <2> DEFINE k == [check[c] EXCEPT !.pc = "types", !.type = None, !.hb = NoEntries, !.gp = NoEntries]
  <2>1. k \in CheckType /\ k.hb = NoEntries /\ Settled(k)
    BY <1>a, IdleFacts, Zenon DEF Settled, CheckType
  <2>2. Set(c, k) /\ UNCHANGED <<hb, gp>>
    BY <1>17 DEF EndOfType
  <2>3. \A w \in Worker : k.hb[w] = None
    BY <2>1 DEF NoEntries
  <2> HIDE DEF k
  <2> QED
    BY <1>6, <2>1, <2>2, <2>3
<1>18. ASSUME NEW c \in Checker, Fail(c) PROVE GraceFollowsBeat'
  <2> DEFINE k == check[c]
  <2>0. UNCHANGED <<hb, gp>>
    BY <1>18 DEF Fail
  <2>1. CASE Set(c, Idle)
    BY <2>0, <2>1, <1>7
  <2>2. ASSUME NEW t \in k.types, Set(c, [k EXCEPT !.types = @ \ {t}]) PROVE GraceFollowsBeat'
    <3> DEFINE j == [k EXCEPT !.types = @ \ {t}]
    <3>1. /\ j \in CheckType /\ j.hb = k.hb /\ j.gp = k.gp /\ j.pc = k.pc /\ j.cur = k.cur
          /\ j.type = k.type
      BY <1>a DEF CheckType
    <3>2. Set(c, j)
      BY <2>2
    <3> HIDE DEF j
    <3>3. Copies(j) /\ Pending(j, gp)
      BY <3>1, <1>c DEF Copies, Pending, Settled
    <3> QED
      BY <1>e, <3>2, <3>3, <2>0
  <2>3. CASE k.pc = "grace" /\ Set(c, [k EXCEPT !.pc = "loop", !.left = Registered(k.hb)])
    <3> DEFINE j == [k EXCEPT !.pc = "loop", !.left = Registered(k.hb)]
    <3>1. j \in CheckType /\ j.hb = k.hb /\ j.gp = k.gp /\ Settled(j)
      BY <1>a, Zenon DEF Settled, CheckType, Registered
    <3>2. Set(c, j)
      BY <2>3
    <3> HIDE DEF j
    <3>3. Copies(j) /\ Pending(j, gp)
      BY <3>1, <1>c DEF Copies, Pending, Settled
    <3> QED
      BY <1>e, <3>2, <3>3, <2>0
  <2>4. ASSUME NEW w \in k.left, Set(c, [k EXCEPT !.left = @ \ {w}]) PROVE GraceFollowsBeat'
    <3> DEFINE j == [k EXCEPT !.left = @ \ {w}]
    <3>1. /\ j \in CheckType /\ j.hb = k.hb /\ j.gp = k.gp /\ j.pc = k.pc /\ j.cur = k.cur
          /\ j.type = k.type
      BY <1>a DEF CheckType
    <3>2. Set(c, j)
      BY <2>4
    <3> HIDE DEF j
    <3>3. Copies(j) /\ Pending(j, gp)
      BY <3>1, <1>c DEF Copies, Pending, Settled
    <3> QED
      BY <1>e, <3>2, <3>3, <2>0
  <2>5. CASE Set(c, [k EXCEPT !.pc = "loop", !.cur = None])
    BY <2>0, <2>5, <1>15, Zenon
  <2> QED
    BY <1>18, <2>1, <2>2, <2>3, <2>4, <2>5, Zenon DEF Fail
<1>19. CASE Tick
  <2>0. \A a, b \in Age \cup {None} : Near(b, a) => Near(Older(b), Older(a))
    BY SetAssumption, TimeAssumption, SMTT(60) DEF Older, Age
  <2>1. ASSUME NEW t \in Type, NEW w \in Worker
        PROVE  /\ hb'[t][w] = Older(hb[t][w]) /\ gp'[t][w] = Older(gp[t][w])
               /\ Near(hb'[t][w], gp'[t][w])
    <3>1. hb'[t][w] = Older(hb[t][w]) /\ gp'[t][w] = Older(gp[t][w])
      BY <1>19, AgedFacts, Zenon DEF Tick, TypeOK
    <3> QED
      BY <3>1, <2>0, <1>b, <1>c
  <2>2. ASSUME NEW c \in Checker PROVE Copies(check'[c]) /\ Pending(check'[c], gp')
    <3> DEFINE k == check[c]
               j == [k EXCEPT !.since = @ + 1, !.hb = Aged(@), !.gp = Aged(@)]
    <3>1. CASE k.pc = "idle"
      <4>1. check'[c] = check[c]
        BY <1>19, <3>1, Zenon DEF Tick
      <4> QED
        BY <4>1, <3>1, <1>c DEF Pending
    <3>2. CASE k.pc # "idle"
      <4>1. check'[c] = j
        BY <1>19, <3>2, Zenon DEF Tick
      <4>2. j.hb = Aged(k.hb) /\ j.gp = Aged(k.gp) /\ j.pc = k.pc /\ j.cur = k.cur /\ j.type = k.type
        BY <1>a DEF CheckType
      <4>3. \A w \in Worker : Aged(k.hb)[w] = Older(k.hb[w]) /\ Aged(k.gp)[w] = Older(k.gp[w])
        BY <1>a, AgedFacts DEF CheckType
      <4>4. \A w \in Worker : Near(Aged(k.hb)[w], Aged(k.gp)[w])
        <5>1. \A w \in Worker : Near(k.hb[w], k.gp[w])
          BY <1>c DEF Copies
        <5> QED
          BY <5>1, <4>3, <2>0, <1>b
      <4>5. ASSUME k.pc = "call" PROVE Aged(k.hb)[k.cur] + MaxCheck > GracePeriodTimeout
        <5>1. k.cur \in Worker /\ k.hb[k.cur] # None
          BY <4>5, <1>a DEF Located
        <5>2. k.hb[k.cur] + MaxCheck > GracePeriodTimeout
          BY <4>5, <1>c, SMTT(60) DEF Copies
        <5> QED
          BY <5>1, <5>2, <4>3, <1>b, OlderFacts, TimeAssumption
      <4>6. ASSUME k.pc = "grace", NEW w \in Worker PROVE Near(Aged(k.hb)[w], gp'[k.type][w])
        <5>1. k.type \in Type
          BY <4>6, <1>a DEF Located
        <5>2. Near(k.hb[w], gp[k.type][w])
          BY <4>6, <1>c DEF Pending
        <5> QED
          BY <5>1, <5>2, <4>3, <2>0, <2>1, <1>b
      <4> HIDE DEF j
      <4>7. Copies(j)
        BY <4>2, <4>4, <4>5 DEF Copies
      <4>8. Pending(j, gp')
        BY <4>2, <4>6 DEF Pending
      <4> QED
        BY <4>1, <4>7, <4>8
    <3> QED
      BY <3>1, <3>2
  <2> QED
    BY <2>1, <2>2, <1>d
<1>20. ASSUME NEW c \in Checker, CallbackFails(c) PROVE GraceFollowsBeat'
  BY <1>15, <1>20, Zenon DEF CallbackFails
<1>21. ASSUME NEW c \in Checker, EndOfCheck(c) \/ Abort(c) PROVE GraceFollowsBeat'
  BY <1>7, <1>21 DEF EndOfCheck, Abort
<1> QED
  BY <1>1, <1>2, <1>3, <1>4, <1>8, <1>9, <1>10, <1>11, <1>12, <1>13, <1>14, <1>16, <1>17,
     <1>18, <1>19, <1>20, <1>21 DEF Next, Advance, Look

\* Whoever is reported dead was silent for the grace period, less the duration
\* of one check, for any number of workers, types and concurrent masters.
THEOREM DeadSilent == Spec => []DeadWasSilent
<1>1. Init => GraceFollowsBeat
  BY IdleFacts, SMTT(60) DEF Init, GraceFollowsBeat, DeadWasSilent, NoEntries, Idle
<1>2. GraceFollowsBeat => DeadWasSilent
  BY DEF GraceFollowsBeat
<1> QED
  BY <1>1, <1>2, GraceStep, TypeCorrect, PTL DEF Spec
=============================================================================
