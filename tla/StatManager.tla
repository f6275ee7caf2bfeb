----------------------------- MODULE StatManager -----------------------------
(***************************************************************************)
(* StatManager.Execute (stat/manager.go): one goroutine per registered     *)
(* statistic, a semaphore, an error group whose first error cancels the    *)
(* context of the others, and Register calls meanwhile.                    *)
(***************************************************************************)
EXTENDS Integers, FiniteSets

CONSTANTS SaNames,  \* names of statistics
          SaWeight  \* the weight of the semaphore (15)

ASSUME SaAssumption == SaWeight \in Nat \ {0}

VARIABLES saFuncs,  \* registered names
          saExec,   \* "idle", "running", "ok", "err": the call of Execute
          saSnap,   \* the copy of the map Execute works on
          saPc,     \* the goroutine of each name
          saRes,    \* result: "none", "single", "grouped", "error"
          saGroup,  \* the error of the group, "nil", "func", "ctx", or of the query
          saCancel, \* gCtx is done
          saCaller  \* the caller's context is done

statVars == <<saFuncs, saExec, saSnap, saPc, saRes, saGroup, saCancel, saCaller>>

SaTypeOK ==
  /\ saFuncs \subseteq SaNames /\ saSnap \subseteq SaNames
  /\ saExec \in {"idle", "running", "ok", "err"}
  /\ saPc \in [SaNames -> {"none", "acquire", "run", "failed", "refused", "end"}]
  /\ saRes \in [SaNames -> {"none", "single", "grouped", "error"}]
  /\ saGroup \in {"nil", "func", "ctx", "query"} /\ saCancel \in BOOLEAN /\ saCaller \in BOOLEAN

SaInit ==
  /\ saFuncs = {} /\ saExec = "idle" /\ saSnap = {}
  /\ saPc = [n \in SaNames |-> "none"] /\ saRes = [n \in SaNames |-> "none"]
  /\ saGroup = "nil" /\ saCancel = FALSE /\ saCaller = FALSE

\* Register refuses a name it has.
RegisterStat(n) ==
  /\ n \notin saFuncs /\ saFuncs' = saFuncs \cup {n}
  /\ UNCHANGED <<saExec, saSnap, saPc, saRes, saGroup, saCancel, saCaller>>

\* A query that is not valid is refused before anything else.
ExecuteRefused ==
  /\ saExec = "idle" /\ saExec' = "err" /\ saGroup' = "query"
  /\ UNCHANGED <<saFuncs, saSnap, saPc, saRes, saCancel, saCaller>>

\* Execute copies the map under the read lock and starts the goroutines; with
\* nothing registered it returns at once.
Execute ==
  /\ saExec = "idle" /\ saSnap' = saFuncs
  /\ saExec' = IF saFuncs = {} THEN "ok" ELSE "running"
  /\ saPc' = [n \in SaNames |-> IF n \in saFuncs THEN "acquire" ELSE "none"]
  /\ saCancel' = saCaller
  /\ UNCHANGED <<saFuncs, saRes, saGroup, saCaller>>

\* sem.Acquire(gCtx): with room it may succeed even when gCtx is done.
AcquireSemaphore(n) ==
  /\ saPc[n] = "acquire"
  /\ \/ /\ Cardinality({m \in SaNames : saPc[m] = "run"}) < SaWeight
        /\ saPc' = [saPc EXCEPT ![n] = "run"]
     \/ saCancel /\ saPc' = [saPc EXCEPT ![n] = "refused"]
  /\ UNCHANGED <<saFuncs, saExec, saSnap, saRes, saGroup, saCancel, saCaller>>

RecordSwallowed(n, got) ==
  /\ saPc[n] = "run"
  /\ saRes' = [saRes EXCEPT ![n] =
       CASE got = "error" \/ got = "both" -> "error"
         [] got = "grouped" -> "grouped"
         [] got \in {"single", "nothing"} -> "single"]
  /\ saPc' = [saPc EXCEPT ![n] = IF got = "error" THEN "failed" ELSE "end"]
  /\ UNCHANGED <<saFuncs, saExec, saSnap, saGroup, saCancel, saCaller>>

\* fn returns what it got: values of either kind, of both kinds (refused), of
\* neither (a single nil value), or an error; the result is stored under the
\* lock and the semaphore is released.
Record(n, got) ==
  /\ saPc[n] = "run"
  /\ saRes' = [saRes EXCEPT ![n] =
       CASE got = "error" \/ got = "both" -> "error"
         [] got = "grouped" -> "grouped"
         [] got \in {"single", "nothing"} -> "single"]
  /\ saPc' = [saPc EXCEPT ![n] = IF got \in {"error", "both"} THEN "failed" ELSE "end"]
  /\ UNCHANGED <<saFuncs, saExec, saSnap, saGroup, saCancel, saCaller>>

\* The group keeps the first error and cancels gCtx.
GroupError(n) ==
  /\ saPc[n] \in {"failed", "refused"}
  /\ saPc' = [saPc EXCEPT ![n] = "end"]
  /\ saGroup' = IF saGroup # "nil" THEN saGroup
                ELSE IF saPc[n] = "failed" THEN "func" ELSE "ctx"
  /\ saCancel' = TRUE
  /\ UNCHANGED <<saFuncs, saExec, saSnap, saRes, saCaller>>

\* g.Wait returns after the last goroutine.
ExecuteReturns ==
  /\ saExec = "running" /\ \A n \in saSnap : saPc[n] = "end"
  /\ saExec' = IF saGroup = "nil" THEN "ok" ELSE "err"
  /\ UNCHANGED <<saFuncs, saSnap, saPc, saRes, saGroup, saCancel, saCaller>>

\* External: the caller's context ends.
CallerCancels ==
  /\ ~saCaller /\ saCaller' = TRUE
  /\ saCancel' = (saCancel \/ saExec = "running")
  /\ UNCHANGED <<saFuncs, saExec, saSnap, saPc, saRes, saGroup>>

SaNext ==
  \/ Execute \/ ExecuteRefused \/ ExecuteReturns \/ CallerCancels
  \/ \E n \in SaNames : RegisterStat(n) \/ AcquireSemaphore(n) \/ GroupError(n)
       \/ \E got \in {"single", "grouped", "both", "nothing", "error"} : Record(n, got)

SaSpec == SaInit /\ [][SaNext]_statVars

\* "如果任何统计函数失败，会返回错误，但 result 仍包含成功执行的结果" (manager.go:143):
\* without an error the map has a good result of every statistic registered
\* when Execute began; with one, the query was refused and no statistic ran, or
\* some statistic in the map is marked failed, or the caller's context had ended.
StatComplete ==
  /\ saExec = "ok" => \A n \in saSnap : saRes[n] \in {"single", "grouped"}
  /\ saExec = "err" => \/ saCaller
                       \/ \E n \in saSnap : saRes[n] = "error"
                       \/ saGroup = "query" /\ \A n \in SaNames : saPc[n] = "none"
=============================================================================
