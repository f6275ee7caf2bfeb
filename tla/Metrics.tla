------------------------------- MODULE Metrics -------------------------------
(***************************************************************************)
(* EasyMetrics (metrics/easy_metrics.go, promex.go): managers that create  *)
(* and register a Prometheus vector the first time a metric is used.  Every*)
(* operation holds the lock of its manager, so it is one step; managers    *)
(* share the registry std, whatever registry they are given.               *)
(***************************************************************************)
EXTENDS Integers, FiniteSets

CONSTANTS MxManagers,  \* managers, MxGlobal (the variable em) among them
          MxGlobal, MxNames, MxLabels, \* metric names, sets of label keys
          MxMaxInit, MxMaxOps          \* bounds: calls of Init, operations

ASSUME MxAssumption == MxGlobal \in MxManagers /\ MxMaxInit \in Nat /\ MxMaxOps \in Nat

VARIABLES mxStd,    \* the current registry std
          mxMgr,    \* the registry of each manager, 0 before NewEasyMetrics
          mxVecs,   \* the vectors a manager has cached, by kind and key
          mxReg,    \* what each registry has registered
          mxVal,    \* the values it exposes, by name and label keys
          mxOps,    \* operations left
          mxLost,   \* history: an operation returned nil and is not exposed
          mxPanic   \* history: With was given other labels than the vector has

metricVars == <<mxStd, mxMgr, mxVecs, mxReg, mxVal, mxOps, mxLost, mxPanic>>

Kinds == {"counter", "gauge", "histogram", "summary"}
Vec(kind, name, keys) == [kind |-> kind, name |-> name, keys |-> keys]
Vecs == [kind : Kinds, name : MxNames, keys : MxLabels]
Registries == 1..(MxMaxInit + 1)

MxTypeOK ==
  /\ mxStd \in Registries /\ mxMgr \in [MxManagers -> {0} \cup Registries]
  /\ \A m \in MxManagers : \A c \in mxVecs[m] : c.vec \in Vecs
  /\ mxReg \in [Registries -> SUBSET Vecs]
  /\ \A g \in Registries : mxVal[g] \in [MxNames \X MxLabels -> Int]
  /\ mxOps \in 0..MxMaxOps /\ mxLost \in BOOLEAN /\ mxPanic \in BOOLEAN

MxInit ==
  /\ mxStd = 1 /\ mxMgr = [m \in MxManagers |-> IF m = MxGlobal THEN 1 ELSE 0]
  /\ mxVecs = [m \in MxManagers |-> {}] /\ mxReg = [g \in Registries |-> {}]
  /\ mxVal = [g \in Registries |-> [s \in MxNames \X MxLabels |-> 0]]
  /\ mxOps = MxMaxOps /\ mxLost = FALSE /\ mxPanic = FALSE

\* Init: a new registry and a new global manager.
InitMetrics ==
  /\ mxStd =< MxMaxInit /\ mxStd' = mxStd + 1
  /\ mxMgr' = [mxMgr EXCEPT ![MxGlobal] = mxStd + 1]
  /\ mxVecs' = [mxVecs EXCEPT ![MxGlobal] = {}]
  /\ UNCHANGED <<mxReg, mxVal, mxOps, mxLost, mxPanic>>

NewEasyMetrics(m) ==
  /\ m # MxGlobal /\ mxMgr' = [mxMgr EXCEPT ![m] = mxStd]
  /\ mxVecs' = [mxVecs EXCEPT ![m] = {}]
  /\ UNCHANGED <<mxStd, mxReg, mxVal, mxOps, mxLost, mxPanic>>

\* The cache key of a metric: its name, ':' and the sorted label keys with ','
\* between them.  The text determines name and keys, as it does in the model, for
\* label keys that Prometheus accepts: they have neither ':' nor ','.
getLabelKeyName(name, keys) == <<name, {}>>
getLabelKey(name, keys) == <<name, keys>>

\* External: Registry.Register refuses a name that it has, whatever the kind
\* and the labels of the two are.
CanRegister(g, name) == \A v \in mxReg[g] : v.name # name

Cached(m, kind, key) == {c \in mxVecs[m] : c.vec.kind = kind /\ c.key = key}

\* autoRegisterCounter and the like: a vector that is not cached is made, and
\* cached once it is registered.
autoRegister(m, kind, name, keys) ==
  LET key == getLabelKey(name, keys)
      new == Vec(kind, name, keys)
  IN  IF Cached(m, kind, key) # {}
      THEN UNCHANGED <<mxVecs, mxReg>>
      ELSE /\ CanRegister(mxMgr[m], name)
           /\ mxVecs' = [mxVecs EXCEPT ![m] = @ \cup {[key |-> key, vec |-> new]}]
           /\ mxReg' = [mxReg EXCEPT ![mxMgr[m]] = @ \cup {new}]

autoRegisterCounter(m, n, keys) == autoRegister(m, "counter", n, keys)
autoRegisterGauge(m, n, keys) == autoRegister(m, "gauge", n, keys)
autoRegisterHistogram(m, n, keys) == autoRegister(m, "histogram", n, keys)
autoRegisterSummary(m, n, keys) == autoRegister(m, "summary", n, keys)

\* What autoRegister returns, as a set of one.
Returned(m, kind, n, keys) ==
  LET cached == Cached(m, kind, getLabelKey(n, keys))
  IN  IF cached # {} THEN {c.vec : c \in cached} ELSE {Vec(kind, n, keys)}

\* With(labels) of the vector, and the operation on the series it gives: the
\* value goes up by x, or is x.
Use(m, kind, n, keys, up, x) ==
  LET g == mxMgr[m] IN
  \E vec \in Returned(m, kind, n, keys) :
    /\ mxPanic' = (mxPanic \/ vec.keys # keys)
    /\ mxLost' = (mxLost \/ vec \notin mxReg'[g])
    /\ mxVal' = [mxVal EXCEPT ![g][<<vec.name, vec.keys>>] = IF up THEN @ + x ELSE x]

Start(m) == mxMgr[m] # 0 /\ mxOps > 0 /\ mxOps' = mxOps - 1 /\ UNCHANGED <<mxStd, mxMgr>>

CounterInc(m, n, keys) ==
  Start(m) /\ autoRegisterCounter(m, n, keys) /\ Use(m, "counter", n, keys, TRUE, 1)
CounterAdd(m, n, keys) ==
  Start(m) /\ autoRegisterCounter(m, n, keys) /\ Use(m, "counter", n, keys, TRUE, 2)
GaugeSet(m, n, keys) ==
  Start(m) /\ autoRegisterGauge(m, n, keys) /\ Use(m, "gauge", n, keys, FALSE, 1)
GaugeInc(m, n, keys) ==
  Start(m) /\ autoRegisterGauge(m, n, keys) /\ Use(m, "gauge", n, keys, TRUE, 1)
GaugeDec(m, n, keys) ==
  Start(m) /\ autoRegisterGauge(m, n, keys) /\ Use(m, "gauge", n, keys, TRUE, -1)
GaugeAdd(m, n, keys) ==
  Start(m) /\ autoRegisterGauge(m, n, keys) /\ Use(m, "gauge", n, keys, TRUE, -2)
\* Time, and Stop of a Timer, end in an Observe.
HistogramObserve(m, n, keys) ==
  Start(m) /\ autoRegisterHistogram(m, n, keys) /\ Use(m, "histogram", n, keys, TRUE, 1)
SummaryObserve(m, n, keys) ==
  Start(m) /\ autoRegisterSummary(m, n, keys) /\ Use(m, "summary", n, keys, TRUE, 1)

MxNext ==
  \/ InitMetrics
  \/ \E m \in MxManagers : NewEasyMetrics(m)
       \/ \E n \in MxNames, keys \in MxLabels :
            \/ CounterInc(m, n, keys) \/ CounterAdd(m, n, keys)
            \/ GaugeSet(m, n, keys) \/ GaugeInc(m, n, keys)
            \/ GaugeDec(m, n, keys) \/ GaugeAdd(m, n, keys)
            \/ HistogramObserve(m, n, keys) \/ SummaryObserve(m, n, keys)

MxSpec == MxInit /\ [][MxNext]_metricVars

\* An operation that returns nil is seen by whoever scrapes the registry of its
\* manager, and never panics over its labels: whatever kinds, label sets and
\* managers use one name, a vector in use is the one registered under it
\* (easy_metrics.go:71-190).
MetricsExposed == ~mxLost /\ ~mxPanic
=============================================================================
