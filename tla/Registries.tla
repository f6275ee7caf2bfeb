------------------------------ MODULE Registries ------------------------------
(***************************************************************************)
(* What a process keeps by name: the storagers of a purpose, made from its *)
(* setting on first use (storage/storage.go, storage/v2/storager.go), and  *)
(* the database connections (dbtools/v2/manager.go), next to the metrics.  *)
(***************************************************************************)
EXTENDS Metrics

CONSTANTS RgLoaders,  \* callers of LoadStorager for one purpose
          RgNames,    \* names of databases
          RgMaxMade,  \* bound: storagers and connections made
          RgMaxLoads  \* bound: calls of LoadStorager

ASSUME RgAssumption == RgMaxMade \in Nat /\ RgMaxLoads \in Nat

VARIABLES rgPart,    \* which registry is used: "storage", "storage/v2" or "dbs"
          rgConf,    \* the back ends that the setting of the purpose configures
          rgDrivers, \* the drivers that are registered with storage/v2
          rgStorer,  \* the entry of storagerMap: kind and number, or NoStorer
          rgPc, rgHas, rgLoads, \* where each caller is, what it has, calls left
          rgMade,    \* storagers and connections made so far
          rgRaced,   \* history: a caller missed while another was making a storager
          rgOut,     \* history: the storagers handed out
          rgDbs,     \* dbs: [name -> number of the connection]
          rgMulti,   \* the names InitMultiDBConn has left
          rgLast     \* history: [name -> connection InitDBConn last opened for it]

registryVars == <<rgPart, rgConf, rgDrivers, rgStorer, rgPc, rgHas, rgLoads, rgMade,
                  rgRaced, rgOut, rgDbs, rgMulti, rgLast>>
storerVars == <<rgPart, rgConf, rgDrivers, rgStorer, rgPc, rgHas, rgLoads, rgRaced, rgOut>>
dbVarsOfRegistry == <<rgDbs, rgMulti, rgLast>>

Sections == {"local", "tencent", "minoss", "s3"}
NoStorer == [kind |-> "none", n |-> 0]

RgTypeOK ==
  /\ rgPart \in {"storage", "storage/v2", "dbs"} /\ rgConf \subseteq Sections /\ rgDrivers \subseteq Sections
  /\ \A s \in {rgStorer} \cup rgOut : s.kind \in Sections \cup {"none"} /\ s.n \in 0..RgMaxMade
  /\ rgPc \in [RgLoaders -> {"idle", "new", "store"}] /\ rgLoads \in 0..RgMaxLoads
  /\ rgMade \in 0..RgMaxMade /\ rgRaced \in BOOLEAN
  /\ DOMAIN rgDbs \subseteq RgNames \cup {"default"}
  /\ rgMulti \subseteq RgNames /\ DOMAIN rgLast \subseteq RgNames

RgInit ==
  /\ rgPart \in {"storage", "storage/v2", "dbs"} /\ rgConf \in {{"s3"}, {"local", "s3"}} /\ rgDrivers = {}
  /\ rgStorer = NoStorer /\ rgPc = [l \in RgLoaders |-> "idle"]
  /\ rgHas = [l \in RgLoaders |-> NoStorer] /\ rgLoads = RgMaxLoads
  /\ rgMade = 0 /\ rgRaced = FALSE /\ rgOut = {} /\ rgDbs = << >> /\ rgMulti = {}
  /\ rgLast = << >>

-----------------------------------------------------------------------------
(* Storagers. *)

\* NewStorageWithCfg: the first section that is there, in this order.
Configured(conf) ==
  CASE "local" \in conf -> "local" [] "tencent" \in conf -> "tencent"
    [] "minoss" \in conf -> "minoss" [] "s3" \in conf -> "s3" [] OTHER -> "none"

\* A driver package registers itself when it is imported.
Register(kind) ==
  /\ rgPart = "storage/v2" /\ rgDrivers' = rgDrivers \cup {kind}
  /\ UNCHANGED <<rgPart, rgConf, rgStorer, rgPc, rgHas, rgLoads, rgMade, rgRaced, rgOut,
                 dbVarsOfRegistry>>

\* External: the setting is edited.
ConfEdited(conf) ==
  /\ rgConf' = conf
  /\ UNCHANGED <<rgPart, rgDrivers, rgStorer, rgPc, rgHas, rgLoads, rgMade, rgRaced, rgOut,
                 dbVarsOfRegistry>>

\* LoadStorager: the entry of the map, or a new storager ...
LoadStorager(l) ==
  /\ rgPc[l] = "idle" /\ rgLoads > 0 /\ rgLoads' = rgLoads - 1
  /\ IF rgStorer # NoStorer
     THEN rgOut' = rgOut \cup {rgStorer} /\ UNCHANGED <<rgPc, rgRaced>>
     ELSE /\ rgPc' = [rgPc EXCEPT ![l] = "new"] /\ UNCHANGED rgOut
          /\ rgRaced' = (rgRaced \/ \E k \in RgLoaders : rgPc[k] # "idle")
  /\ UNCHANGED <<rgPart, rgConf, rgDrivers, rgStorer, rgHas, rgMade, dbVarsOfRegistry>>

Makes(l, kind) ==
  /\ kind # "none" /\ rgMade < RgMaxMade /\ rgMade' = rgMade + 1
  /\ rgHas' = [rgHas EXCEPT ![l] = [kind |-> kind, n |-> rgMade + 1]]
  /\ rgPc' = [rgPc EXCEPT ![l] = "store"]
MakesNothing(l) == rgPc' = [rgPc EXCEPT ![l] = "idle"] /\ UNCHANGED <<rgHas, rgMade>>

\* ... which fails without a setting, a section or a back end, ...
NewStorage(l) ==
  /\ rgPart = "storage" /\ rgPc[l] = "new"
  /\ Makes(l, Configured(rgConf)) \/ MakesNothing(l)
  /\ UNCHANGED <<rgPart, rgConf, rgDrivers, rgStorer, rgLoads, rgRaced, rgOut,
                 dbVarsOfRegistry>>

\* ... and in storage/v2 without its driver.
NewStorageV2(l) ==
  /\ rgPart = "storage/v2" /\ rgPc[l] = "new"
  /\ (Configured(rgConf) \in rgDrivers /\ Makes(l, Configured(rgConf))) \/ MakesNothing(l)
  /\ UNCHANGED <<rgPart, rgConf, rgDrivers, rgStorer, rgLoads, rgRaced, rgOut,
                 dbVarsOfRegistry>>

\* It is stored over whatever is there by now.
StoreStorager(l) ==
  /\ rgPc[l] = "store" /\ rgStorer' = rgHas[l] /\ rgOut' = rgOut \cup {rgHas[l]}
  /\ rgPc' = [rgPc EXCEPT ![l] = "idle"] /\ rgHas' = [rgHas EXCEPT ![l] = NoStorer]
  /\ UNCHANGED <<rgPart, rgConf, rgDrivers, rgLoads, rgMade, rgRaced, dbVarsOfRegistry>>

-----------------------------------------------------------------------------
(* Connections. *)

Put(f, name, n) == [d \in DOMAIN f \cup {name} |-> IF d = name THEN n ELSE f[d]]
NewConn == rgMade < RgMaxMade /\ rgMade' = rgMade + 1

\* Without a name it is the default connection.
Named(name) == IF name = "" THEN "default" ELSE name

Opened(name) ==
  NewConn /\ rgDbs' = Put(rgDbs, Named(name), rgMade') /\ rgLast' = Put(rgLast, name, rgMade')

\* InitDBConn puts a new connection in the place of an old one; when Open fails
\* it returns an error and changes nothing.
InitDBConn(name) == Opened(name) /\ UNCHANGED <<storerVars, rgMulti>>

\* InitMultiDBConn: one name after the other, in any order; the first that
\* fails ends it, and those before it stay.
InitMultiDBConn ==
  /\ rgMulti = {} /\ rgMulti' = RgNames /\ UNCHANGED <<storerVars, rgMade, rgDbs, rgLast>>
InitMultiStep(name) ==
  /\ name \in rgMulti
  /\ \/ Opened(name) /\ rgMulti' = rgMulti \ {name}
     \/ rgMulti' = {} /\ UNCHANGED <<rgMade, rgDbs, rgLast>>
  /\ UNCHANGED storerVars

\* RegistryDB takes a connection that the caller has opened, under the very name,
\* unless there is one.
RegistryDB(name) ==
  /\ name \notin DOMAIN rgDbs /\ NewConn /\ rgDbs' = Put(rgDbs, name, rgMade')
  /\ UNCHANGED <<storerVars, rgMulti, rgLast>>

\* DB panics for a name that is not there.
DB(name) == IF name \in DOMAIN rgDbs THEN {rgDbs[name]} ELSE {}

StoragerCall ==
  \/ \E k \in {"s3", "local"} : Register(k)
  \/ \E c \in {{}, {"s3"}, {"local", "s3"}, {"minoss", "tencent"}} : ConfEdited(c)
  \/ \E l \in RgLoaders :
       LoadStorager(l) \/ NewStorage(l) \/ NewStorageV2(l) \/ StoreStorager(l)

ConnectionCall ==
  \/ InitMultiDBConn
  \/ \E name \in RgNames :
       InitDBConn(name) \/ InitMultiStep(name) \/ RegistryDB(name)

RgNext == (rgPart # "dbs" /\ StoragerCall) \/ (rgPart = "dbs" /\ ConnectionCall)

RgSpec == RgInit /\ [][RgNext]_registryVars

\* All callers share one storager of a purpose unless two of them missed at the
\* same time, in which case every one of them gets a working storager of its
\* own, never a nil one; with storage/v2 it comes from a driver that is
\* registered (storage.go:112-155, storager.go:44-95).
StoragersShared ==
  /\ ~rgRaced => \A s, t \in rgOut : s = t
  /\ \A s \in rgOut : s # NoStorer /\ (rgPart = "storage/v2" => s.kind \in rgDrivers)

\* A name for which InitDBConn has opened a connection is served from then on, the
\* empty one as "default", by the newest that InitDBConn has opened for it or for
\* the other spelling of it: no failed open, InitMultiDBConn that ends early or
\* RegistryDB takes its place (manager.go:17-61).
ConnectionsKept ==
  \A name \in DOMAIN rgLast :
    \E a \in DOMAIN rgLast :
      /\ Named(a) = Named(name) /\ rgLast[name] =< rgLast[a]
      /\ DB(Named(name)) = {rgLast[a]}

\* What is registered under a name is what that name gives afterwards:
\* collectors of the metrics (MetricsExposed), storagers (StoragersShared) and
\* connections (ConnectionsKept).
RegistriesSound == MetricsExposed /\ StoragersShared /\ ConnectionsKept
=============================================================================
