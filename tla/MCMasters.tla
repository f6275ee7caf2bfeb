------------------------------ MODULE MCMasters ------------------------------
(***************************************************************************)
(* Model checking of the task queue under faults and of the election of    *)
(* the master among its managers.  The two share no state (a manager asks  *)
(* IsMaster, and TaskQueue lets every manager answer yes at any time), so  *)
(* an initial choice says which of them a behaviour runs; the other one    *)
(* stays in its initial state, where no fair action is enabled.            *)
(***************************************************************************)
EXTENDS MCTaskQueue, ClusterMutex

VARIABLE msMode

msVars == <<msMode, mutexVars, vars>>

MsInit == msMode \in {"mutex", "tasks"} /\ CmInit /\ Init

MsNext ==
  \/ msMode = "mutex" /\ CmNext /\ UNCHANGED <<msMode, vars>>
  \/ msMode = "tasks" /\ Next /\ UNCHANGED <<msMode, mutexVars>>

MsSpec == MsInit /\ [][MsNext]_msVars /\ CmFairness
=============================================================================
