---------------------------- MODULE MCTaskQueue -----------------------------
(***************************************************************************)
(* Instances of TaskQueue for TLC.                                         *)
(***************************************************************************)
EXTENDS TaskQueue, TLC

CONSTANTS t1, t2, g1, g2, w1, w2, ty1, ty2

Columns(type, flow, grouped, step, priority, maxRedo, batch) ==
  [type |-> type, flow |-> flow, grouped |-> grouped, step |-> step,
   priority |-> priority, maxRedo |-> maxRedo, batch |-> batch]

\* A flow of two steps of one type.
FlowAttr == t1 :> Columns(ty1, "f", TRUE, 1, 0, 2, 1) @@
            t2 :> Columns(ty1, "f", TRUE, 2, 0, 1, 1)

\* One task.
OneAttr == t1 :> Columns(ty1, "f", FALSE, 0, 0, 2, 1)

\* A flow of two steps of two types.
TwoTypeAttr == t1 :> Columns(ty1, "f", TRUE, 1, 0, 1, 1) @@
               t2 :> Columns(ty2, "f", TRUE, 2, 0, 1, 1)

TwoWorkers == g1 :> [worker |-> w1, type |-> ty1] @@
              g2 :> [worker |-> w2, type |-> ty1]

TwoTypes == g1 :> [worker |-> w1, type |-> ty1] @@
            g2 :> [worker |-> w1, type |-> ty2]

\* The two workers, each with its goroutine, are interchangeable.
WorkerSymmetry ==
  { g1 :> g1 @@ g2 :> g2 @@ w1 :> w1 @@ w2 :> w2,
    g1 :> g2 @@ g2 :> g1 @@ w1 :> w2 @@ w2 :> w1 }
=============================================================================
