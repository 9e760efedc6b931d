---------------------------- MODULE MCScheduler ----------------------------
(* A workflow, an alert and a cyclic pipeline, two of them to a run.          *)
EXTENDS Scheduler, TLC

CONSTANTS w, a, q

WorkflowAndPipeline == {w, q}
WorkflowAndAlert == {w, a}

MCKind == [i \in Item |-> CASE i = a -> 2 [] i = q -> 3 [] OTHER -> 1]
MCCron == [i \in Item |-> "valid"]
MCNoTick == [i \in Item |-> 0]
MCOneTick == [i \in Item |-> IF i = q THEN 0 ELSE 1]
=============================================================================
