---------------------- MODULE MCWorkflowOrchestration ----------------------
(***************************************************************************)
(* WorkflowOrchestration with two steps: in a pipeline, so that a run has  *)
(* something before and after the claim moves, and in one parallel group,  *)
(* so that a group can be spawned in part.                                 *)
(***************************************************************************)
EXTENDS WorkflowOrchestration

CONSTANTS c1, c2

Pipeline == <<[mode |-> "pipeline", steps |-> <<c1, c2>>]>>
OnePhase == <<[mode |-> "parallel", steps |-> <<c1, c2>>]>>
=============================================================================
