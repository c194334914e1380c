------------------------- MODULE MCRunOrchestrator -------------------------
(***************************************************************************)
(* Small instances of RunOrchestrator: two plans of three cells, one of    *)
(* them with a cell that suite rules out in the first plan.                *)
(***************************************************************************)
EXTENDS RunOrchestrator, TLC

CONSTANTS f1, f2

MCPlanState ==
    (f1 :> <<"planned", "not_applicable", "planned">>) @@
    (f2 :> <<"planned", "planned", "planned">>)

\* One plan of three cells for the liveness run: the temporal check is costlier.
MCOnePlan == f1 :> <<"planned", "not_applicable", "planned">>

\* Whatever an executor function can return.
AnyAnswer == CellStates \X BOOLEAN
=============================================================================
