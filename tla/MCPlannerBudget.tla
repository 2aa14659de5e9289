---------------------------- MODULE MCPlannerBudget ----------------------------
(* PlannerBudget with the instances of MCPlanner. *)
EXTENDS MCPlanner, PlannerBudget
================================================================================
