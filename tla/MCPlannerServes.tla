---------------------------- MODULE MCPlannerServes ----------------------------
(* PlannerServes with the instances of MCPlanner. *)
EXTENDS MCPlanner, PlannerServes
================================================================================
