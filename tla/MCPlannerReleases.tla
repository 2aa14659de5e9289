--------------------------- MODULE MCPlannerReleases ---------------------------
(* PlannerReleases with the instances of MCPlanner. *)
EXTENDS MCPlanner, PlannerReleases
================================================================================
