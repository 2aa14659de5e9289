----------------------------- MODULE PlannerBudget -----------------------------
(****************************************************************************)
(* The power budget of Planner.  The budget tracker counts what this        *)
(* process wakes; machines are also switched on by their owners, by the     *)
(* cluster autoscaler and by the process that ran before.  A history        *)
(* variable tells them apart.                                               *)
(****************************************************************************)
EXTENDS Planner

VARIABLE woken  \* the machines this process woke and had not listed as Online

budgetVars == <<vars, woken>>

\* A machine that is listed as Online costs greedy nothing, whatever is wanted of
\* it: while it is shut down it is no power-on to greedy and one to exact.
Running(n) == n \in DOMAIN seen.rcNodes /\ seen.rcNodes[n].ready

RememberWakes == woken' = woken \cup {n \in Nodes : PatchWake(n) /\ ~Running(n)}

BudgetInit == Init /\ woken = {}

BudgetNext ==
  \/ Alive /\ RememberWakes
  \/ Restart /\ woken' = {}

BudgetSpec == BudgetInit /\ [][BudgetNext]_budgetVars

--------------------------------------------------------------------------------
\* What the planner makes of MaxConcurrentPowerOns: of the machines that boot, this
\* process has woken no more than the limit, over any number of ticks, however old
\* its reads are and whatever is refused, switched on and off, deleted or restarted
\* meanwhile (RecordPowerOn, periodic_reconciler.go:260-269, greedy.go:88-93,
\* exact.go:276-280).
PowerBudget == Cardinality(woken \cap Booting) <= MaxPowerOns

\* What the limit is said to mean, "how many nodes can be booted simultaneously"
\* (rcpolicy_types.go:251).  It does not hold: nobody counts the machines switched
\* on by their owners or by the autoscaler, nor those woken before a restart.
BootsLimited == Cardinality(Booting) <= MaxPowerOns

\* Why the budget holds: a machine this process woke is recorded, or is a target of
\* the plan in hand; what the plan adds to them fits what the recorded ones leave of
\* the limit; and the plan is recorded before it is forgotten.
ColdTargets == {n \in Targets(plan) : ~Running(n)}

BudgetCovers ==
  /\ woken \subseteq inFlight \cup Targets(plan)
  /\ toWake \cup ({waking} \ {None}) \subseteq Targets(plan)
  /\ Cardinality(woken \cup ColdTargets) <= MaxPowerOns

Stages ==
  /\ pc \in {"idle", "list"} => plan = NoPlan
  /\ pc = "release" => Targets(plan) \subseteq inFlight
  /\ pc # "wake" => waking = None
  /\ pc \notin {"apply", "wake"} => toWake = {}

BudgetInv == TypeOK /\ BudgetCovers /\ Stages
================================================================================
