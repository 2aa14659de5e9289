----------------------------- MODULE SolverContract -----------------------------
(****************************************************************************)
(* What the planner may rely on when it asks a solver where gated pods go:  *)
(* the plans each of the three algorithms of internal/solver can return for *)
(* one problem.  Scores and node order decide which of them is returned and *)
(* are left out; what the plans do to capacity, to the power budget and to  *)
(* the machines to wake is kept.                                            *)
(*                                                                          *)
(* A problem is a set of pods, a view of the listed machines and the number *)
(* of machines that may still be woken.  A plan gives every pod a machine   *)
(* or None and says which of its assignments carry RequiresWake.            *)
(****************************************************************************)
EXTENDS Integers, FiniteSets, FiniteSetsExt

CONSTANTS Nodes,      \* names of RcNodes
          Pods,       \* names of pods
          None,       \* no machine
          Resources,  \* the kinds of resources requested: cpu and memory
          Request,    \* Request[p][r]: the sum over the containers of p
          Capacity    \* Capacity[n][r]: what RcNode n declares allocatable

ASSUME ContractAssumption ==
  /\ None \notin Nodes
  /\ IsFiniteSet(Nodes)
  /\ Request \in [Pods -> [Resources -> Nat]]
  /\ Capacity \in [Nodes -> [Resources -> Nat]]

Algorithms == {"greedy", "exact", "heuristic"}

\* The two flags of a candidate are not opposites: a machine being shut down is
\* both, one being booted is neither.
Views == [ready : BOOLEAN, offline : BOOLEAN]

Offline(view) == {n \in DOMAIN view : view[n].offline}
Cold(view) == {n \in Offline(view) : ~view[n].ready}

Placements(pods, view) == [pods -> DOMAIN view \cup {None}]
On(to, n) == {p \in DOMAIN to : to[p] = n}
Used(to) == {to[p] : p \in DOMAIN to} \ {None}

Demand(ps, r) == SumFunctionOnSet([p \in Pods |-> Request[p][r]], ps)
Remaining(to, n, r) == Capacity[n][r] - Demand(On(to, n), r)
CanFit(p, to, n) == \A r \in Resources : Request[p][r] <= Remaining(to, n, r)

WithinCapacity(to) == \A n \in Used(to), r \in Resources : Remaining(to, n, r) >= 0
WithinBudget(to, costly, slack) ==
  Used(to) \cap costly = {} \/ Cardinality(Used(to) \cap costly) <= slack

\* A pod is left out only when every machine is too full, or is one to wake and
\* the budget is spent.
Maximal(to, view, slack) ==
  \A p \in On(to, None), n \in DOMAIN view :
    CanFit(p, to, n) =>
      /\ n \in Cold(view) \ Used(to)
      /\ Cardinality(Used(to) \cap Cold(view)) >= slack

\* The first pod of every machine to wake carries RequiresWake.
OneFlagEach(to, view, wake) ==
  /\ \A p \in wake : to[p] \in Cold(view)
  /\ \A n \in Used(to) \cap Cold(view) : Cardinality(wake \cap On(to, n)) = 1

IsGreedyPlan(plan, view, slack) ==
  /\ WithinCapacity(plan.to)
  /\ WithinBudget(plan.to, Cold(view), slack)
  /\ Maximal(plan.to, view, slack)
  /\ OneFlagEach(plan.to, view, plan.wake)

GreedyPlans(pods, view, slack) ==
  {plan \in [to : Placements(pods, view), wake : SUBSET pods] :
     IsGreedyPlan(plan, view, slack)}

\* What the branch and bound counts as a solution: every machine not wanted
\* costs a power-on, whether or not it is ready.
Feasible(to, view, slack) ==
  WithinCapacity(to) /\ WithinBudget(to, Offline(view), slack)

\* The best plan of the search, or the placement of the greedy seed, to which
\* only a cold machine costs a power-on; either way every pod of a machine that
\* is not wanted is flagged.  Out of time, the greedy plan itself.
ExactPlans(pods, view, slack) ==
  LET greedy == GreedyPlans(pods, view, slack)
      Searched == {to \in Placements(pods, view) : Feasible(to, view, slack)}
      Flagged(to) == {p \in pods : to[p] \in Offline(view)}
  IN  greedy \cup {[to |-> to, wake |-> Flagged(to)] :
                     to \in Searched \cup {plan.to : plan \in greedy}}

\* What the local search makes of a greedy plan: the same pods, moved about
\* without a look at the budget.  The machines the greedy plan woke count as
\* ready from then on.
SearchedPlans(plan, view) ==
  LET pods == DOMAIN plan.to
      woken == Used(plan.to) \cap Cold(view)
  IN  {[to |-> to, wake |-> {p \in pods : to[p] \in Cold(view) \ woken}] :
         to \in {t \in Placements(pods, view) : On(t, None) = On(plan.to, None)}}

\* A greedy plan of fewer than two pods is returned as it is.
Small(plan) == Cardinality(On(plan.to, None)) + 2 > Cardinality(DOMAIN plan.to)

HeuristicPlans(pods, view, slack) ==
  UNION {IF Small(plan) THEN {plan} ELSE SearchedPlans(plan, view) :
           plan \in GreedyPlans(pods, view, slack)}

\* The plans an algorithm returns.  The exact solver hands over to the heuristic
\* when it leaves every pod out, so a problem sent to it may have the plans of
\* both.
Plans(algorithm, pods, view, slack) ==
  CASE algorithm = "greedy"    -> GreedyPlans(pods, view, slack)
    [] algorithm = "exact"     -> ExactPlans(pods, view, slack)
    [] algorithm = "heuristic" -> HeuristicPlans(pods, view, slack)
================================================================================
