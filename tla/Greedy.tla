--------------------------------- MODULE Greedy ---------------------------------
(****************************************************************************)
(* internal/solver/greedy.go: first fit, the most demanding pod first, the  *)
(* ready machines before the others.  One step places or skips one pod.     *)
(*                                                                          *)
(* A machine scores what the policy gives it, below zero if the policy      *)
(* penalizes power or boot time, and a bonus if it is ready.  Migrations    *)
(* are left out, as no caller sets IsRebalancingMove or PreferredNode.  The *)
(* result is a GreedyPlan of SolverContract.                                *)
(****************************************************************************)
EXTENDS SolverContract

CONSTANTS MaxPowerOns,     \* Constraints.MaxConcurrentPowerOns
          InFlightCounts,  \* the values of CurrentPowerOnsInFlight considered
          BaseScores,      \* the base scores a policy may give the machines
          Listed           \* the machines, in the order of the input

ASSUME GreedyAssumption ==
  /\ IsFiniteSet(Pods)
  /\ Resources = {"cpu", "memory"}
  /\ MaxPowerOns \in Nat
  /\ InFlightCounts \subseteq Nat
  /\ BaseScores \subseteq [Nodes -> Int]
  /\ Listed \in [1..Cardinality(Nodes) -> Nodes]
  /\ \A n \in Nodes : \E i \in DOMAIN Listed : Listed[i] = n

VARIABLES view,       \* the flags of the machines, as given
          base,       \* their base scores
          rank,       \* the order in which machines are tried
          inFlight,   \* CurrentPowerOnsInFlight
          left,       \* the pods not yet considered
          remaining,  \* remaining[n][r]: RemainingCPU and RemainingMemory
          flags,      \* the flags of the machines, kept up to date
          to, wake,   \* the assignments, and those with RequiresWake
          powerOns    \* powerOnsUsed

inputs == <<view, base, rank, inFlight>>
vars == <<inputs, left, remaining, flags, to, wake, powerOns>>

\* DefaultConsolidationBonus and ComputeAssignmentScore.
Bonus == 100
Score(score, ready) == score + IF ready THEN Bonus ELSE 0

\* sortNodesByPreference: the ready machines, then the higher score; by name at
\* last, which is any order.
Preferred(m, n) ==
  \/ view[m].ready /\ ~view[n].ready
  \/ view[m].ready = view[n].ready /\ base[m] > base[n]

Ranks == {f \in [Nodes -> 1..Cardinality(Nodes)] :
            \A m, n \in Nodes : m # n =>
              f[m] # f[n] /\ (Preferred(m, n) => f[m] < f[n])}

\* sortPodsByDemand: cpu first, then memory.
Before(p, q) ==
  \/ Request[p]["cpu"] > Request[q]["cpu"]
  \/ Request[p]["cpu"] = Request[q]["cpu"] /\ Request[p]["memory"] > Request[q]["memory"]

\* Mutants: memory is not looked at; a machine is never filled to the brim; the
\* budget is not looked at.
FitsCpu(p, n) == Request[p]["cpu"] <= remaining[n]["cpu"]
FitsLoosely(p, n) == \A r \in Resources : Request[p][r] < remaining[n][r]
BlockedNever(n) == FALSE

Fits(p, n) == \A r \in Resources : Request[p][r] <= remaining[n][r]
NeedsWake(n) == flags[n].offline /\ ~flags[n].ready
Blocked(n) == NeedsWake(n) /\ powerOns >= MaxPowerOns
Usable(p) == {n \in Nodes : Fits(p, n) /\ ~Blocked(n)}

\* Mutants: the machine is not marked as about to be ready; it costs nothing.
MarkOnlyCount(n) ==
  /\ powerOns' = IF NeedsWake(n) THEN powerOns + 1 ELSE powerOns
  /\ UNCHANGED flags

MarkForFree(n) ==
  /\ flags' = IF NeedsWake(n) THEN [flags EXCEPT ![n] = [ready |-> TRUE, offline |-> FALSE]]
                              ELSE flags
  /\ UNCHANGED powerOns

\* A machine to wake is charged once, then counts as ready.
Mark(n) ==
  IF NeedsWake(n)
    THEN /\ powerOns' = powerOns + 1
         /\ flags' = [flags EXCEPT ![n] = [ready |-> TRUE, offline |-> FALSE]]
    ELSE UNCHANGED <<powerOns, flags>>

Place(p, n) ==
  /\ n \in Usable(p)
  /\ \A m \in Usable(p) : rank[n] <= rank[m]
  /\ to' = [to EXCEPT ![p] = n]
  /\ wake' = IF NeedsWake(n) THEN wake \cup {p} ELSE wake
  /\ remaining' = [remaining EXCEPT ![n] = [r \in Resources |-> @[r] - Request[p][r]]]
  /\ Mark(n)

\* Recorded as unassigned.
Skip(p) ==
  /\ Usable(p) = {}
  /\ UNCHANGED <<to, wake, remaining, powerOns, flags>>

Consider(p) ==
  /\ p \in left
  /\ \A q \in left : ~Before(q, p)
  /\ left' = left \ {p}
  /\ Skip(p) \/ \E n \in Nodes : Place(p, n)
  /\ UNCHANGED inputs

Init ==
  /\ view \in [Nodes -> Views]
  /\ base \in BaseScores
  /\ rank \in Ranks
  /\ inFlight \in InFlightCounts
  /\ left = Pods
  /\ remaining = Capacity
  /\ flags = view
  /\ to = [p \in Pods |-> None]
  /\ wake = {}
  /\ powerOns = inFlight

Next == \E p \in Pods : Consider(p)

Spec == Init /\ [][Next]_vars

\* The plan, and the scores recorded with it: the pod a machine is woken for
\* gets no bonus, those that follow it do.
GreedyPlan == [to |-> to, wake |-> wake]
GreedyScore(p) ==
  IF to[p] = None THEN 0 ELSE Score(base[to[p]], flags[to[p]].ready /\ p \notin wake)
GreedyTotal == SumFunctionOnSet([p \in Pods |-> GreedyScore(p)], Pods)

--------------------------------------------------------------------------------
TypeOK ==
  /\ view \in [Nodes -> Views]
  /\ base \in [Nodes -> Int]
  /\ flags \in [Nodes -> Views]
  /\ inFlight \in Nat
  /\ powerOns \in Nat
  /\ left \subseteq Pods
  /\ remaining \in [Nodes -> [Resources -> Int]]
  /\ to \in [Pods -> Nodes \cup {None}]
  /\ wake \subseteq Pods

\* No machine is filled beyond what it declares: what greedy counts as left of
\* it never drops below zero (CanFit before every Sub).
NeverOverdrawn == \A n \in Nodes, r \in Resources : remaining[n][r] >= 0

\* The machines a plan wakes, together with those in flight, are within the
\* policy's limit, also when several pods share a machine that is woken once.
BudgetKept == WithinBudget(to, Cold(view), MaxPowerOns - inFlight)

\* Each machine the plan wakes has exactly one assignment that asks for it.
WakesOnce == OneFlagEach(to, view, wake)

\* Why the budget is kept: the count, the flags and the assignments agree.
Charged ==
  /\ \A n \in Nodes :
       flags[n] = IF n \in Used(to) \cap Cold(view) THEN [ready |-> TRUE, offline |-> FALSE]
                                                    ELSE view[n]
  /\ \A p \in left : to[p] = None
  /\ powerOns = inFlight + Cardinality(Used(to) \cap Cold(view))

\* What greedy counts as left of a machine is what the assignments leave of it.
Accounted == \A n \in Nodes, r \in Resources : remaining[n][r] = Remaining(to, n, r)

\* A pod was skipped for a cause, and the cause stands however the others are
\* placed: no machine has room for it but one to wake, and the budget is spent.
SkippedForCause ==
  \A p \in On(to, None) \ left, n \in Nodes :
    CanFit(p, to, n) =>
      /\ n \in Cold(view) \ Used(to)
      /\ powerOns >= MaxPowerOns

IInv ==
  /\ TypeOK
  /\ NeverOverdrawn
  /\ BudgetKept
  /\ WakesOnce
  /\ Charged
  /\ Accounted
  /\ SkippedForCause
================================================================================
