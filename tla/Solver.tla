---------------------------------- MODULE Solver ----------------------------------
(****************************************************************************)
(* internal/solver/solver.go: one call of Solve.  The size of the problem   *)
(* and the time left select the algorithm; Exact and Heuristic both start   *)
(* from the plan of Greedy, and the heuristic takes over from an exact      *)
(* search that assigned nothing.  A call without pods or machines returns   *)
(* at once and is left out.                                                 *)
(****************************************************************************)
EXTENDS Exact, Heuristic

VARIABLES regime,    \* the algorithm selected
          algorithm  \* the algorithm that runs, Algorithm of the output

solverVars == <<vars, exactVars, heuristicVars, regime, algorithm>>

SearchDone == at \in {"given", "done"}
LocalDone == pass \in {"given", "done"}

\* The greedy run of the heuristic is that of the exact solver over again.
FallBack ==
  /\ algorithm = "exact" /\ SearchDone
  /\ Used(ExactPlan.to) = {}
  /\ algorithm' = "heuristic"
  /\ UNCHANGED <<vars, exactVars, heuristicVars, regime>>

SolverInit ==
  /\ Init /\ ExactInit /\ HeuristicInit
  /\ regime \in Algorithms
  /\ algorithm = regime

SolverNext ==
  \/ Next /\ UNCHANGED <<exactVars, heuristicVars, regime, algorithm>>
  \/ /\ left = {} /\ algorithm = "exact"
     /\ ExactStep
     /\ UNCHANGED <<vars, heuristicVars, regime, algorithm>>
  \/ FallBack
  \/ /\ left = {} /\ algorithm = "heuristic"
     /\ HeuristicStep
     /\ UNCHANGED <<vars, exactVars, regime, algorithm>>

SolverSpec == SolverInit /\ [][SolverNext]_solverVars

\* The solver runs on, and time passes.
FairSolver ==
  /\ SolverSpec
  /\ WF_solverVars(SolverNext)
  /\ WF_solverVars(left = {} /\ algorithm = "heuristic" /\ Expire
                     /\ UNCHANGED <<vars, exactVars, regime, algorithm>>)

Finished ==
  /\ left = {}
  /\ algorithm = "exact" => SearchDone /\ Used(ExactPlan.to) # {}
  /\ algorithm = "heuristic" => LocalDone

Answer == CASE algorithm = "greedy"    -> GreedyPlan
            [] algorithm = "exact"     -> ExactPlan
            [] algorithm = "heuristic" -> HeuristicPlan

\* What the planner is told is what it relies on, whichever algorithm ran last and
\* however far it got.
SolverKeepsContract ==
  Finished => Answer \in Plans(algorithm, Pods, view, MaxPowerOns - inFlight)

\* The heuristic, which looks at no budget, takes over a problem the greedy seed
\* could place something of only if the policy's penalties make that placement
\* worth less than nothing (solver.go:110-114, exact.go:243).
FallsBackOnlyAtALoss ==
  regime # algorithm => Used(to) = {} \/ GreedyTotal < 0

\* Every call returns: the branch and bound comes to its end, and the local search,
\* which may move pods to and fro for ever, stops at the deadline.
Returns == <>Finished
================================================================================
