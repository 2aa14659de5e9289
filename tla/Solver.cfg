SPECIFICATION FairSolver
CONSTANTS
  n1 = n1
  n2 = n2
  n3 = n3
  p1 = p1
  p2 = p2
  p3 = p3
  None = None
  Nodes <- ThreeNodes
  Pods <- ThreePods
  Listed <- NodeList
  Sorted <- PodList
  Resources <- Both
  Request <- MixedRequests
  Capacity <- MixedCapacity
  BaseScores <- Policy
  MaxPowerOns = 2
  InFlightCounts = {0, 1, 3}
INVARIANTS
  NeverOverdrawn
  BudgetKept
  WakesOnce
  IInv
  ExactTypeOK
  HeuristicTypeOK
  SpendingHonest
  PathHonest
  BestWithinBudget
  IncumbentSound
  Exhaustive
  Conserved
  AccountsHonest
  HeuristicKeepsContract
  SolverKeepsContract
  FallsBackOnlyAtALoss
PROPERTIES
  Returns
CHECK_DEADLOCK FALSE
