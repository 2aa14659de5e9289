SPECIFICATION Spec
CONSTANTS
  n1 = n1
  n2 = n2
  n3 = n3
  p1 = p1
  p2 = p2
  None = None
  Nodes <- TwoNodes
  Pods <- TwoPods
  Resources <- Cpu
  Request <- OneEach
  Capacity <- RoomForOne
  Namespaces = {"user"}
  Lagging = {}
  UserPhases = {}
  MaxPowerOns = 1
  UsedAlgorithms = {"greedy", "exact"}
  Disturbances = {}
INVARIANTS
  AssignedFit
