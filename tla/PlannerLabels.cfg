SPECIFICATION ReleaseSpec
CONSTANTS
  n1 = n1
  n2 = n2
  n3 = n3
  p1 = p1
  p2 = p2
  None = None
  Nodes <- TwoNodes
  Pods <- OnePod
  Resources <- Cpu
  Request <- OneEach
  Capacity <- RoomForTwo
  Namespaces = {"user", "system"}
  Lagging = {}
  UserPhases = {}
  MaxPowerOns = 1
  UsedAlgorithms <- Algorithms
  Disturbances = {"refuse", "restart", "delete", "remove", "retire", "unready"}
INVARIANTS
  LabelInv
  ReleaseInv
PROPERTIES
  LabelSticks
  ReleasedToNode
SYMMETRY Symmetry
