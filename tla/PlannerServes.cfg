SPECIFICATION ServesSpec
CONSTANTS
  n1 = n1
  n2 = n2
  n3 = n3
  p1 = p1
  p2 = p2
  None = None
  Nodes <- OneNode
  Pods <- TwoPods
  Resources <- Cpu
  Request <- OneEach
  Capacity <- RoomForTwo
  Namespaces = {"user"}
  Lagging = {"rcNodes"}
  UserPhases <- SwitchOn
  MaxPowerOns = 1
  UsedAlgorithms = {"greedy", "exact"}
  Disturbances = {"refuse", "restart", "foreign", "unready"}
PROPERTIES
  AssignedIsReleased
