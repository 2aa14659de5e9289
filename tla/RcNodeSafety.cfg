SPECIFICATION Spec
CONSTANTS
  r1 = r1
  r2 = r2
  Nodes <- OneNode
  Workers = 1
  UserPhases <- AnyPhase
  Disturbances <- AllDisturbances
INVARIANTS
  TypeOK
  NodeBacked
  IInv
PROPERTIES
  BootRespected
  ImplementsLifecycle
