SPECIFICATION FairSpec
CONSTANTS
  r1 = r1
  r2 = r2
  Nodes <- OneNode
  Workers = 1
  UserPhases <- WakeAndSleep
  Disturbances = {"wake"}
PROPERTIES
  WakeCompletes
