SPECIFICATION FairSpec
CONSTANTS
  r1 = r1
  r2 = r2
  Nodes <- TwoNodes
  Workers = 1
  UserPhases <- OnlineOnly
  Disturbances = {}
PROPERTIES
  Serves
