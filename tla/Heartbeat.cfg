SPECIFICATION Spec
CONSTANTS
  RefreshAge = 20
  Requeue = 30
  Delay = 2
  Graces = {40, 84}
  MaxMisses = 1
INVARIANTS
  IInv
  AgeBounded
  BackSoon
  StaysReady
