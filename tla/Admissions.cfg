SPECIFICATION Spec
CONSTANTS
  Ids = {a1, a2}
  Keys = {k1, k2}
  Capacity = 1
  LeaseDuration = 2
  IdleAllowance = 1
  Drainers = {d1, d2}
  MaxTime = 2
  NoId = NoId
  NoKey = NoKey
SYMMETRY Symmetric
INVARIANTS CapacityBound NobodyIsStranded ForgottenIsDrained DrainedIsQuiet StatusIsTruthful
PROPERTIES StaleIsFinal OwnersKeepContract 
CHECK_DEADLOCK FALSE
