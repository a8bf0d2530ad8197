SPECIFICATION FairSpec
CONSTANTS
  Ids = {a1, a2}
  Keys = {k1}
  Capacity = 1
  LeaseDuration = 1
  IdleAllowance = 1
  Drainers = {d1}
  MaxTime = 1
  NoId = NoId
  NoKey = NoKey
PROPERTIES CallsReturn LapsedIsClosed
CHECK_DEADLOCK FALSE
