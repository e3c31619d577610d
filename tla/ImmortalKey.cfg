SPECIFICATION Spec
CONSTANTS
  s1 = s1
  r1 = r1
  k1 = k1
  k2 = k2
  v1 = v1
  v2 = v2
  Node = {s1, r1}
  Survivor = s1
  Rejoiner = r1
  Key = {k1, k2}
  Val = {v1, v2}
  Command <- MCCommand
  StaleVals = {}
  StaleTimes = {}
  MaxTime = 3
  MaxWrites = 2
  MaxEntries = 3
INVARIANT TtlSurvivesTransfer
CHECK_DEADLOCK FALSE
