SPECIFICATION Spec
CONSTANTS
  Node = {n1, n2, n3}
  Write = {w1, w2}
  Cap = 1
  PromoteChoices = {TRUE}
  PromoteIdleRounds = 2
  MaxDups = 0
  MaxCrashes = 1
INVARIANT UniqueIds
CHECK_DEADLOCK FALSE
