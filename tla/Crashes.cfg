SPECIFICATION Spec
CONSTANTS
  Node = {n1, n2, n3}
  Write = {w1, w2}
  Cap = 1
  PromoteChoices = {FALSE, TRUE}
  PromoteIdleRounds = 2
  MaxDups = 0
  MaxCrashes = 2
SYMMETRY Symm
INVARIANTS
  TypeOK
  StoresAgree
  AckedNotLost
  GapIsAWrite
  InStepWithRing
PROPERTY RefinesReplicatedStore
CHECK_DEADLOCK FALSE
