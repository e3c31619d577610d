SPECIFICATION Spec
CONSTANTS
  Node = {n1, n2}
  Write = {w1, w2, w3}
  Cap = 1
  PromoteChoices = {FALSE, TRUE}
  PromoteIdleRounds = 2
  MaxDups = 1
  MaxCrashes = 1
SYMMETRY Symm
INVARIANTS
  ExactlyOnce
  TailsInterchangeable
  HeadMatchesStore
  IInv
CHECK_DEADLOCK FALSE
