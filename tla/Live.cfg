SPECIFICATION FairSpec
CONSTANTS
  Node = {n1, n2, n3}
  Write = {w1, w2}
  Cap = 1
  PromoteChoices = {FALSE, TRUE}
  PromoteIdleRounds = 2
  MaxDups = 0
  MaxCrashes = 1
PROPERTIES
  StandbyCatchesUp
  WritesAnswered
  PromotionHappens
CHECK_DEADLOCK FALSE
