SPECIFICATION FairSpec
CONSTANTS
  N = 3
  NumTrains = 2
  StrikeThreshold = 2
  MaxCrashes = 1
  MaxWrong = 1
INVARIANTS
  TypeOK
  NoSelfExclusion
  RingIsClosed
PROPERTY RingHeals
CHECK_DEADLOCK FALSE
