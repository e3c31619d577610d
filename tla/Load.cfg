SPECIFICATION Spec
CONSTANTS
  Conns <- MCConns
  Engines <- MCEngines
  Local = "local"
  Scripts <- MCScripts
  Cap = 2
  MaxLost = 1
  Count = 3
  MaxAbandons = 1
  NoConn = 0
INVARIANTS
  TypeOK
  DecodesWhatWasSent
  RepliesReadBack
  ReadsOwnWrites
  AckedIsApplied
  VerdictIsRight
CHECK_DEADLOCK FALSE
