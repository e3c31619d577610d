SPECIFICATION FairSpec
CONSTANTS
  a1 = a1
  a2 = a2
  a3 = a3
  b1 = b1
  b2 = b2
  ipA = ipA
  ipB = ipB
  Conn <- MCConn
  Ip <- MCIp
  ip <- mcip
  MaxConns = 3
  PerIpCap = 2
INVARIANTS
  PermitsConserved
  CountsExact
PROPERTIES
  RefusedOnlyAtCap
  CapacityReturns
CHECK_DEADLOCK FALSE
