SPECIFICATION Spec
CONSTANTS
  n1 = n1
  n2 = n2
  c1 = c1
  c2 = c2
  k1 = k1
  k2 = k2
  f = f
  Node = {n1, n2}
  Client = {c1, c2}
  Key = {k1, k2}
  Field = {f}
  Member = {1, 2}
  MaxInt = 3
  MaxFloat = 4
  Home <- Apart
  MayIssue <- Mixed
  MaxWrites = 3
INVARIANTS
  AsIfAtomic
  PopsAtWorstNothing
CHECK_DEADLOCK FALSE
