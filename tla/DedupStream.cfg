SPECIFICATION StreamSpec
CONSTANTS
  Replica = {r1, r2}
  Origin = {a, b}
  Id = {0, 1, 2}
INVARIANTS
  StreamTypeOK
  WindowNormal
  Canonical
PROPERTY RefinesFlatSet
