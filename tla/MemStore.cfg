SPECIFICATION StreamSpec
CONSTANTS
  Key = {k1, k2}
  Field = {f, g}
  Member = {1, 2}
  MaxInt = 3
  MaxFloat = 4
  Command <- MCCommand
INVARIANTS
  StreamTypeOK
  EmptiedKeysVanish
  ErrorsChangeNothing
  CountersAreExact
