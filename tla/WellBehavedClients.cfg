SPECIFICATION OnceSpec
CONSTANTS
  Conn = {c1, c2, c3, c4}
  Name = {n1}
  NotAString = NotAString
  IntMax = 5
  ClientInt <- MCClientInt
  MaxPairs = 2
SYMMETRY Symmetry
INVARIANTS PairsAreCalls
PROPERTIES ImplementsCallDirectory
CHECK_DEADLOCK FALSE
