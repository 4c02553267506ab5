SPECIFICATION HSpec
CONSTANTS
  Conn = {c1, c2}
  Name = {n1, n2}
  NotAString = NotAString
  IntMax = 5
  ClientInt <- MCClientInt
  MaxPairs = 1
SYMMETRY Symmetry
INVARIANTS TypeOK UniqueIds NextIDEnds
PROPERTIES ReuseDistance
CHECK_DEADLOCK FALSE
