SPECIFICATION WSpec
CONSTANTS
  Conn = {c1, c2, c3}
  Name = {n1}
  NotAString = NotAString
  IntMax = 4
  ClientInt <- MCClientInt
  MaxPairs = 3
SYMMETRY Symmetry
PROPERTIES ImplementsCallDirectory
CHECK_DEADLOCK FALSE
