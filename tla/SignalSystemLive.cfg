SPECIFICATION FairSSpec
CONSTANTS
  PlainConn = {p1}
  TlsConn = {}
  MaxMessages = 2
  Name = {n1}
  NotAString = NotAString
  IntMax = 3
  ClientInt <- MCClientInt
  MaxPairs = 1
  Text <- MCText
PROPERTIES ClosedForgotten ExitReachesJoin2 NotifiedWaiterExits ClosedSignedOut
