SPECIFICATION SSpec
CONSTANTS
  PlainConn = {p1}
  TlsConn = {s1}
  MaxMessages = 1
  Name = {n1}
  NotAString = NotAString
  IntMax = 3
  ClientInt <- MCClientInt
  MaxPairs = 1
  Text <- MCText
INVARIANTS WTypeOK NoLostWakeup PingIterationStable ListsFollowConnections SenderListed PongTimeoutEndpoint PeersListed
PROPERTIES SendsToOwnEndpoint
