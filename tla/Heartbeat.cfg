SPECIFICATION BSpec
CONSTANTS
  Conn = {c1, c2}
  PingPeriod = 5
  PongTimeout = 15
  MaxDelay = 9
INVARIANTS TimeoutsFindClosed
