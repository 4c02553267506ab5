SPECIFICATION QSpec
CONSTANTS
  Server = {p1, p2, p3}
  Stopper = {s1, s2}
  NoQueue = NoQueue
  QueueSize = 1
INVARIANTS QTypeOK NoStaleExit
PROPERTIES OpenedStopIsReceived
CHECK_DEADLOCK FALSE
