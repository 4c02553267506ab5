SPECIFICATION SSpec
CONSTANTS
  Proc = {x1, x2, x3}
  Server = {x1, x2, x3}
  Stopper = {x1, x2, x3}
  NoQueue = NoQueue
  QueueSize = 1
  Disk <- MCShippedDisk
  Number <- MCNumber
  StartLine <- MCStartLine
  StopLine <- MCStopLine
INVARIANTS AloneIsStoppable
PROPERTIES StopReachesService
CHECK_DEADLOCK FALSE
