CONSTANTS
  a = a
  b = b
  c = c
  Addr <- Hosts
  NoAddr = NoAddr
  BCast = BCast
  U32 = 4
  WaitOnReboot = FALSE
  LocalRepair = FALSE
  ExpandingRing = TRUE
  RateLimit = TRUE
  Links <- Line
  Lossy = TRUE
  Patient = FALSE
  Restarts = TRUE
  Flows <- AtoC
  EventBound = 4
SPECIFICATION Spec
INVARIANTS
  TypeOK
  SeqnosZero
  ValidHasTimer
  HopsAreReal
  NeighbourHop
CHECK_DEADLOCK FALSE
