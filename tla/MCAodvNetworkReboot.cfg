CONSTANTS
  a = a
  b = b
  c = c
  Addr <- Hosts
  NoAddr = NoAddr
  BCast = BCast
  U32 = 4
  WaitOnReboot = TRUE
  LocalRepair = FALSE
  ExpandingRing = TRUE
  RateLimit = FALSE
  Links <- Line
  Lossy = FALSE
  Patient = TRUE
  Restarts = FALSE
  Flows <- AtoC
  EventBound = 1
SPECIFICATION FairSpec
PROPERTY
  DiscoverySucceeds
CHECK_DEADLOCK FALSE
