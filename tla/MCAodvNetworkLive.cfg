CONSTANTS
  a = a
  b = b
  c = c
  Addr <- Hosts
  NoAddr = NoAddr
  BCast = BCast
  U32 = 4
  WaitOnReboot = FALSE
  LocalRepair = FALSE
  ExpandingRing = TRUE
  RateLimit = FALSE
  Links <- Line
  Lossy = FALSE
  Patient = TRUE
  Restarts = FALSE
  Flows <- AtoC
  EventBound = 2
SPECIFICATION FairSpec
PROPERTY
  DiscoverySucceeds
CHECK_DEADLOCK FALSE
