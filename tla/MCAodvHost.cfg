CONSTANTS
  a = a
  b = b
  Addr = {s, a, b}
  NoAddr = NoAddr
  BCast = BCast
  Self = s
  U32 = 4
  WaitOnReboot = FALSE
  LocalRepair = FALSE
  ExpandingRing = TRUE
  RateLimit = FALSE
  InSeqnos = {0}
  InHops = {0, 1}
  InIds = {0}
  InLives = {"POS"}
  InRoutes <- ToA
  InputBound = 4
SPECIFICATION HostSpec
INVARIANTS
  CacheSound
  QueueAwaited
PROPERTIES
  KernelTold
  PacketsDecided
  TableDrains
CHECK_DEADLOCK FALSE
