CONSTANTS
  Addr = {s, a, b, c}
  NoAddr = NoAddr
  BCast = BCast
  Self = s
  U32 = 4
  WaitOnReboot = FALSE
  LocalRepair = TRUE
  ExpandingRing = TRUE
  RateLimit = TRUE
  InSeqnos = {3}
  InHops = {0, 1}
  InIds = {0}
  InLives = {"POS", "LATE"}
  InRoutes <- AllRoutes
  InputBound = 3
SPECIFICATION Spec
SYMMETRY PeerSymmetry
INVARIANTS
  TypeOK
  KernelSound
  NeighbourInKernel
  TimerFitsState
  RepairNotValid
  HelloBreaksLink
  EntriesCounted
  NoSelfRoute
PROPERTY
  PrecursorsTold
CHECK_DEADLOCK FALSE
