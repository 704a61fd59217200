CONSTANTS
  Addr = {s, a, b}
  NoAddr = NoAddr
  BCast = BCast
  Self = s
  U32 = 8
  WaitOnReboot = FALSE
  LocalRepair = FALSE
  ExpandingRing = TRUE
  RateLimit = FALSE
  InSeqnos = {2, 4, 7}
  InHops = {0, 1}
  InIds = {0}
  InLives = {"POS"}
  InRoutes <- AllRoutes
  InputBound = 3
SPECIFICATION Spec
SYMMETRY PeerSymmetry
PROPERTY
  RouteImproves
CHECK_DEADLOCK FALSE
