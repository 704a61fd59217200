CONSTANTS
  Addr = {s, a, b}
  NoAddr = NoAddr
  BCast = BCast
  Self = s
  U32 = 4
  WaitOnReboot = FALSE
  LocalRepair = FALSE
  ExpandingRing = TRUE
  RateLimit = FALSE
  InSeqnos = {1, 3}
  InHops = {0, 1}
  InIds = {0}
  InLives = {"POS"}
  InRoutes <- AllRoutes
  InputBound = 3
SPECIFICATION Spec
SYMMETRY PeerSymmetry
INVARIANT
  ReplyIsSent
CHECK_DEADLOCK FALSE
