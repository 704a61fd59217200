CONSTANTS
  Addr = {a, b}
  NoAddr = NoAddr
  Packet = {p, q}
  EXPL_MAX_LEN = 4
  QUEUE_QMAX = 1
  Preempt = TRUE
  Crashes = TRUE
  ChangeBound = 3
SPECIFICATION Spec
SYMMETRY KaodvSymmetry
INVARIANTS
  TypeOK
  ExplHasRoutes
CHECK_DEADLOCK FALSE
