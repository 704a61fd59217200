CONSTANTS
  Addr = {a, b}
  NoAddr = NoAddr
  Packet = {p, q}
  EXPL_MAX_LEN = 4
  QUEUE_QMAX = 1
  Preempt = FALSE
  Crashes = FALSE
  ChangeBound = 1
SPECIFICATION Spec
SYMMETRY KaodvSymmetry
INVARIANT
  Dropped
CHECK_DEADLOCK FALSE
