CONSTANTS
  Addr = {a, b}
  NoAddr = NoAddr
  Packet = {p, q}
  EXPL_MAX_LEN = 4
  QUEUE_QMAX = 2
  Preempt = FALSE
  Crashes = FALSE
  ChangeBound = 2
SPECIFICATION FairSpec
INVARIANT
  ExplFollows
PROPERTY
  Verdict
CHECK_DEADLOCK FALSE
