CONSTANTS
  Timer = {t, u, v}
  NULL = NULL
  Kind = {RREQ}
  MSEC = 2
  Msecs <- Delays
  RATELIMIT = 2
  SECOND = 1
  TimeBound = 3
  OpBound = 5
SPECIFICATION FairSpec
INVARIANTS
  TypeOK
  NearlySorted
  Linked
  Punctual
  RateLimited
PROPERTY
  ImplementsTimers
CHECK_DEADLOCK FALSE
