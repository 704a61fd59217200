CONSTANTS
  Addr = {a, b}
  IfIndex = 1
  Metric = {1, 2}
SPECIFICATION Spec
INVARIANT
  RouteReachesKernel
