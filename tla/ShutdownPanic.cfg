SPECIFICATION Spec
CONSTANTS
  Workers = {w1, w2, w3}
  Missing = {p1, p2, p3}
  RetryLimit = 1
  Futures = {"panics"}
  Faults = {"shutdown"}
  None = None
SYMMETRY Symmetry
INVARIANT
  ShutdownKeepsWorkers
CHECK_DEADLOCK FALSE
