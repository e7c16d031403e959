SPECIFICATION Spec
CONSTANTS
  Workers = {w1, w2}
  Missing = {p1, p2, p3}
  RetryLimit = 1
  Futures = {"pends", "panics"}
  Faults = {"shutdown", "silent", "panic", "write"}
  None = None
INVARIANTS
  OneOwner
  NoPieceLost
  NeverIncomplete
  BoundedAttempts
  LateDequeues
  InterruptedIsQuiet
  NeverStuck
PROPERTIES
  StepsRunOut
  Termination
  InterruptionDrains
CHECK_DEADLOCK FALSE
