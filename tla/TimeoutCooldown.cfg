SPECIFICATION Spec
CONSTANTS
  Peers = {a, b}
  Doubled = {a}
  NumPieces = 2
  Workers = {w1, w2}
  Attempts = 1
  MaxRetries = 5
  CooldownAttempts = 2
  RequestTimeout = 5
  None = None
SYMMETRY Symmetry
PROPERTIES
  TimeoutCools
