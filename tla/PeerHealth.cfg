SPECIFICATION Spec
CONSTANTS
  Peers = {a, b}
  Doubled = {a}
  NumPieces = 2
  Workers = {w1, w2}
  Attempts = 2
  MaxRetries = 5
  CooldownAttempts = 1
  RequestTimeout = 1
  None = None
SYMMETRY Symmetry
INVARIANTS
  CountsMatchKnowledge
  EvidenceWins
  FailsAfterAsking
