SPECIFICATION Spec
CONSTANTS
  NumPieces = 3
  Inodes = {1, 2, 3, 4}
  Layouts = {"single", "multi"}
  Faults = {"kill", "io", "damage", "other", "foreign"}
  None = None
  Foreign = Foreign
  Torn = Torn
INVARIANTS
  TrustedAreVerified
  OutputComplete
  StoredIsRecorded
PROPERTIES
  ForeignKept
  ImplementsCheckpoint
