SPECIFICATION Spec
CONSTANTS
  NumPieces = 2
  Inodes = {1, 2, 3, 4}
  Layouts = {"single"}
  Faults = {"kill"}
  None = None
  Foreign = Foreign
  Torn = Torn
INVARIANT
  ResumesOnlyMissing
