SPECIFICATION Spec
CONSTANTS
  NumPieces = 2
  Inodes = {1, 2, 3, 4}
  Layouts = {"single"}
  Faults = {"kill", "io", "power"}
  None = None
  Foreign = Foreign
  Torn = Torn
INVARIANTS
  CheckpointDurable
  ResumeReadable
  OutputDurable
