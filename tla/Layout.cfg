SPECIFICATION Spec
CONSTANTS
  Torrents <- SomeTorrents
  Unsafe = {".."}
  Block = 2
  Buffer = 3
  Memory = 8
  Word = 64
INVARIANT PiecesTile
INVARIANT FilesExact
INVARIANT FailsForCause
PROPERTY Concludes
CHECK_DEADLOCK FALSE
