SPECIFICATION Spec
CONSTANTS
  NumBlocks = 2
  BlockRetries = 3
  HandshakeAttempts = 5
  Greetings <- BitfieldFirst
  Chatter = 1
PROPERTY ConnectionEnds
CHECK_DEADLOCK FALSE
