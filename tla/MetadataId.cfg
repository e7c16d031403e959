SPECIFICATION Spec
CONSTANTS
  NumBlocks = 2
  BlockRetries = 3
  HandshakeAttempts = 5
  Greetings <- OtherId
  Chatter = 1
INVARIANT FailsForCause
CHECK_DEADLOCK FALSE
