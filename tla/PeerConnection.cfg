SPECIFICATION Spec
CONSTANTS
  NumBlocks = 3
  BlockRetries = 3
  HandshakeAttempts = 5
  Greetings <- SomeGreetings
  Chatter = 2
PROPERTY StepsRunOut
INVARIANT BlocksInOrder
INVARIANT FailsForCause
INVARIANT AsksOnlyHolders
PROPERTY EndsUnlessDeferred
CHECK_DEADLOCK FALSE
