SPECIFICATION Spec
CONSTANTS
  InitialTimeout = 1
  Ttl = 2
  Duplicates = 1
  Lists = {"peers"}
  Refusals = {"announce"}
INVARIANT AgeBounded
INVARIANT OwnAnswer
INVARIANT MismatchForCause
INVARIANT EndsInTime
PROPERTY Ends
PROPERTY ImplementsQuery
CHECK_DEADLOCK FALSE
