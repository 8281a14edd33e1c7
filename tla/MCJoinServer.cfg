SPECIFICATION FairSpec
CONSTANTS
  malformed = malformed
  right = right
  wrong = wrong
  null = null
  NoRequest = NoRequest
  Requests <- MCRequests
  Kind <- MCKind
  Callers = 2
  RetryCount = 1
INVARIANTS TypeOK OwnRows
PROPERTIES NoCallForgotten RefusedForCause ImplementsLoginService QueueServed
CHECK_DEADLOCK FALSE
