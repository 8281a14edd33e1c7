SPECIFICATION FairSpec
CONSTANTS
  login = login
  chars = chars
  other = other
  NoJob = NoJob
  PThreads = 2
  JThreads = 1
  DThreads = 1
  Messages <- MCMessages
  Target <- MCTarget
INVARIANTS TypeOK NoDispatchToDyingPool NothingHalfDone
PROPERTIES ShutdownTerminates
CHECK_DEADLOCK FALSE
