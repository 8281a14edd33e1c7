SPECIFICATION FairSpec
CONSTANTS
  j1 = j1
  j2 = j2
  j3 = j3
  j4 = j4
  NoJob = NoJob
  NThreads = 3
  Jobs <- MCJobs
  Buffered <- MCBuffered
INVARIANTS TypeOK NoLostWakeup DataOwned CleanDestruction
PROPERTIES ImplementsTaskPool DestructionTerminates
CHECK_DEADLOCK FALSE
