SPECIFICATION FairSpec
CONSTANTS
  N = 5
  WriteChunk = 2
  WriteInFlight = 2
  WriteTries = 2
  RollbackTimeout = 1
  Deadline = 2
INVARIANTS
  TypeOK
  SuccessIsWhole
  RollbackIsComplete
  RollbackHasItsTime
PROPERTIES
  CreateEnds
  ImplementsLifecycle
CHECK_DEADLOCK FALSE
