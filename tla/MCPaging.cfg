SPECIFICATION FairSpec
CONSTANTS
  N = 3
  MaxAttempts = 2
  MaxPageLimit = 2
  Limits = {1, 2}
  AnyStatus = AnyStatus
  Filters <- TwoFilters
  RetryInFlight = 2
  Batches <- FewBatches
  MaxChanges = 2

INVARIANTS
  TypeOK
  ListedOnceInOrder
  NothingSkipped
  UnknownIsEmpty
  CountedWereRequeued
PROPERTIES
  CursorLeadsOn
  CallsEnd
CHECK_DEADLOCK FALSE
