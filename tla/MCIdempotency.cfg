SPECIFICATION Spec
CONSTANTS
  a = a
  b = b
  r1 = r1
  r2 = r2
  Callers <- TwoCallers
  Requests <- TwoRequests
  Lease = 3
  TTL = 4
  Timeout = 1
  Second = 2
  Skew = 1
  MaxClock = 8
  None = None
INVARIANTS
  TypeOK
  HolderHasTheRow
  ReplayIsFaithful
  InProgressIsBounded
  NotRerunWithinLease
PROPERTIES
  ResponseStays
CHECK_DEADLOCK FALSE
