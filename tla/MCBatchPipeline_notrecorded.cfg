SPECIFICATION Spec
CONSTANTS
  i1 = i1
  c1 = c1
  c2 = c2
  o1 = o1
  o2 = o2
  Items <- OneItem
  Verdict <- OneVerdict
  MaxAttempts = 1
  MaxReceives = 1
  StreamBatch = 1
  Copies <- OneCopy
  Operators <- OneOperator
  NoBatch = NoBatch
  NoItem = NoItem
  Foreign <- NoMessages
  MaxResends = 0
INVARIANTS
  NotRecordedNothingPublished
CHECK_DEADLOCK FALSE
