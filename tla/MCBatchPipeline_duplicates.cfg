SPECIFICATION Spec
CONSTANTS
  i1 = i1
  c1 = c1
  c2 = c2
  o1 = o1
  o2 = o2
  Items <- OneItem
  Verdict <- OneVerdict
  MaxAttempts = 2
  MaxReceives = 2
  StreamBatch = 2
  Copies <- TwoCopies
  Operators <- OneOperator
  NoBatch = NoBatch
  NoItem = NoItem
  Foreign <- NoMessages
  MaxResends = 0
SYMMETRY CopySymmetry
INVARIANTS
  NoWorkLost
  LinesCountOnce
  FailureIsOfItsAttempt
CHECK_DEADLOCK FALSE
