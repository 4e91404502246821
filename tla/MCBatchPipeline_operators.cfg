SPECIFICATION Spec
CONSTANTS
  i1 = i1
  c1 = c1
  c2 = c2
  o1 = o1
  o2 = o2
  Items <- OneItem
  Verdict <- OneVerdict
  MaxAttempts = 2
  MaxReceives = 1
  StreamBatch = 2
  Copies <- OneCopy
  Operators <- TwoOperators
  NoBatch = NoBatch
  NoItem = NoItem
  Foreign <- NoMessages
  MaxResends = 1
SYMMETRY OperatorSymmetry
INVARIANTS
  TypeOK
  LinesCountOnce
PROPERTIES
  OutcomeIsFinal
  RetryAnswersItsRead
  ImplementsLifecycle
CHECK_DEADLOCK FALSE
