CONSTANTS
  Half = 128
  FullShare = 10
  MinScore = 6
  MaxLate = 2
  Months = 3
  MaxShare = 9
  Bands <- NewPolicyBands
  Scores = {5, 6, 7, 8}
  Amounts <- MCAmounts
  Lates = {0, 2, 3}
  Spends <- MCSpends
SPECIFICATION Spec
CHECK_DEADLOCK FALSE
INVARIANTS TypeOK AmountIsAffordable BetterNeverHurts SpendWithinACent
