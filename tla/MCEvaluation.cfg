CONSTANTS
  Half = 128
  FullShare = 10
  MinScore = 6
  MaxLate = 2
  Months = 3
  MaxShare = 9
  Bands <- NewPolicyBands
  Scores = {}
  Amounts = {}
  Lates = {}
  Spends = {}
  Bodies <- MCBodies
  MaxCustomers = 2
  MaxRequests = 2
SPECIFICATION EvalSpec
CHECK_DEADLOCK FALSE
INVARIANTS AnswersStayOnRecord RefusedLeaveNothing FitIsWhatIsStored
