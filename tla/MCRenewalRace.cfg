\* Two renewals of one account at once.
CONSTANTS
  w1 = w1
  w2 = w2
  early = early
  endless = endless
  Accounts = {early}
  Workers = {w1, w2}
  Durations = {1, 3}
  Day = 2
  MaxInt = 7
  FirstExpiry <- OnlyEarly
  MaxTime = 3
  MaxRenewals = 2
SPECIFICATION Spec
SYMMETRY Symmetry
INVARIANTS
  DaysAlwaysStack
CHECK_DEADLOCK FALSE
