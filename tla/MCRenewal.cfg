\* Renewals of two accounts, overlapping, refused or with lost answers.
CONSTANTS
  w1 = w1
  w2 = w2
  early = early
  endless = endless
  Accounts = {early, endless}
  Workers = {w1, w2}
  Durations = {0, 1, 4, 9}
  Day = 2
  MaxInt = 7
  FirstExpiry <- MCFirstExpiry
  MaxTime = 3
  MaxRenewals = 3
SPECIFICATION Spec
SYMMETRY Symmetry
INVARIANTS
  DaysStack
  NoFreeDays
CHECK_DEADLOCK FALSE
