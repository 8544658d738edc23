\* Two customers, one invited by the other; refusals and a crash; everything that runs is scheduled.
CONSTANTS
  u1 = u1
  u2 = u2
  w1 = w1
  w2 = w2
  c1 = c1
  n1 = n1
  n2 = n2
  Users = {u1, u2}
  Admins = {a1}
  Codes = {}
  Services = {1}
  Amounts = {2}
  Referrer <- MCReferrer
  Reward = 1
  Nobody = Nobody
  NoCode = NoCode
  MaxOrders = 2
  MaxGifts = 1
  Workers = {w1, w2}
  Names = {n1, n2, n3}
  Foreign = {n3}
  Terms <- NoTerms
  Faults = {"refused"}
  MaxTries = 2
  RecoverLimit = 2
  MaxInt = 127
  MaxCrashes = 1
SPECIFICATION FairShopSpec
INVARIANTS
  FailedUndelivered
PROPERTIES
  EverySaleSettles
  InviterIsPaid
CHECK_DEADLOCK FALSE
