\* Two starts by one customer at the same time.
CONSTANTS
  u1 = u1
  u2 = u2
  w1 = w1
  w2 = w2
  c1 = c1
  n1 = n1
  n2 = n2
  Users = {u1}
  Admins = {a1}
  Codes = {}
  Services = {1}
  Amounts = {2}
  Referrer <- NoReferrer
  Reward = 1
  Nobody = Nobody
  NoCode = NoCode
  MaxOrders = 2
  MaxGifts = 0
  Workers = {w1, w2}
  Names = {n1, n2, n3}
  Foreign = {n3}
  Terms <- NoTerms
  Faults = {}
  MaxTries = 2
  RecoverLimit = 2
  MaxInt = 127
  MaxCrashes = 0
SPECIFICATION ShopSpec
SYMMETRY Symmetry
INVARIANTS
  OneOpenOrder
CHECK_DEADLOCK FALSE
