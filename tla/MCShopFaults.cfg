\* Two customers and an admin, two handlers at a time, every kind of fault.
CONSTANTS
  u1 = u1
  u2 = u2
  w1 = w1
  w2 = w2
  c1 = c1
  n1 = n1
  n2 = n2
  Users = {u1, u2}
  Admins = {a1}
  Codes = {c1}
  Services = {1, 2}
  Amounts = {2}
  Referrer <- MCReferrer
  Reward = 1
  Nobody = Nobody
  NoCode = NoCode
  MaxOrders = 2
  MaxGifts = 1
  Workers = {w1, w2}
  Names = {n1, n2, n3}
  Foreign = {n3}
  Terms <- MCTerms
  Faults = {"refused", "lost", "store"}
  MaxTries = 2
  RecoverLimit = 2
  MaxInt = 127
  MaxCrashes = 1
SPECIFICATION ShopSpec
SYMMETRY Symmetry
INVARIANTS
  ShopTypeOK
  SingleWorker
  DeliveredOnce
  CompletedIsDelivered
PROPERTIES
  ImplementsOrders
CHECK_DEADLOCK FALSE
