\* The store alone, under every caller that keeps to what the shop asks.
CONSTANTS
  u1 = u1
  u2 = u2
  Users = {u1, u2}
  Admins = {a1}
  Codes = {c1}
  Services = {1}
  Amounts = {2}
  Referrer <- MCReferrer
  Reward = 1
  Nobody = Nobody
  NoCode = NoCode
  MaxOrders = 2
  MaxGifts = 1
SPECIFICATION Spec
INVARIANTS
  TypeOK
  NothingUnpaid
  LedgerMatchesOrders
  BalanceExplained
  RewardedOnce
  CodesSpentOnCompletion
PROPERTIES
  SealedOrders
  ImplementsEscrow
CHECK_DEADLOCK FALSE
