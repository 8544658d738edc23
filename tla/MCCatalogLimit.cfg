\* Two customers put one code on an order each before either has paid.
SPECIFICATION Spec
CONSTANTS
  u1 = u1
  u2 = u2
  w1 = w1
  w2 = w2
  c1 = c1
  Users = {u1, u2}
  Workers = {w1}
  Codes = {c1}
  Offers <- OneOffer
  CodeTerms <- MCTerms
  MaxOrders = 2
  MaxInt = 127
  None = None
INVARIANTS
  LimitsHold
