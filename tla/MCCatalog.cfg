\* Two plans and a code that are made, switched and deleted under two handlers.
SPECIFICATION Spec
CONSTANTS
  u1 = u1
  u2 = u2
  w1 = w1
  w2 = w2
  c1 = c1
  Users = {u1}
  Workers = {w1, w2}
  Codes = {c1}
  Offers <- MCOffers
  CodeTerms <- MCTerms
  MaxOrders = 2
  MaxInt = 127
  None = None
SYMMETRY Symmetry
INVARIANTS
  CatalogTypeOK
  NoOrphans
  SoldAsShown
  CodesWereGood
PROPERTIES
  CodesStay
