\* Three people, three codes, two handlers and every kind of fault.
CONSTANTS
  u1 = u1
  u2 = u2
  u3 = u3
  k1 = k1
  k2 = k2
  k3 = k3
  w1 = w1
  w2 = w2
  People = {u1, u2, u3}
  Codes = {k1, k2, k3}
  NoCode = NoCode
  Nobody = Nobody
  Workers = {w1, w2}
  Faults = {"refused", "lost", "store"}
  MaxClaims = 3
  MaxCrashes = 1
SPECIFICATION Spec
SYMMETRY Symmetry
INVARIANTS
  CustomersTypeOK
  InvitersCameFirst
  OneFreeAccount
CHECK_DEADLOCK FALSE
