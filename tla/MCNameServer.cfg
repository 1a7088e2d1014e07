SPECIFICATION Spec
CONSTANTS
  Stream = {s1, s2}
  Call = {j1, j2, j3}
  Node = {n1, n2}
  n1 = n1
  n2 = n2
  Cmd = {x1, x2}
  x1 = x1
  x2 = x2
  Offers <- TheOffers
  Nil = Nil
SYMMETRY Symmetry
CONSTRAINT Unraced
INVARIANTS  NoneLeft  QueryIsRegular
CHECK_DEADLOCK FALSE
