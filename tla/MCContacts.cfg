SPECIFICATION Spec
CONSTANTS
  User = {u1, u2}
  Sorters = {u1}
  Group = {g1, g2}
  Apply = {a1}
  Call = {c1, c2}
  u1 = u1
  u2 = u2
  g1 = g1
  g2 = g2
  a1 = a1
  c1 = c1
  c2 = c2
  NoUser = NoUser
  NoGroup = NoGroup
  MaxCount = 2
  Patient = TRUE
  Pairs <- Star
SYMMETRY Symmetry
INVARIANTS  DeletedIsGone NoOneWay
CHECK_DEADLOCK FALSE
