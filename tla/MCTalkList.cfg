SPECIFICATION Spec
CONSTANTS
  User = {u1, u2}
  Msg = {m1, m2}
  Op = {o1, o2, o3, o4}
  u1 = u1
  u2 = u2
  m1 = m1
  m2 = m2
  o1 = o1
  o2 = o2
  o3 = o3
  o4 = o4
  NoMsg = NoMsg
  Modes = {"single", "group"}
  Kinds = {"send", "revoke", "delete", "clear", "wipe", "read"}
  Overlap = {"send", "clear", "wipe", "read"}
  Strangers = FALSE
  Tolerated = FALSE
SYMMETRY Symmetry
INVARIANTS NewestShown
CHECK_DEADLOCK FALSE
