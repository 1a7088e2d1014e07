SPECIFICATION Spec
CONSTANTS
  User = {u1, u2}
  Msg = {m1, m2}
  Op = {o1, o2, o3}
  u1 = u1
  u2 = u2
  m1 = m1
  m2 = m2
  o1 = o1
  o2 = o2
  o3 = o3
  NoMsg = NoMsg
  Modes = {"single", "group"}
  Kinds = {"send", "revoke", "delete", "clear", "wipe", "read", "remove", "open"}
  Overlap = {"send", "revoke", "delete", "clear", "wipe", "read", "remove", "open"}
  Strangers = TRUE
  Tolerated = TRUE
SYMMETRY Symmetry
INVARIANTS NoGaps UnreadIsBacked PushedIsVisible 
PROPERTIES KeepsTalk
CHECK_DEADLOCK FALSE
