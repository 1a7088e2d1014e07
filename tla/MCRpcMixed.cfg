SPECIFICATION Spec
CONSTANTS
  Req = {r1}
  Post = {p1}
  MaxDials = 0
INVARIANTS
  WokenOnce
  NeverForgotten
  NoStrandedSend
  DropIsReported
CHECK_DEADLOCK FALSE
