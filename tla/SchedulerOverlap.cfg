SPECIFICATION Spec
CONSTANTS
  Worker = {w1, w2}
  Co = {c1}
  MaxOps = 1
  Pins = {w1, w2}
  Overlap = TRUE
INVARIANTS
  OneThread
CHECK_DEADLOCK FALSE
