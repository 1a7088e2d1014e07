SPECIFICATION FairSpec
CONSTANTS
  Worker = {w1, w2}
  w1 = w1
  w2 = w2
  Co = {c1, c2}
  c1 = c1
  c2 = c2
  MaxOps = 1
  Pins = {w1}
  Overlap = FALSE

  
  
PROPERTIES
  TaskRuns
  
CHECK_DEADLOCK FALSE
