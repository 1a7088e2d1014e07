SPECIFICATION FairSpec
CONSTANTS
  Worker = {w1, w2}
  w1 = w1
  w2 = w2
  Caller = {c1}
  c1 = c1
  Timer = {t1, t2}
  t1 = t1
  t2 = t2
  Recurring = {t2}
  Delay = {1, 2}
  Steps = {2}
  Hour = 1
  MAX_TIMEOUT = 3
  IntMax = 9
  MaxNow = 2
  MaxStall = 1
INVARIANTS TimerIsWatched OneFate
PROPERTIES NotEarly TimerFires
CHECK_DEADLOCK FALSE
