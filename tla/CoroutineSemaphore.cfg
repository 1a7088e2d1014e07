SPECIFICATION SemFairSpec
CONSTANTS
  Fiber = {f1, f2, f3, f4}
  Initial = 1
  MaxPermits = 2
INVARIANTS
  SleeperIsKnown
PROPERTIES
  NoStarvation
  ImplementsSemaphore
CHECK_DEADLOCK FALSE
