SPECIFICATION FairSpec
CONSTANTS
  Req = {r1}
  Post = {}
  MaxDials = 1
INVARIANTS
  OneSession
PROPERTIES
  KeepsPromise
  RequestReturns
  SessionEnds
CHECK_DEADLOCK FALSE
