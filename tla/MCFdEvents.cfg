SPECIFICATION Spec
CONSTANTS
  Worker = {w1, w2}
  w1 = w1
  w2 = w2
  Reader = {rd}
  Writer = {wr}
  Owner = owner
  Timed = {rd, owner}
  rd = rd
  wr = wr
  owner = owner
  Nobody = Nobody
SYMMETRY Symmetry
INVARIANTS WaiterIsKnown EdgeInFlight TimeoutIsArmed
 
CHECK_DEADLOCK FALSE
