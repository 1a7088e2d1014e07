SPECIFICATION FairSpec
CONSTANTS
  Gateway = {g1, g2}
  Conn = {c1, c2}
  Push = {p1}
  p1 = p1
  g1 = g1
  g2 = g2
  c1 = c1
  c2 = c2
  Service = Service
  NoGateway = NoGateway
  Failures = TRUE
  MaxLate = 1
INVARIANTS GatewayGets 
PROPERTIES RouteHeals RouteForgotten
CHECK_DEADLOCK FALSE
