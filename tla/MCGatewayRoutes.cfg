SPECIFICATION Spec
CONSTANTS
  c1 = c1 g1 = g1 g2 = g2 x1 = x1 x2 = x2 b1 = b1 b2 = b2
  Classes = {}
  Gateways = {g1}
  MainGateway = g1
  HttpRouteList <- mcTwoRoutes
  DestRules = {d1}
  Hosts = {}
  Backends = {b1, b2}
  Port <- mcPort
  RuleLists <- mcRules
  Populations <- mcTogether
  ApiMayFail = FALSE
  MayDelete = FALSE
  MaxWrites = 3
  None = None
INVARIANTS RoutesResolve
