SPECIFICATION FairSpec
CONSTANTS
  c1 = c1 g1 = g1 g2 = g2 x1 = x1 x2 = x2 b1 = b1 b2 = b2
  Classes = {c1}
  Gateways = {g1, g2}
  MainGateway = g1
  HttpRouteList <- mcOneRoute
  DestRules = {}
  Hosts = {}
  Backends = {b1, b2}
  Port <- mcPort
  RuleLists <- mcOneRule
  Populations <- mcApart
  ApiMayFail = TRUE
  MayDelete = TRUE
  MaxWrites = 3
  None = None
INVARIANTS AcceptedMeansServed
PROPERTIES EventuallyAccepted EventuallyRouted
