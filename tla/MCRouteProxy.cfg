SPECIFICATION FairSpec
CONSTANTS
  ha = ha b1 = b1 r1 = r1 x1 = x1 g1 = g1
  Routes = {r1}
  HttpRoutes = {x1}
  Gateways = {g1}
  Hosts = {ha, hb}
  GeneratedHost <- mcGeneratedHost
  OAuthHosts = {}
  OAuthServer = OAuthServer
  Backends = {b1, b2}
  ParentRefs <- mcParentRefs
  Listeners <- mcListeners
  ServiceOf <- mcServiceOf
  Populations <- mcApart
  ApiMayFail = TRUE
  MaxEvents = 1
  None = None
INVARIANTS RoutesToBackend
PROPERTIES EventuallyServed GatewayHostsServed
