SPECIFICATION mcSpec
CONSTANTS
  s1 = s1 s2 = s2 sec1 = sec1 c1 = c1 w1 = w1
  Services = {s1, s2}
  Secrets = {sec1}
  SecretOf <- mcSecretOf
  ConfigMaps = {c1}
  Webhooks = {w1}
  Populations <- mcPopulations
  MaxHooks = 2
  MaxUid = 2
  MaxCa = 3
  n1 = n1 n2 = n2 a1 = a1
  Namespaces = {n1, n2}
  SKIP_NAMESPACES = {n2}
  Hash <- mcHash
  OtherRange = 1000
  Addresses = {a1, a2}
  ApiMayFail = TRUE
  None = None
CHECK_DEADLOCK FALSE
INVARIANTS PodsGetTheirGroup
PROPERTIES CertifiedStays EventuallyCertified FirstWebhookTrusted EventuallyAnnotated
