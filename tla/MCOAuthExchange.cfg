SPECIFICATION Spec
CONSTANTS
  alice = alice pw = pw console = console cli = cli uri = uri ch = ch
  v1 = v1 v2 = v2 hush = hush
  Reqs = {r1, r2}
  CodeIds = {c1, c2}
  TokenIds = {t1, t2}
  Users <- mcUsers
  Passwords <- mcPasswords
  Clients = {console, cli}
  Secrets <- mcSecrets
  NoSecret = NoSecret
  URIs = {uri}
  ClientObjects <- mcClientObjects
  PrefixOf <- mcPrefixOf
  Challenges = {ch}
  Verifiers = {v1, v2}
  Matching <- mcMatching
  Stores <- mcStores
  BootStore <- mcBootStore
  Mode = "oidc"
  CODE_TTL = 1
  TOKEN_TTL = 1
  SWEEP_PERIOD = 1
  MaxEvents = 0
  MaxUid = 1
  NoKey = NoKey
  None = None
INVARIANTS TypeOK SingleUse CodeInOnePlace BoundedRetention
PROPERTIES ImplementsLifecycle
SYMMETRY mcSymmetry
