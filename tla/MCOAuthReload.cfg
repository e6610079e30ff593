SPECIFICATION Spec
CONSTANTS
  alice = alice pw = pw console = console uri = uri
  Reqs = {r1, r2}
  CodeIds = {c1, c2}
  TokenIds = {}
  Users <- mcUsers
  Passwords <- mcPasswords
  Clients = {console}
  Secrets = {NoSecret}
  NoSecret = NoSecret
  URIs = {uri}
  ClientObjects <- mcClientObjects
  PrefixOf <- mcPrefixOf
  Challenges = {}
  Verifiers = {}
  Matching = {}
  Stores <- mcStores
  BootStore <- mcBootStore
  Mode = "byoidc"
  CODE_TTL = 1
  TOKEN_TTL = 1
  SWEEP_PERIOD = 1
  MaxEvents = 2
  MaxUid = 2
  NoKey = NoKey
  None = None
INVARIANTS IdentityUidIsReal GuardedLoginIsCurrent StoreFollowsSecret
SYMMETRY mcSymmetry
