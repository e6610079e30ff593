SPECIFICATION FairSpec
CONSTANTS
  alice = alice pw = pw console = console uri = uri
  Reqs = {r1, r2}
  CodeIds = {c1, c2}
  TokenIds = {}
  Users <- mcUsers
  Passwords <- mcPasswords
  Clients = {console}
  Secrets = {NoSecret}
  NoSecret = NoSecret
  URIs = {uri}
  ClientObjects <- mcClientObjects
  PrefixOf <- mcPrefixOf
  Challenges = {}
  Verifiers = {}
  Matching = {}
  Stores <- mcStores
  BootStore <- mcBootStore
  Mode = "legacy"
  CODE_TTL = 1
  TOKEN_TTL = 1
  SWEEP_PERIOD = 1
  MaxEvents = 1
  MaxUid = 1
  NoKey = NoKey
  None = None
PROPERTIES ReloadNotStarved RequestsAnswered
