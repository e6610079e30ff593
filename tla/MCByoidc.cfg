SPECIFICATION FairSpec
CONSTANTS
  Reqs = {q1, q2}
  Keys = {k1, k2}
  OtherKeys = {ec}
  k1 = k1 k2 = k2 ec = ec
  Providers <- mcProviders
  Users = {u1}
  Unknown = Unknown
  Attempts = 2
  MaxRotations = 1
  None = None
INVARIANTS UsersVouchedFor KeysComeWithEndpoints ExchangeEnsuresUser
PROPERTIES Responsive
