SPECIFICATION bothSpec
CONSTANTS
  Services = {s1, s2}
  PoolSize = 3
  PatchMayFail = TRUE
  MaxEvents = 2
  MaxAllocs = 5
  MaxPieces = 2
  BufSize = 1
  Room = 1
  None = None
INVARIANTS UniqueWithinPool TunnelFaithful
PROPERTIES EventuallyAssigned NothingHangs
