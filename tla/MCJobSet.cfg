SPECIFICATION FairSpec
CONSTANTS
  MaxReplicas = 2
  MaxUid = 2
  MaxPods = 1
  ApiMayFail = TRUE
  None = None
INVARIANTS CompletedMeansSucceeded
PROPERTIES EventuallyTerminal
