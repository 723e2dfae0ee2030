SPECIFICATION Spec
CONSTANTS
  NumPools = 4
  Threads = {t1, t2}
  None = None
  NumArenas = 2
  MaxBound = 3
  MaxCalls = 4
  MaxArenaCalls = 7
INVARIANTS
  BindingsCurrent
  NoPoolLost
  WalksVisitTheTree
  FrameStartsClean
PROPERTY
  EveryCallReturns
CHECK_DEADLOCK FALSE
