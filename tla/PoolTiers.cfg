SPECIFICATION Spec
CONSTANTS
  Threads = {t1, t2}
  NoThread = NoThread
  MaxRegions = 3
  InitCap = 1
  GrowCap = 1
  ExpandCap = 2
  RegionHdr = 1
  CacheMax = 1
  OsSizes = {1, 2, 3}
  Header = 1
  Page = 2
  MaxOs = 2
  MaxCalls = 5
INVARIANTS
  TierAccounts
PROPERTIES
  RefusedForAReason
  EveryCallReturns
CHECK_DEADLOCK FALSE
