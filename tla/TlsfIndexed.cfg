SPECIFICATION IndexedSpec
CONSTANTS
  Threads = {t1}
  RegionSize = 11
  Requests = {2, 3, 5, 7}
  SplitMin = 2
  Cacheable = {2, 3, 4}
  CacheMax = 2
  SlShift = 1
  FlMax = 4
INVARIANTS
  Tiling
  SearchIsGoodFit
  CoalescedUntilCacheReturns
PROPERTIES
  BlockKeepsItsSpace
