SPECIFICATION Spec
CONSTANTS
  Threads = {t1, t2}
  RegionSize = 10
  Requests = {2, 3, 5}
  SplitMin = 2
  Cacheable = {2, 3, 4}
  CacheMax = 2
INVARIANT Tiling
