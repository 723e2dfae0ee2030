SPECIFICATION Spec
CONSTANTS
  Threads = {t1, t2}
  Poppers = {t1, t2}
  Flushers = {t1, t2}
  Slots = {s1, s2, s3, s4}
  NULL = NULL
  Header = Header
  MaxBatch = 2
  Wrap = 16
SYMMETRY Symmetry
INVARIANTS
  OnlyStaleLinksBreakIt
