SPECIFICATION Spec
CONSTANTS
  Threads = {t1, t2}
  Slots = {s1, s2}
  OsBlocks = {o1}
  Reserve = r
  NULL = NULL
  HeaderSize = 1
  CanaryLen = 0
  Alignment = 1
  SlabMax = 4
  TlsfMax = 5
  Chunk = 2
  Wrap = 64
  Sizes = {1, 6}
  Usable = 4
  Limit = 7
  ReserveSize = 4
  High = 6
  Low = 1
  Percpu = TRUE
  BatchCount = 2
  MaxSnapshotRecords = 2
  MaxCalls = 5
INVARIANTS
  BatchMatchesSingles
  ListIsLive
  AuditsAgree
  LimitHolds
  DerivedFromActive
SYMMETRY Symmetry
