SPECIFICATION FairSpec
CONSTANTS
  Threads = {t1, t2}
  Pages = {p1, p2}
  SlotIdx = {1, 2}
  NoThread = NoThread
  MaxSlots = 1
  RefillBatch = 2
INVARIANTS
  EachSlotOnce
  AllocatedIsExact
  ClassFlagCoversQueue
PROPERTIES
  ImplementsStock
  LockReleased
