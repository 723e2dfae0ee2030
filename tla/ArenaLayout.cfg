SPECIFICATION LSpec
CONSTANTS
  Threads = {o, t1, t2}
  Owner = o
  NoThread = NoThread
  Blocks = {0, 1, 2, 3, 4, 5, 6, 7, 8}
  NoBlock = NoBlock
  FastPath = FALSE
  Size = 9
  MinBlock = 1
  BlockSize = 1
  Overhead = 1
  Canary = 0
  Requests = {2, 3, 4}
INVARIANTS
  ReleaseSafe
  ArenaValid
  LiveSpansExact
PROPERTIES
  RetiredIsReleased
CHECK_DEADLOCK FALSE
