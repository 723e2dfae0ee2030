SPECIFICATION MCSpec
CONSTANTS
  TokenNibble = 1
  MinMatch = 4
  Probe = 9
  MaxEntries = 2
  SlotSize = 4
  MinSize = 8
  DefaultBudget = 20
  Budgets = {0, 10, 20, 36}
  Payloads <- MCPayloads
  Wrap = 4
  MaxBlocks = 5
  MaxInput = 13
  Producer = p
  Consumer = c
  Capacity = 3
  Usages = {"alone", "pair"}
  MaxCalls = 12
INVARIANTS
  CodecRoundTrip
  StoreSound
  HandlesSound
  RingSound
PROPERTIES
  EvictionInOrder
CHECK_DEADLOCK FALSE
