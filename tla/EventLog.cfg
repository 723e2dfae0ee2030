SPECIFICATION LSpec
CONSTANTS
  Producer = p
  Consumer = c
  Capacity = 3
  Usages = {"log"}
  MaxCalls = 6
  Events = {e1, e2}
  Blank = Blank
  Word = 16
  MaxLogCalls = 6
INVARIANTS
  ConsumePopsARecord
CHECK_DEADLOCK FALSE
