SPECIFICATION Spec
CONSTANTS
  Pages = {p1, p2, p3, p4}
  NULL = NULL
  TotalSlots = 3
  IdleReclaim = FALSE
  MinIdlePages = 2
  MaxHot = 1
  RetainedSlots = 1
SYMMETRY PageSymmetry
INVARIANTS
  ListsAgree
  SweepsThorough
  PageReports
  PurgeHarmlessBeforeReset
PROPERTIES
  ImplementsStock
