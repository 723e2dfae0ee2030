SPECIFICATION Spec
CONSTANTS
  Pages = {p1, p2, p3, p4}
  NULL = NULL
  TotalSlots = 3
  IdleReclaim = TRUE
  MinIdlePages = 2
  MaxHot = 1
  RetainedSlots = 1
SYMMETRY PageSymmetry
PROPERTY OnlyUnusedPagesReleased
