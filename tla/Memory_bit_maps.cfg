\* The page allocator on a memory whose size leaves no room for the bits of order 2.
CONSTANTS
  Parts = {"buddy"}
  MaxOrder = 4
  PgCount = 40
  Usable = 32
  MaxHeld = 3
  Pid = {1, 2, 3}
  Pte = 2
  KernBase = 8
  StackPages = 2
  Units = 2
  Segments <- MCSegments
  Increments <- MCIncrements
  MessagePages <- MCMessagePages
  AnyHeap = FALSE
  Val = {0, 1}
  Written = {1, 2, 6}
  MaxCalls = 4
  Keys = 7
SPECIFICATION MCSpec
CHECK_DEADLOCK FALSE
INVARIANT ListsIntact
