\* sbrk of processes that share page tables.
CONSTANTS
  Parts = {"pages"}
  MaxOrder = 4
  PgCount = 70
  Usable = 64
  MaxHeld = 3
  Pid = {1, 2, 3}
  Pte = 2
  KernBase = 8
  StackPages = 2
  Units = 2
  Segments <- MCSegments
  Increments <- MCIncrements
  MessagePages <- MCMessagePages
  AnyHeap = TRUE
  Val = {0, 1}
  Written = {1, 2, 6}
  MaxCalls = 5
  Keys = 7
SPECIFICATION MCSpec
PROPERTY ImplementsPrivateMemory
CHECK_DEADLOCK FALSE
