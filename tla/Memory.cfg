\* TaskMM's pages, its page allocator and the tree of kmalloc.
CONSTANTS
  Parts = {"pages", "buddy", "rbtree"}
  MaxOrder = 4
  PgCount = 70
  Usable = 64
  MaxHeld = 3
  Pid = {1, 2, 3}
  Pte = 2
  KernBase = 8
  StackPages = 2
  Units = 2
  Segments <- MCSegments
  Increments <- MCIncrements
  MessagePages <- MCMessagePages
  AnyHeap = FALSE
  Val = {0, 1}
  Written = {1, 2, 6}
  MaxCalls = 4
  Keys = 7
SPECIFICATION MCSpec
INVARIANTS CountsRight ReachableInUse WritableIsPrivate
  BlocksPartition RedBlackTree
PROPERTY ImplementsPrivateMemory
CHECK_DEADLOCK FALSE
