\* Blocks of kmalloc.
CONSTANTS
  Keys = 7
  Pool = 4
  PoolSize = 65536
  Requests = {16}
  MaxOps = 6
SPECIFICATION KmemSpec
INVARIANT HeadersIntact
CHECK_DEADLOCK FALSE
