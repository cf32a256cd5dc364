-------------------------------- MODULE Kmem --------------------------------
(***************************************************************************)
(* kmalloc and kfree of TaskMM (modules/memory/kmem.c) in one pool, down   *)
(* to the words of memory: free blocks are nodes of the red-black tree,    *)
(* with their size as the key, or are listed behind the node of their      *)
(* size; a block in use starts with a header.  The code adds byte sizes to *)
(* pointers to 16-byte structures, so that everything lies 16 times as far *)
(* away as its size says.                                                  *)
(***************************************************************************)
EXTENDS RbTree

CONSTANTS
  Pool,      \* the address of the pool, in words
  PoolSize,  \* its size, in bytes
  Requests,  \* the sizes that clients ask for
  MaxOps     \* bound: calls; what the code does with damaged memory may never end

VARIABLES
  heap,  \* memory and the tree of the pool, as RbTree's records
  taken, \* what the clients have: <<address in words, size they asked for>>
  ops    \* the calls so far

kvars == <<heap, taken, ops>>

HeadSize == 12   \* kmem_block_head_size
Struct   == 4    \* words of a struct kmem_block, and of a rb_node
Behind   == 16 * Struct  \* p + sizeof(rb_node) for a pointer to a structure of 16 bytes

INUSE_BLOCK == 1   \* the cookies COOKIE_MEM_INUSE_BLOCK, ...
FREE_BLOCK  == 2
NEXT_BLOCK  == 3

\* struct kmem_block, by words
Cookie(h, b)   == Word(h, b)
Size(h, b)     == Word(h, b + 2)
Link(h, b)     == Word(h, b + 3)
SetCookie(h, b, c) == Put(h, b, c)
SetLink(h, b, x)   == Put(h, b + 3, x)
Header(h, b, c, size) == Put(Put(Put(Clear(h, b), b, c), b + 1, Pool), b + 2, size)

\* A free block becomes a node; if there is one with its size already, it goes into
\* the list behind that node.
LinkBehind(h, p, behind) ==
  IF Cookie(h, behind) = NEXT_BLOCK THEN SetLink(h, p, Link(h, behind))
  ELSE SetLink(SetCookie(h, behind, NEXT_BLOCK), p, 0)

ListOrNode(i, p, size) ==
  LET behind == Search(i.tree, i.tree.root, size) + Behind IN
  IF i.exists
  THEN SetLink(LinkBehind(Header(i.tree, p, FREE_BLOCK, size - HeadSize), p, behind), behind, p)
  ELSE i.tree

InsertToPool(h, p, size) == ListOrNode(Insert(Put(Clear(h, p), p, size), p), p, size)

\* The node leaves the tree; the first block of its list takes its place, with the
\* size that is left after memset.
Relist(h, mb, second) ==
  IF second = 0 THEN h ELSE SetLink(SetCookie(h, mb + Behind, NEXT_BLOCK), mb + Behind, second)

Promote(h, mb, second) ==
  Relist(Clear(Insert(Put(h, mb, Size(h, mb) + HeadSize), mb).tree, mb + Behind), mb, second)

FirstOfList(h, p) ==
  LET mb == Link(h, p + Behind) IN
  IF Cookie(h, p + Behind) # NEXT_BLOCK THEN h ELSE Promote(Clear(h, mb), mb, Link(h, mb))

RemoveFromPool(h, p) == FirstOfList(RemoveNode(h, p), p)

\* rb_search_upper: the node with the smallest key that is enough.
RECURSIVE SearchUpper(_, _, _, _)
SearchUpper(h, x, key, closest) ==
  IF x = 0 THEN closest
  ELSE IF Key(h, x) = key THEN x
  ELSE IF Key(h, x) > key
  THEN SearchUpper(h, Child(h, x, L), key,
                   IF closest = 0 \/ Key(h, closest) > Key(h, x) THEN x ELSE closest)
  ELSE SearchUpper(h, Child(h, x, R), key, closest)

Rounded(size) == 16 * ((size + HeadSize + 15) \div 16)

\* What is left of the node's block goes back to the pool.
Split(h, node, size) ==
  LET left == Key(h, node) - size IN
  IF left < 16 THEN Header(h, node, INUSE_BLOCK, Key(h, node))
  ELSE Header(InsertToPool(h, node + Struct * size, left), node, INUSE_BLOCK, size)

\* The result, NULL or the address behind the header, and the heap.
Kmalloc(h, request) ==
  LET node == SearchUpper(h, h.root, Rounded(request), 0) IN
  IF node = 0 THEN [heap |-> h, p |-> 0]
  ELSE [heap |-> Split(RemoveFromPool(h, node), node, Rounded(request)), p |-> node + 3]

\* Anything free right behind the block adds to its size, until nothing does.
RECURSIVE Kfree(_, _)
Kfree(h, p) ==
  LET b    == p - 3
      next == p + Size(h, b) \div 4
      more == IF 4 * next >= 4 * Pool + PoolSize THEN 0
              ELSE IF Cookie(h, next) = FREE_BLOCK THEN Size(h, next) + HeadSize
              ELSE IF Search(h, h.root, Key(h, next)) = next THEN Key(h, next) ELSE 0 IN
  IF Cookie(h, b) # INUSE_BLOCK THEN h
  ELSE IF more > 0 THEN Kfree(Put(h, b + 2, Size(h, b) + more), p)
  ELSE InsertToPool(h, b, Size(h, b) + HeadSize)

\* create_a_mem_pool: all of the pool behind its own structure is one free block.
KmemInit ==
  /\ heap = InsertToPool(Empty, Pool + Struct, PoolSize - 4 * Struct)
  /\ taken = {}
  /\ ops = 0

Alloc(request) ==
  LET a == Kmalloc(heap, request) IN
  /\ ~heap.wild /\ ops < MaxOps
  /\ heap' = a.heap
  /\ taken' = IF a.p = 0 THEN taken ELSE taken \cup {<<a.p, request>>}
  /\ ops' = ops + 1

Dealloc(t) ==
  /\ ~heap.wild /\ ops < MaxOps /\ t \in taken
  /\ heap' = Kfree(heap, t[1])
  /\ taken' = taken \ {t}
  /\ ops' = ops + 1

KmemNext ==
  \/ \E request \in Requests : Alloc(request)
  \/ \E t \in taken : Dealloc(t)

\* The tree that RbTree's own clients use is not touched.
KmemSpec == RbInit /\ KmemInit /\ [][KmemNext /\ UNCHANGED rbvars]_<<kvars, rbvars>>

-----------------------------------------------------------------------------
(* Properties *)

\* `Kmem block cookie not match', the panic of mem_kfree for what is not a block in
\* use: whoever has a block can give it back, whatever others did meanwhile.
HeadersIntact == \A t \in taken : Cookie(heap, t[1] - 3) = INUSE_BLOCK
=============================================================================
