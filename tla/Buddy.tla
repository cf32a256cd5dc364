------------------------------- MODULE Buddy -------------------------------
(***************************************************************************)
(* The buddy allocator of TaskMM (modules/memory/buddy.c, the tables that  *)
(* memory_init.c sets up): a list of free blocks per order, one bit per    *)
(* pair of buddies that tells whether exactly one of them is in use, and   *)
(* a type and a reference count per page.                                  *)
(*                                                                         *)
(* A page is its index from memory_start.  The client at the end of the    *)
(* module stands for whoever calls page_alloc and page_free, with blocks   *)
(* it got before.                                                          *)
(***************************************************************************)
EXTENDS Integers, FiniteSets, SequencesExt

CONSTANTS
  MaxOrder,  \* MAX_ORDER: the largest block has 2^(MaxOrder - 1) pages
  PgCount,   \* the pages between memory_start and memory_end
  Usable,    \* those below usable_end, where the allocator's tables start
  MaxHeld    \* bound: the client takes blocks only below this number

\* 1 << n
Pow2[n \in Nat] == IF n = 0 THEN 1 ELSE 2 * Pow2[n - 1]

Order   == 0..(MaxOrder - 1)
Largest == Pow2[MaxOrder - 1]
Page    == 0..(Usable - 1)
Nowhere == -1   \* NULL

ASSUME BuddyAssumption ==
  /\ MaxOrder \in Nat \ {0} /\ MaxHeld \in Nat
  /\ Usable \in Nat \ {0} /\ Usable % Largest = 0
  /\ PgCount \in Nat /\ PgCount >= Usable

PageType == {"none", "free", "user", "pgtbl", "pool"}

\* struct memory_info: the free lists, the bits that are set, type and reference of
\* the pages; damaged once a list was to lose a block that it has not.
TypeOfMem ==
  [list : [Order -> Seq(Page)], map : SUBSET Nat, type : [Page -> PageType],
   ref : [Page -> Int], damaged : BOOLEAN]

-----------------------------------------------------------------------------
(* The bits *)

\* Where buddy_map[o] starts, in bytes from buddy_map[0].
MapStart[o \in Nat] == IF o = 0 THEN 0 ELSE MapStart[o - 1] + (PgCount \div Pow2[o]) \div 8

\* One bit for a block and its buddy.
BitOfBlock(p, o) == 8 * MapStart[o] + p \div Pow2[o]  \* mutant: a bit of its own
BitOf(p, o)      == 8 * MapStart[o] + p \div Pow2[o + 1]

\* No two orders share a bit, as the comment of memory_init.c means it (`buddy bits =
\* (pg_count / (2^order)) / 2').  Its loop rounds each map down to whole bytes, so
\* that this holds only for some sizes of the memory.
OrdersApart ==
  \A o, k \in Order : \A p, q \in Page : BitOf(p, o) = BitOf(q, k) => o = k

XorBit(map, b) == IF b \in map THEN map \ {b} ELSE map \cup {b}

-----------------------------------------------------------------------------
(* Allocation: the result and what becomes of mem *)

Extent(p, o) == p..(p + Pow2[o] - 1)   \* the pages of a block

\* They get a type and one count of references.
SetInfo(m, p, o, type, ref) ==
  [m EXCEPT !.type = [q \in Page |-> IF q \in Extent(p, o) THEN type ELSE @[q]],
            !.ref  = [q \in Page |-> IF q \in Extent(p, o) THEN ref ELSE @[q]]]

TakeFirst(m, o, type) ==
  LET p == Head(m.list[o]) IN
  [page |-> p,
   mem  |-> SetInfo([m EXCEPT !.list[o] = Tail(@), !.map = XorBit(@, BitOf(p, o))], p, o, type, 1)]

\* The lower half of a block stays in the list, the upper half is the result.
UpperHalf(whole, o, type) ==
  LET upper == whole.page + Pow2[o] IN
  [page |-> upper,
   mem  |-> SetInfo([whole.mem EXCEPT !.list[o] = <<whole.page>> \o @, !.map = XorBit(@, BitOf(upper, o))],
                    upper, o, type, 1)]

\* allocate_pages_of_power_2; whole is what it gives for the next order.
AllocateFrom(m, o, whole, type) ==
  IF o >= MaxOrder THEN [mem |-> m, page |-> Nowhere]
  ELSE IF m.list[o] # <<>> THEN TakeFirst(m, o, type)
  ELSE IF whole.page = Nowhere THEN whole ELSE UpperHalf(whole, o, type)

Allocate(m, o, type) ==
  LET whole[k \in Nat] == AllocateFrom(m, k, whole[k + 1], "none")
  IN AllocateFrom(m, o, whole[o + 1], type)

\* A block merges with its buddy as long as neither half is in use, which the
\* bit of the pair says.
Buddy(p, o) == IF (p \div Pow2[o]) % 2 = 0 THEN p + Pow2[o] ELSE p - Pow2[o]

MergesLow(map, p, o) == BitOf(p, o) \notin map /\ o + 2 < MaxOrder  \* mutant
Merges(map, p, o)    == BitOf(p, o) \notin map /\ o + 1 < MaxOrder

Merge(m, p, o) ==
  LET b == Buddy(p, o) IN
  [mem  |-> [m EXCEPT !.map = XorBit(@, BitOf(p, o)), !.list[o] = RemoveFirst(@, b),
                      !.damaged = @ \/ ~Contains(m.list[o], b)],
   page |-> IF b < p THEN b ELSE p]

PutBack(m, p, o) ==
  SetInfo([m EXCEPT !.map = XorBit(@, BitOf(p, o)), !.list[o] = <<p>> \o @], p, o, "free", 0)

\* free_pages_of_power_2: merged[k] is the block, and mem, in the call for order k,
\* which is the last one that does not find the buddy free.
Free(m, p, o) ==
  LET merged[k \in 0..MaxOrder] ==
        IF k <= o THEN [mem |-> m, page |-> p]
        ELSE Merge(merged[k - 1].mem, merged[k - 1].page, k - 1)
      GoesOn(k) == Merges(XorBit(merged[k].mem.map, BitOf(merged[k].page, k)), merged[k].page, k)
      top == CHOOSE k \in o..MaxOrder : ~GoesOn(k) /\ \A j \in o..(k - 1) : GoesOn(j)
  IN PutBack(merged[top].mem, merged[top].page, top)

\* trailing_zero(round_up_power_2(n)) for n > 0.
OrderOf(n) == CHOOSE o \in 0..n : Pow2[o] >= n /\ \A j \in 0..(o - 1) : Pow2[j] < n

PageAlloc(m, n, type) == Allocate(m, OrderOf(n), type)
PageFree(m, p, n)     == Free(m, p, OrderOf(n))

\* init_memory: the largest blocks are free, the last one first in the list.
InitMemory ==
  [list    |-> [o \in Order |-> IF o = MaxOrder - 1
                                THEN [i \in 1..(Usable \div Largest) |-> Usable - i * Largest]
                                ELSE <<>>],
   map     |-> {},
   type    |-> [p \in Page |-> "free"],
   ref     |-> [p \in Page |-> 0],
   damaged |-> FALSE]

-----------------------------------------------------------------------------
(* A client *)

VARIABLES
  arena,  \* the memory
  held    \* the client's blocks, <<page, order>>

bvars == <<arena, held>>

BuddyInit == arena = InitMemory /\ held = {}

Take(n) ==
  LET a == PageAlloc(arena, n, "user") IN
  /\ ~arena.damaged
  /\ Cardinality(held) < MaxHeld
  /\ arena' = a.mem
  /\ held' = IF a.page = Nowhere THEN held ELSE held \cup {<<a.page, OrderOf(n)>>}

Give(b) ==
  /\ ~arena.damaged
  /\ b \in held
  /\ arena' = PageFree(arena, b[1], Pow2[b[2]])
  /\ held' = held \ {b}

BuddyNext ==
  \/ \E n \in 1..(Largest + 1) : Take(n)
  \/ \E b \in Page \X Order : Give(b)

BuddySpec == BuddyInit /\ [][BuddyNext]_<<arena, held>>

-----------------------------------------------------------------------------
(* Properties *)

FreeBlocks(m) == UNION {ToSet(m.list[o]) \X {o} : o \in Order}

\* remove_from_free_list panics on a block that is not in its list (buddy.c:16):
\* what page_free merges a block with is a free block of the same order.  It fails
\* where the bits of two orders overlap.
ListsIntact == ~arena.damaged

\* Splitting and merging are inverse: two free buddies are always merged, so that
\* memory which is given back is one large block again whatever the order.
Coalesced ==
  \A b \in FreeBlocks(arena) : b[2] + 1 < MaxOrder =>
    <<Buddy(b[1], b[2]), b[2]>> \notin FreeBlocks(arena)

\* On a memory where the bits of the orders are apart, page_alloc never hands out a
\* page twice and page_free loses none: every page is in exactly one block, a free
\* one or one of the client's, and the free ones are as large as they can be.
BlocksPartition ==
  /\ ListsIntact
  /\ \A p \in Page : Cardinality({b \in FreeBlocks(arena) \cup held : p \in Extent(b[1], b[2])}) = 1
  /\ Coalesced
=============================================================================
