---------------------------- MODULE Pages_proofs ----------------------------
(***************************************************************************)
(* The address spaces, for any number of processes, any address space and  *)
(* any program: reference counts, page tables and copy on write stay right *)
(* through every order of forks, faults, exits and calls of sbrk, and no   *)
(* process can tell the pages it shares from memory of its own.  Proved:   *)
(*                                                                         *)
(*   PagesInvariant        the invariant PInv, that the rest follows from; *)
(*   CountsStayRight, ReachableStaysInUse, WritableStaysPrivate;           *)
(*   MemoriesArePrivate    the refinement of PrivateMemory.                *)
(*                                                                         *)
(* They are about heaps that nobody shares (AnyHeap = FALSE), an init      *)
(* whose program does not end on the edge of a page, and a memory of a     *)
(* size for which no two orders of blocks share a bit of buddy_map         *)
(* (OrdersApart).  memory_init.c does not ensure the last: see Buddy.      *)
(*                                                                         *)
(* The state of all address spaces is a record s, and Core(s) the          *)
(* invariant.  First a lemma for each kind of step (a page made writable,  *)
(* a page and its table copied, everything shared, a process gone, a heap  *)
(* moved) says that Core holds afterwards; then it is shown that the       *)
(* operators of the model are such steps, and last that the actions are.   *)
(***************************************************************************)
EXTENDS Pages, Buddy_proofs, FiniteSetTheorems

(* One page of the allocator *)

InUse(m) == {q \in Page : m.type[q] \in {"user", "pgtbl", "pool"}}
Rest(m)  == {q \in Page : m.type[q] \in {"none", "free"}}
MemOK(m) == Sound(m, InUse(m))

\* page_alloc has given the page a.page.
Got(m, a, type) ==
  /\ a.page \in Page \ InUse(m) /\ MemOK(a.mem) /\ InUse(a.mem) = InUse(m) \cup {a.page}
  /\ a.mem.type[a.page] = type /\ a.mem.ref[a.page] = 1
  /\ \A q \in InUse(m) : a.mem.type[q] = m.type[q] /\ a.mem.ref[q] = m.ref[q]

\* The page q has been given back.
Lost(m, n, q) ==
  /\ MemOK(n) /\ InUse(n) = InUse(m) \ {q}
  /\ \A x \in InUse(n) : n.type[x] = m.type[x] /\ n.ref[x] = m.ref[x]

\* A request for one page is one of order 0, whose blocks are the pages.
LEMMA OnePage ==
  /\ OrderOf(1) = 0 /\ 0 \in Order
  /\ \A p \in Page : Block(p, 0) /\ Extent(p, 0) = {p}
<1>1. 0 \in Nat /\ Pow2[0] = 1
  BY Pow2Unfolds
<1>2. OrderOf(1) = 0
  BY <1>1, OrderOfPower
<1>3. 0 \in Order
  BY BuddyAssumption DEF Order
<1>4. ASSUME NEW p \in Page PROVE Block(p, 0) /\ Extent(p, 0) = {p}
  <2>1. p \in Nat /\ p % 1 = 0
    BY BuddyAssumption DEF Page
  <2>2. QED
    BY <1>1, <1>3, <2>1 DEF Block, Extent
<1>5. QED
  BY <1>2, <1>3, <1>4

\* The pages not in use, by their types.
LEMMA RestIsNotInUse ==
  ASSUME NEW m, MemOK(m)
  PROVE  /\ Rest(m) = Page \ InUse(m) /\ InUse(m) \subseteq Page /\ Rest(m) \subseteq Page
         /\ IsFiniteSet(Page) /\ IsFiniteSet(Rest(m)) /\ Cardinality(Rest(m)) \in Nat
         /\ m \in TypeOfMem /\ m.type \in [Page -> PageType] /\ m.ref \in [Page -> Int]
<1>1. m \in TypeOfMem
  BY DEF MemOK, Sound
<1>2. m.type \in [Page -> PageType] /\ m.ref \in [Page -> Int]
  BY <1>1 DEF TypeOfMem
<1>3. Rest(m) = Page \ InUse(m)
  BY <1>2 DEF Rest, InUse, PageType
<1>4. IsFiniteSet(Page)
  BY FS_Interval, BuddyAssumption DEF Page
<1>5. Rest(m) \subseteq Page /\ InUse(m) \subseteq Page
  BY DEF Rest, InUse
<1>6. IsFiniteSet(Rest(m)) /\ Cardinality(Rest(m)) \in Nat
  BY <1>4, <1>5, FS_Subset, FS_CardinalityType
<1>7. QED
  BY <1>1, <1>2, <1>3, <1>4, <1>5, <1>6

\* page_alloc of one page gives one as long as there is one.
LEMMA PageGiven ==
  ASSUME BitsFit, NEW m, MemOK(m), Rest(m) # {}, NEW type \in {"user", "pgtbl", "pool"}
  PROVE  Got(m, PageAlloc(m, 1, type), type)
<1> DEFINE U == InUse(m)
           a == PageAlloc(m, 1, type)
<1>1. a = Allocate(m, 0, type) /\ 0 \in Nat /\ type \in PageType
  BY OnePage DEF PageAlloc, PageType
<1> HIDE DEF a
<1>2. Sound(m, U) /\ Rest(m) = Page \ U
  BY RestIsNotInUse DEF MemOK
<1>3. ~NoneFrom(m, 0)
  <2> SUFFICES ASSUME NoneFrom(m, 0) PROVE FALSE
    OBVIOUS
  <2>1. PICK q \in Page \ U : TRUE
    BY <1>2
  <2>2. PICK o \in Order : \E p \in Avail(m.list, o) : q \in Extent(p, o)
    BY <1>2, <2>1 DEF Sound, Arena, Covered
  <2>3. o >= 0
    BY BuddyAssumption DEF Order
  <2>4. m.list[o] = <<>>
    BY <2>3 DEF NoneFrom
  <2>5. Avail(m.list, o) = {}
    BY <2>4 DEF Avail, ToSet
  <2>6. QED
    BY <2>2, <2>5
<1>4. Allocated(m, U, type, 0, a)
  <2>1. \/ a.page = Nowhere /\ a.mem = m /\ NoneFrom(m, 0)
        \/ 0 \in Order /\ Allocated(m, U, type, 0, a)
    <3> HIDE DEF U
    <3> QED
      BY <1>1, <1>2, AllocateGives
  <2>2. QED
    BY <1>3, <2>1
<1>5. a.page \in Page /\ Extent(a.page, 0) = {a.page}
  BY <1>4, OnePage DEF Allocated, Block
<1>6. /\ a.page \notin U /\ Sound(a.mem, U \cup {a.page})
      /\ a.mem.type[a.page] = type /\ a.mem.ref[a.page] = 1
      /\ \A q \in U : a.mem.type[q] = m.type[q] /\ a.mem.ref[q] = m.ref[q]
      /\ \A q \in Page : (q \notin U /\ q # a.page) => a.mem.type[q] \in {m.type[q], "none"}
  <2> HIDE DEF U
  <2> QED
    BY <1>4, <1>5 DEF Allocated
<1>7. InUse(a.mem) = U \cup {a.page}
  <2> SUFFICES ASSUME NEW q \in Page PROVE a.mem.type[q] \in {"user", "pgtbl", "pool"} <=> q \in U \/ q = a.page
    BY <1>5 DEF InUse
  <2>1. q \in U <=> m.type[q] \in {"user", "pgtbl", "pool"}
    BY DEF InUse
  <2> HIDE DEF U
  <2>2. CASE q = a.page
    BY <1>6, <2>2
  <2>3. CASE q \in U
    BY <1>6, <2>1, <2>3
  <2>4. CASE q \notin U /\ q # a.page
    BY <1>6, <2>1, <2>4
  <2>5. QED
    BY <2>2, <2>3, <2>4
<1>8. QED
  BY <1>5, <1>6, <1>7 DEF Got, MemOK, a

\* There is one page less.
LEMMA RoomLess ==
  ASSUME NEW m, MemOK(m), NEW a, NEW type, Got(m, a, type), NEW n \in Nat, Cardinality(Rest(m)) >= n + 1
  PROVE  Cardinality(Rest(a.mem)) >= n
<1>1. Rest(a.mem) = Rest(m) \ {a.page}
  BY RestIsNotInUse DEF Got
<1> DEFINE R == Rest(m)
<1>2. IsFiniteSet(R) /\ Cardinality(R) \in Nat /\ Cardinality(R) >= n + 1 /\ Rest(a.mem) = R \ {a.page}
  BY <1>1, RestIsNotInUse
<1> HIDE DEF R
<1>3. Cardinality(R \ {a.page}) \in {Cardinality(R), Cardinality(R) - 1}
  BY <1>2, FS_RemoveElement
<1>4. QED
  BY <1>2, <1>3

\* Counting references changes nothing else.
LEMMA NewRefs ==
  ASSUME NEW m, MemOK(m), NEW f \in [Page -> Int], NEW n, n = [m EXCEPT !.ref = f]
  PROVE  MemOK(n) /\ InUse(n) = InUse(m) /\ Rest(n) = Rest(m) /\ n.type = m.type /\ n.ref = f
<1>1. m \in Loose /\ m.list \in [Order -> Seq(Page)] /\ m.map \in SUBSET Nat
  <2>1. m \in TypeOfMem
    BY RestIsNotInUse
  <2>2. QED
    BY <2>1, SoundIsLoose DEF TypeOfMem
<1>2. /\ n \in Loose /\ n.list = m.list /\ n.map = m.map
      /\ n.type = m.type /\ n.ref = f /\ n.damaged = m.damaged
  BY <1>1 DEF Loose
<1>3. n \in TypeOfMem
  BY <1>1, <1>2, LooseIsTyped
<1>4. InUse(n) = InUse(m) /\ Rest(n) = Rest(m)
  BY <1>2 DEF InUse, Rest
<1>5. QED
  BY <1>2, <1>3, <1>4 DEF MemOK, Sound

\* decrease_page_ref.
Dropped(m, n, q) ==
  /\ MemOK(n) /\ InUse(n) = InUse(m) /\ Rest(n) = Rest(m) /\ n.type = m.type
  /\ n.ref[q] = m.ref[q] - 1 /\ \A x \in Page \ {q} : n.ref[x] = m.ref[x]

\* decrease_page_ref.
LEMMA DropIs ==
  ASSUME NEW m, MemOK(m), NEW q \in Page
  PROVE  Dropped(m, Unref(m, q), q)
<1> DEFINE f == [m.ref EXCEPT ![q] = @ - 1]
           n == [m EXCEPT !.ref[q] = @ - 1]
<1>1. m.ref \in [Page -> Int]
  BY RestIsNotInUse
<1>2. f \in [Page -> Int] /\ f[q] = m.ref[q] - 1 /\ \A x \in Page \ {q} : f[x] = m.ref[x]
  BY <1>1
<1>3. n = [m EXCEPT !.ref = f]
  OBVIOUS
<1> HIDE DEF f, n
<1>4. MemOK(n) /\ InUse(n) = InUse(m) /\ Rest(n) = Rest(m) /\ n.type = m.type /\ n.ref = f
  BY ONLY MemOK(m), <1>2, <1>3, NewRefs
<1>5. Dropped(m, n, q)
  BY <1>2, <1>4 DEF Dropped
<1>6. QED
  BY <1>5 DEF n, Unref

\* increase_page_ref of everything that f gives.
LEMMA Retained ==
  ASSUME NEW m, MemOK(m), NEW f, IsFiniteSet(DOMAIN f)
  PROVE  /\ MemOK(Retain(m, f)) /\ InUse(Retain(m, f)) = InUse(m) /\ Rest(Retain(m, f)) = Rest(m)
         /\ Retain(m, f).type = m.type
         /\ \A q \in Page : /\ Times(f, q) \in Nat
                            /\ Retain(m, f).ref[q] = m.ref[q] + Times(f, q)
<1> DEFINE n == Retain(m, f)
           g == [q \in Page |-> m.ref[q] + Times(f, q)]
<1>1. m.ref \in [Page -> Int] /\ m \in TypeOfMem
  BY RestIsNotInUse
<1>2. ASSUME NEW q \in Page PROVE Times(f, q) \in Nat
  <2>1. {x \in DOMAIN f : f[x] = q} \subseteq DOMAIN f
    OBVIOUS
  <2>2. QED
    BY <2>1, FS_Subset, FS_CardinalityType DEF Times
<1>3. g \in [Page -> Int] /\ \A q \in Page : g[q] = m.ref[q] + Times(f, q)
  BY <1>1, <1>2
<1>4. n = [m EXCEPT !.ref = g]
  BY DEF Retain
<1> HIDE DEF g, n
<1>5. MemOK(n) /\ InUse(n) = InUse(m) /\ Rest(n) = Rest(m) /\ n.type = m.type /\ n.ref = g
  BY <1>3, <1>4, NewRefs
<1>6. QED
  BY <1>2, <1>3, <1>5 DEF n

\* page_free of one page.
LEMMA PageFreed ==
  ASSUME BitsFit, NEW m, MemOK(m), NEW q \in InUse(m)
  PROVE  Lost(m, PageFree(m, q, 1), q)
<1> DEFINE U == InUse(m)
           n == PageFree(m, q, 1)
<1>1. n = Free(m, q, 0)
  BY OnePage DEF PageFree
<1> HIDE DEF n
<1>2. q \in Page /\ 0 \in Order /\ Block(q, 0) /\ Extent(q, 0) = {q} /\ Sound(m, U)
  BY OnePage, RestIsNotInUse DEF MemOK
<1>3. Freed(m, U, q, 0, n)
  <2>1. Extent(q, 0) \subseteq U
    BY <1>2
  <2> HIDE DEF U
  <2>2. QED
    BY <1>1, <1>2, <2>1, FreeGivesBack
<1>4. /\ Sound(n, U \ {q}) /\ n.type[q] = "free"
      /\ \A x \in U \ {q} : n.type[x] = m.type[x] /\ n.ref[x] = m.ref[x]
      /\ \A x \in Page \ U : n.type[x] \in {m.type[x], "free"}
  <2> HIDE DEF U
  <2> QED
    BY <1>2, <1>3 DEF Freed
<1>5. InUse(n) = U \ {q}
  BY <1>4 DEF InUse
<1>6. QED
  BY <1>4, <1>5 DEF Lost, MemOK, n

\* Of each page q in use, c[q] references are gone, and the page with the last one.
Lowered(m, n, c) ==
  /\ MemOK(n) /\ InUse(n) \subseteq InUse(m)
  /\ \A q \in InUse(m) :
       IF c[q] = 0 \/ c[q] < m.ref[q]
       THEN q \in InUse(n) /\ n.type[q] = m.type[q] /\ n.ref[q] = m.ref[q] - c[q]
       ELSE q \notin InUse(n)

\* One reference less.
LEMMA OneReleased ==
  ASSUME BitsFit, NEW m, MemOK(m), NEW q \in InUse(m), m.ref[q] >= 1
  PROVE  Lowered(m, Release(m, q), [x \in Page |-> IF x = q THEN 1 ELSE 0])
<1> DEFINE l == Unref(m, q)
           n == Release(m, q)
           c == [x \in Page |-> IF x = q THEN 1 ELSE 0]
<1>1. q \in Page /\ m.ref \in [Page -> Int] /\ InUse(m) \subseteq Page
  BY RestIsNotInUse
<1>2. n = IF l.ref[q] = 0 THEN PageFree(l, q, 1) ELSE l
  BY DEF Release
<1>3. Dropped(m, l, q)
  BY <1>1, DropIs
<1> HIDE DEF l, n
<1>4. /\ MemOK(l) /\ InUse(l) = InUse(m) /\ l.type = m.type
      /\ l.ref[q] = m.ref[q] - 1 /\ \A x \in Page \ {q} : l.ref[x] = m.ref[x]
  BY <1>3 DEF Dropped
<1>5. CASE l.ref[q] = 0
  <2>1. Lost(l, n, q)
    BY <1>2, <1>4, <1>5, PageFreed
  <2>2. QED
    BY <1>1, <1>4, <1>5, <2>1 DEF Lowered, Lost, n
<1>6. CASE l.ref[q] # 0
  BY <1>1, <1>2, <1>4, <1>6 DEF Lowered, n
<1>7. QED
  BY <1>5, <1>6

\* Twice some references less.
LEMMA LoweredTwice ==
  ASSUME NEW m, MemOK(m), NEW l, NEW n, NEW c \in [Page -> Nat], NEW d \in [Page -> Nat],
         Lowered(m, l, c), Lowered(l, n, d),
         \A q \in Page : c[q] + d[q] = 0 \/ (q \in InUse(m) /\ c[q] + d[q] <= m.ref[q])
  PROVE  Lowered(m, n, [q \in Page |-> c[q] + d[q]])
<1> DEFINE e == [q \in Page |-> c[q] + d[q]]
<1>1. m.ref \in [Page -> Int] /\ InUse(m) \subseteq Page /\ l.ref \in [Page -> Int]
  BY RestIsNotInUse DEF Lowered
<1>2. MemOK(n) /\ InUse(n) \subseteq InUse(m)
  BY DEF Lowered
<1>3. ASSUME NEW q \in InUse(m)
      PROVE  IF e[q] = 0 \/ e[q] < m.ref[q]
             THEN q \in InUse(n) /\ n.type[q] = m.type[q] /\ n.ref[q] = m.ref[q] - e[q]
             ELSE q \notin InUse(n)
  <2>1. /\ q \in Page /\ c[q] \in Nat /\ d[q] \in Nat /\ e[q] = c[q] + d[q]
        /\ m.ref[q] \in Int /\ (c[q] + d[q] = 0 \/ c[q] + d[q] <= m.ref[q])
    BY <1>1
  <2>2. IF c[q] = 0 \/ c[q] < m.ref[q]
        THEN q \in InUse(l) /\ l.type[q] = m.type[q] /\ l.ref[q] = m.ref[q] - c[q]
        ELSE q \notin InUse(l)
    BY DEF Lowered
  <2>3. q \in InUse(l) =>
        IF d[q] = 0 \/ d[q] < l.ref[q]
        THEN q \in InUse(n) /\ n.type[q] = l.type[q] /\ n.ref[q] = l.ref[q] - d[q]
        ELSE q \notin InUse(n)
    BY DEF Lowered
  <2>4. InUse(n) \subseteq InUse(l)
    BY DEF Lowered
  <2> HIDE DEF e
  <2>5. CASE c[q] + d[q] = 0
    BY <2>1, <2>2, <2>3, <2>5
  <2>6. CASE c[q] + d[q] # 0 /\ c[q] = 0
    BY <2>1, <2>2, <2>3, <2>4, <2>6
  <2>7. CASE c[q] # 0 /\ c[q] < m.ref[q]
    BY <2>1, <2>2, <2>3, <2>4, <2>7
  <2>8. CASE c[q] # 0 /\ ~(c[q] < m.ref[q])
    BY <2>1, <2>2, <2>4, <2>8
  <2>9. QED
    BY <2>1, <2>5, <2>6, <2>7, <2>8
<1> HIDE DEF e
<1>4. Lowered(m, n, e)
  BY <1>2, <1>3 DEF Lowered
<1>5. QED
  BY <1>4 DEF e

\* How many of f[a] up to f[b - 1] are q.
Given(f, a, b, q) == Cardinality({x \in a .. b - 1 : f[x] = q})

\* None of no pages.
LEMMA GivenNone ==
  ASSUME NEW f, NEW a \in Nat, NEW q
  PROVE  Given(f, a, a, q) = 0
<1>1. {x \in a .. a - 1 : f[x] = q} = {}
  OBVIOUS
<1>2. QED
  BY <1>1, FS_EmptySet DEF Given

\* Of more of f there are no fewer.
LEMMA GivenGrows ==
  ASSUME NEW f, NEW a \in Nat, NEW b \in Nat, NEW c \in Nat, a <= b, b <= c, NEW q
  PROVE  /\ Given(f, a, b, q) \in Nat
         /\ Given(f, a, b + 1, q) = Given(f, a, b, q) + (IF f[b] = q THEN 1 ELSE 0)
         /\ Given(f, a, b, q) <= Given(f, a, c, q)
<1> DEFINE S == {x \in a .. b - 1 : f[x] = q}
           T == {x \in a .. c - 1 : f[x] = q}
           N == {x \in a .. (b + 1) - 1 : f[x] = q}
<1>1. IsFiniteSet(S)
  <2>1. IsFiniteSet(a .. b - 1) /\ S \subseteq a .. b - 1
    BY FS_Interval
  <2>2. QED
    BY <2>1, FS_Subset
<1>2. IsFiniteSet(T)
  <2>1. IsFiniteSet(a .. c - 1) /\ T \subseteq a .. c - 1
    BY FS_Interval
  <2>2. QED
    BY <2>1, FS_Subset
<1>3. S \subseteq T
  OBVIOUS
<1>4. N = IF f[b] = q THEN S \cup {b} ELSE S
  OBVIOUS
<1>5. b \notin S
  OBVIOUS
<1> HIDE DEF S, T, N
<1>7. Cardinality(S) \in Nat /\ Cardinality(S) <= Cardinality(T)
  BY <1>1, <1>2, <1>3, FS_Subset, FS_CardinalityType
<1>8. Cardinality(N) = Cardinality(S) + (IF f[b] = q THEN 1 ELSE 0)
  BY <1>1, <1>4, <1>5, <1>7, FS_AddElement
<1>9. QED
  BY <1>7, <1>8 DEF Given, S, T, N

\* d[k] is the memory after k turns of the loop.
Turns(d, m, f, a, l) == d[0] = m /\ \A k \in 1 .. l : d[k] = Release(d[k - 1], f[a + k - 1])

\* The loop goes turn by turn.
LEMMA ReleaseAllUnfolds ==
  ASSUME NEW m, NEW f, NEW a \in Nat, NEW b \in Nat, NEW l \in Nat, l = b - a
  PROVE  \E d : ReleaseAll(m, f, a, b) = d[l] /\ Turns(d, m, f, a, l)
<1> DEFINE Is(d, n) == d = [k \in 0 .. n |-> IF k = 0 THEN m ELSE Release(d[k - 1], f[a + k - 1])]
           T == {n \in Nat : ~ \E d : Is(d, n)}
<1>1. T = {}
  <2> SUFFICES ASSUME T # {} PROVE FALSE
    OBVIOUS
  <2>1. PICK n \in T : \A k \in T : n <= k
    <3>1. T \subseteq Nat
      OBVIOUS
    <3> HIDE DEF T
    <3>2. QED
      BY <3>1, LeastNumber
  <2>2. n # 0
    <3>1. Is([k \in 0 .. 0 |-> m], 0)
      OBVIOUS
    <3>2. QED
      BY <2>1, <3>1
  <2>3. n \in Nat /\ n - 1 \in Nat /\ n - 1 \notin T
    <3>1. n \in Nat
      BY <2>1
    <3> HIDE DEF T
    <3>2. n - 1 \in Nat /\ ~(n <= n - 1)
      BY <2>2, <3>1
    <3>3. QED
      BY <2>1, <3>1, <3>2
  <2>4. PICK d : Is(d, n - 1)
    BY <2>3
  <2> DEFINE e == [k \in 0 .. n |-> IF k = n THEN Release(d[n - 1], f[a + n - 1]) ELSE d[k]]
  <2>5. Is(e, n)
    <3> SUFFICES ASSUME NEW k \in 0 .. n
                 PROVE  e[k] = IF k = 0 THEN m ELSE Release(e[k - 1], f[a + k - 1])
      OBVIOUS
    <3>1. CASE k = n
      BY <2>2, <2>3, <3>1
    <3>2. CASE k # n
      <4>1. k \in 0 .. n - 1 /\ e[k] = d[k] /\ (k # 0 => e[k - 1] = d[k - 1])
        BY <2>3, <3>2
      <4>2. d[k] = IF k = 0 THEN m ELSE Release(d[k - 1], f[a + k - 1])
        BY <2>4, <4>1
      <4> HIDE DEF e
      <4>3. QED
        BY <4>1, <4>2
    <3>3. QED
      BY <3>1, <3>2
  <2>6. QED
    BY <2>1, <2>5
<1> DEFINE d == CHOOSE d : Is(d, l)
<1>2. Is(d, l)
  <2> HIDE DEF Is
  <2>1. \E x : Is(x, l)
    BY <1>1
  <2>2. QED
    BY <2>1
<1>3. ReleaseAll(m, f, a, b) = d[l]
  BY DEF ReleaseAll
<1>4. Turns(d, m, f, a, l)
  <2>1. d = [k \in 0 .. l |-> IF k = 0 THEN m ELSE Release(d[k - 1], f[a + k - 1])]
    BY <1>2
  <2> HIDE DEF d
  <2>2. QED
    BY <2>1 DEF Turns
<1>5. QED
  BY <1>3, <1>4

\* The loops of free_proc: as long as everybody has as many references as he gives
\* back, each page loses those and the last one frees it.
LEMMA AllReleased ==
  ASSUME BitsFit, NEW m, MemOK(m), NEW f, NEW a \in Nat, NEW b \in Nat, a <= b,
         \A x \in a .. b - 1 : f[x] \in InUse(m),
         \A q \in InUse(m) : Given(f, a, b, q) = 0 \/ Given(f, a, b, q) <= m.ref[q]
  PROVE  Lowered(m, ReleaseAll(m, f, a, b), [q \in Page |-> Given(f, a, b, q)])
<1> DEFINE l == b - a
<1>1. l \in Nat /\ a + l = b /\ l = b - a
  OBVIOUS
<1> HIDE DEF l
<1>2. PICK d : ReleaseAll(m, f, a, b) = d[l] /\ Turns(d, m, f, a, l)
  BY <1>1, ReleaseAllUnfolds
<1> DEFINE C(k) == [q \in Page |-> Given(f, a, a + k, q)]
           Good(k) == Lowered(m, d[k], C(k))
           T == {k \in 0 .. l : ~Good(k)}
<1>3. T = {}
  <2> SUFFICES ASSUME T # {} PROVE FALSE
    OBVIOUS
  <2>1. PICK n \in T : \A k \in T : n <= k
    <3>1. T \subseteq Nat
      OBVIOUS
    <3> HIDE DEF T
    <3>2. QED
      BY <3>1, LeastNumber
  <2>2. n \in 0 .. l /\ n \in Nat /\ ~Good(n)
    BY <2>1
  <2>3. InUse(m) \subseteq Page /\ m.ref \in [Page -> Int]
    BY RestIsNotInUse
  <2>4. n # 0
    <3> SUFFICES ASSUME n = 0 PROVE FALSE
      OBVIOUS
    <3>1. \A q \in Page : C(0)[q] = 0
      <4>1. a + 0 = a
        OBVIOUS
      <4>2. QED
        BY <4>1, GivenNone
    <3> HIDE DEF C
    <3>2. Lowered(m, m, C(0))
      BY <2>3, <3>1 DEF Lowered
    <3>3. QED
      BY <1>2, <2>2, <3>2 DEF Turns
  <2> DEFINE k == n - 1
             q == f[a + k]
             one == [x \in Page |-> IF x = q THEN 1 ELSE 0]
  <2>5. k \in Nat /\ k \in 0 .. l /\ n = k + 1 /\ a + k \in a .. b - 1 /\ k < n
    BY <1>1, <2>2, <2>4
  <2>6. q \in InUse(m) /\ q \in Page
    BY <2>3, <2>5
  <2>7. Good(k)
    BY <2>1, <2>5
  <2>8. d[n] = Release(d[k], q)
    <3>1. a + n - 1 = a + k
      BY <2>5
    <3>2. QED
      BY <1>2, <2>2, <2>4, <3>1 DEF Turns
  <2>9. /\ C(k) \in [Page -> Nat] /\ one \in [Page -> Nat]
        /\ \A x \in Page : C(n)[x] = C(k)[x] + one[x]
        /\ \A x \in InUse(m) : C(n)[x] = 0 \/ C(n)[x] <= m.ref[x]
        /\ C(n)[q] = C(k)[q] + 1
    <3>1. ASSUME NEW x \in Page
          PROVE  /\ Given(f, a, a + k, x) \in Nat
                 /\ Given(f, a, a + n, x) = Given(f, a, a + k, x) + (IF q = x THEN 1 ELSE 0)
                 /\ Given(f, a, a + n, x) <= Given(f, a, b, x)
                 /\ Given(f, a, a + n, x) \in Nat /\ Given(f, a, b, x) \in Nat
      <4>1. a + k \in Nat /\ a <= a + k /\ a + k <= b /\ a + n \in Nat /\ a <= a + n /\ a + n <= b
            /\ a + n = a + k + 1
        BY <2>5, <2>2
      <4>2. QED
        BY <4>1, GivenGrows, SMTT(40)
    <3>2. \A x \in InUse(m) : Given(f, a, a + n, x) = 0 \/ Given(f, a, a + n, x) <= m.ref[x]
      BY <2>3, <3>1
    <3>3. \A x \in Page : C(k)[x] = Given(f, a, a + k, x) /\ C(n)[x] = Given(f, a, a + n, x)
                       /\ one[x] = IF x = q THEN 1 ELSE 0
      OBVIOUS
    <3>4. one \in [Page -> Nat] /\ C(k) \in [Page -> Nat]
      BY <3>1
    <3> HIDE DEF C, one, q
    <3>5. QED
      BY <2>3, <2>6, <3>1, <3>2, <3>3, <3>4
  <2> HIDE DEF C, q
  <2>10. MemOK(d[k]) /\ InUse(d[k]) \subseteq InUse(m)
    BY <2>7 DEF Lowered
  <2>11. q \in InUse(d[k]) /\ d[k].ref[q] = m.ref[q] - C(k)[q] /\ d[k].ref[q] >= 1
    <3>1. C(k)[q] \in Nat /\ C(n)[q] <= m.ref[q] /\ C(k)[q] < m.ref[q] /\ m.ref[q] \in Int
      BY <2>3, <2>6, <2>9
    <3>2. q \in InUse(d[k]) /\ d[k].ref[q] = m.ref[q] - C(k)[q]
      BY <2>6, <2>7, <3>1 DEF Lowered
    <3>3. QED
      BY <3>1, <3>2
  <2>12. Lowered(d[k], d[n], one)
    BY <2>8, <2>10, <2>11, OneReleased
  <2> HIDE DEF one
  <2>13. Lowered(m, d[n], [x \in Page |-> C(k)[x] + one[x]])
    <3>1. \A x \in Page : C(k)[x] + one[x] = 0 \/ (x \in InUse(m) /\ C(k)[x] + one[x] <= m.ref[x])
      <4> SUFFICES ASSUME NEW x \in Page, x \notin InUse(m) PROVE C(k)[x] + one[x] = 0
        BY <2>9
      <4>1. {y \in a .. (a + n) - 1 : f[y] = x} = {}
        <5>1. \A y \in a .. (a + n) - 1 : y \in a .. b - 1
          BY <1>1, <2>2
        <5>2. QED
          BY <5>1
      <4>2. C(n)[x] = 0
        BY <4>1, FS_EmptySet DEF C, Given
      <4>3. QED
        BY <2>9, <4>2
    <3>2. QED
      BY <2>7, <2>9, <2>12, <3>1, LoweredTwice
  <2>14. [x \in Page |-> C(k)[x] + one[x]] = C(n)
    <3>1. C(n) = [x \in Page |-> C(n)[x]]
      BY DEF C
    <3>2. QED
      BY <2>9, <3>1
  <2>15. QED
    BY <2>2, <2>13, <2>14
<1>4. Good(l)
  <2> HIDE DEF Good
  <2>1. l \in 0 .. l
    BY <1>1
  <2>2. QED
    BY <1>3, <2>1
<1>5. QED
  BY <1>1, <1>2, <1>4
-----------------------------------------------------------------------------
(* Addresses *)

Addr  == 0 .. KernBase - 1
Index == 0 .. (KernBase \div Pte) - 1

\* A break that mem_sbrk and copy_parent can do with.
Break(b) == b \in Nat /\ b % Units # 0 /\ LastTable(b) < StackTable

\* An address is the number of a table and a place in it.
LEMMA Parts ==
  ASSUME NEW v \in Addr
  PROVE  /\ v \div Pte \in Index /\ v % Pte \in 0 .. Pte - 1
         /\ v = Pte * (v \div Pte) + (v % Pte)
<1> DEFINE N == Pte
           K == KernBase \div Pte
<1>1. N \in Nat \ {0} /\ KernBase \in Nat /\ KernBase % N = 0 /\ v \in Nat /\ v < KernBase
  BY PagesAssumption DEF Addr
<1>2. /\ v \div N \in Int /\ v % N \in 0 .. N - 1 /\ v = N * (v \div N) + (v % N)
      /\ K \in Int /\ KernBase = N * K
  BY <1>1
<1> DEFINE i == v \div N
           k == v % N
<1> HIDE DEF N, K, i, k
<1>3. i \in Int /\ k \in 0 .. N - 1 /\ v = N * i + k /\ KernBase = N * K /\ K \in Int
  BY <1>2 DEF i, k
<1>4. i >= 0
  <2> SUFFICES ASSUME i <= -1 PROVE FALSE
    BY <1>3
  <2>1. N * i <= -N
    BY <1>1, <1>3, SMTT(30)
  <2>2. QED
    BY <1>1, <1>3, <2>1
<1>5. i <= K - 1
  <2> SUFFICES ASSUME i >= K PROVE FALSE
    BY <1>3
  <2>1. N * i >= N * K
    BY <1>1, <1>3, SMTT(30)
  <2>2. QED
    BY <1>1, <1>3, <2>1
<1>6. QED
  BY <1>3, <1>4, <1>5 DEF N, K, i, k, Index

\* Two addresses with the same parts are one.
LEMMA SameParts ==
  ASSUME NEW u \in Addr, NEW v \in Addr, u \div Pte = v \div Pte, u % Pte = v % Pte
  PROVE  u = v
<1>1. u = Pte * (u \div Pte) + (u % Pte) /\ v = Pte * (v \div Pte) + (v % Pte)
  BY Parts
<1>2. QED
  BY <1>1

\* The quotients of numbers are in their order.
LEMMA InOrder ==
  ASSUME NEW n \in Nat \ {0}, NEW a \in Nat, NEW b \in Nat
  PROVE  /\ a \div n \in Nat /\ (a \div n) * n <= a /\ a < (a \div n) * n + n
         /\ a <= b => a \div n <= b \div n
         /\ (b * n) \div n = b
<1> DEFINE x == a \div n
           y == b \div n
<1>1. /\ x \in Int /\ a % n \in 0 .. n - 1 /\ a = n * x + (a % n)
      /\ y \in Int /\ b % n \in 0 .. n - 1 /\ b = n * y + (b % n)
  OBVIOUS
<1> DEFINE r == a % n
           s == b % n
<1> HIDE DEF x, y, r, s
<1>2. x \in Int /\ r \in 0 .. n - 1 /\ a = n * x + r /\ y \in Int /\ s \in 0 .. n - 1 /\ b = n * y + s
  BY <1>1 DEF r, s
<1>3. x >= 0
  <2> SUFFICES ASSUME x <= -1 PROVE FALSE
    BY <1>2
  <2>1. n * x <= -n
    BY <1>2, SMTT(30)
  <2>2. QED
    BY <1>2, <2>1
<1>4. a <= b => x <= y
  <2> SUFFICES ASSUME a <= b, y <= x - 1 PROVE FALSE
    BY <1>2
  <2>1. n * y <= n * (x - 1) /\ n * (x - 1) = n * x - n
    BY <1>2, SMTT(30)
  <2>2. QED
    BY <1>2, <2>1
<1>5. x * n = n * x
  BY <1>2, SMTT(30)
<1>6. (b * n) \div n = b
  BY MultipleOf
<1>7. QED
  BY <1>2, <1>3, <1>4, <1>5, <1>6 DEF x, y
\* Where the stack is.
LEMMA StackPlace ==
  /\ StackStart \in Addr /\ StackTable \in Index /\ KernBase \in Nat /\ KernBase \div Pte \in Nat
  /\ StackStart \in Nat /\ StackTable \in Nat /\ StackStart < KernBase /\ StackTable < KernBase \div Pte
  /\ \A v \in StackStart .. KernBase - 1 : v \in Addr /\ v \div Pte >= StackTable
<1>1. KernBase \in Nat /\ StackPages \in 1 .. KernBase /\ Pte \in Nat \ {0}
  BY PagesAssumption
<1>2. StackStart \in Addr /\ StackStart \in Nat /\ StackStart < KernBase
  BY <1>1 DEF StackStart, Addr
<1>3. StackTable \in Index
  BY <1>2, Parts DEF StackTable
<1>4. KernBase \div Pte \in Nat
  BY <1>1, InOrder
<1>5. ASSUME NEW v \in StackStart .. KernBase - 1 PROVE v \in Addr /\ v \div Pte >= StackTable
  BY <1>1, <1>2, InOrder DEF Addr, StackTable
<1>6. QED
  BY <1>1, <1>2, <1>3, <1>4, <1>5 DEF Index

\* Where the program is: from page 0 on, below the page tables of the stack.
LEMMA ProgramPlace ==
  ASSUME NEW b, Break(b)
  PROVE  /\ PageUp(b) = b \div Units + 1 /\ b \div Units \in Nat /\ PageUp(b) \in Nat
         /\ LastTable(b) \in Nat /\ LastTable(b) < StackTable /\ PageUp(b) <= StackStart
         /\ \A v \in 0 .. PageUp(b) - 1 : v \in Addr /\ v \div Pte \in 0 .. LastTable(b) /\ v < StackStart
<1>1. b \in Nat /\ Units \in Nat \ {0} /\ Pte \in Nat \ {0} /\ b % Units # 0 /\ LastTable(b) < StackTable
  BY PagesAssumption DEF Break
<1> DEFINE N == Units
           x == b \div N
           r == b % N
<1>2. x \in Nat
  BY <1>1, InOrder
<1>3. b = N * x + r /\ r \in 1 .. N - 1
  BY <1>1
<1>4. PageUp(b) = x + 1
  <2>1. PageUp(b) = (b + N - 1) \div N
    BY DEF PageUp
  <2>2. b + N - 1 = N * (x + 1) + (r - 1) /\ r - 1 \in 0 .. N - 1
    <3> HIDE DEF N, x, r
    <3>1. N * (x + 1) = N * x + N
      BY <1>1, <1>2, SMTT(30) DEF N
    <3>2. QED
      BY <1>1, <1>2, <1>3, <3>1 DEF N
  <2>3. (b + N - 1) \div N = x + 1
    <3> HIDE DEF N, x, r
    <3>1. N \in Nat \ {0}
      BY <1>1 DEF N
    <3> DEFINE y == (b + N - 1) \div N
               e == (b + N - 1) % N
    <3>2. b + N - 1 = N * y + e /\ e \in 0 .. N - 1 /\ y \in Int
      BY <1>1, <3>1
    <3> DEFINE d == r - 1
    <3>3. b + N - 1 = N * (x + 1) + d /\ d \in 0 .. N - 1
      BY <2>2
    <3> HIDE DEF y, e, d
    <3>4. y = x + 1
      BY <1>2, <3>1, <3>2, <3>3, Divided
    <3>5. QED
      BY <3>4 DEF y
  <2>4. QED
    BY <2>1, <2>3
<1>5. LastTable(b) = x \div Pte /\ LastTable(b) \in Nat
  BY <1>1, <1>2, InOrder DEF LastTable
<1> HIDE DEF x, r
<1>6. x < StackStart
  BY <1>1, <1>2, <1>5, StackPlace, InOrder DEF StackTable
<1>7. ASSUME NEW v \in 0 .. PageUp(b) - 1
      PROVE  v \in Addr /\ v \div Pte \in 0 .. LastTable(b) /\ v < StackStart
  <2>1. v \in Nat /\ v <= x
    BY <1>2, <1>4
  <2>2. v \div Pte \in Nat /\ v \div Pte <= x \div Pte
    BY <1>1, <1>2, <2>1, InOrder
  <2>3. QED
    BY <1>1, <1>2, <1>5, <1>6, <2>1, <2>2, StackPlace DEF Addr
<1>8. QED
  BY <1>1, <1>2, <1>4, <1>5, <1>6, <1>7, StackPlace DEF x

\* Pages and page tables of a process.
LEMMA AreaPlace ==
  ASSUME NEW b, Break(b)
  PROVE  /\ AddressesOf(b) \subseteq Addr /\ TablesOf(b) \subseteq Index
         /\ IsFiniteSet(AddressesOf(b)) /\ IsFiniteSet(TablesOf(b))
         /\ \A v \in AddressesOf(b) : v \div Pte \in TablesOf(b)
         /\ \A i \in TablesOf(b) : \E v \in AddressesOf(b) : v \div Pte = i
<1> DEFINE K == KernBase \div Pte
<1>1. /\ AddressesOf(b) = (StackStart .. KernBase - 1) \cup (0 .. PageUp(b) - 1)
      /\ TablesOf(b) = (StackTable .. K - 1) \cup (0 .. LastTable(b))
  BY DEF AddressesOf, TablesOf
<1>2. AddressesOf(b) \subseteq Addr /\ TablesOf(b) \subseteq Index
  BY <1>1, StackPlace, ProgramPlace DEF Index
<1>3. IsFiniteSet(Addr) /\ IsFiniteSet(Index)
  <2>1. 0 \in Int /\ KernBase - 1 \in Int /\ K - 1 \in Int
    BY StackPlace
  <2>2. QED
    BY <2>1, FS_Interval DEF Addr, Index
<1>4. IsFiniteSet(AddressesOf(b)) /\ IsFiniteSet(TablesOf(b))
  BY <1>2, <1>3, FS_Subset
<1>5. ASSUME NEW v \in AddressesOf(b) PROVE v \div Pte \in TablesOf(b)
  <2>1. CASE v \in StackStart .. KernBase - 1
    <3>1. v \in Addr /\ v \div Pte >= StackTable
      BY <2>1, StackPlace
    <3>2. v \div Pte \in Index
      BY <3>1, Parts
    <3>3. QED
      BY <1>1, <3>1, <3>2, StackPlace DEF Index
  <2>2. CASE v \in 0 .. PageUp(b) - 1
    BY <1>1, <2>2, ProgramPlace
  <2>3. QED
    BY <1>1, <2>1, <2>2
<1>6. ASSUME NEW i \in TablesOf(b) PROVE \E v \in AddressesOf(b) : v \div Pte = i
  <2>1. Pte \in Nat \ {0}
    BY PagesAssumption
  <2>2. CASE i \in 0 .. LastTable(b)
    <3>1. i \in Nat /\ i <= LastTable(b)
      BY <2>2, ProgramPlace
    <3> DEFINE v == i * Pte
               x == b \div Units
    <3>2. v \in Nat /\ v \div Pte = i
      BY <2>1, <3>1, MultipleOf
    <3>3. x \in Nat /\ LastTable(b) = x \div Pte /\ PageUp(b) = x + 1
      BY ProgramPlace DEF LastTable
    <3>4. v <= LastTable(b) * Pte
      <4> DEFINE l == LastTable(b)
                 N == Pte
      <4>1. l \in Nat /\ N \in Nat /\ i \in Nat /\ i <= l
        BY <2>1, <3>1, ProgramPlace
      <4> HIDE DEF l, N
      <4>2. i * N <= l * N
        BY <4>1, SMTT(30)
      <4>3. QED
        BY <4>2 DEF l, N
    <3>5. LastTable(b) * Pte <= x
      <4> HIDE DEF x
      <4>1. (x \div Pte) * Pte <= x
        BY <2>1, <3>3, InOrder
      <4>2. QED
        BY <3>3, <4>1
    <3>6. LastTable(b) * Pte \in Nat
      BY <2>1, ProgramPlace, MultipleOf
    <3> HIDE DEF v, x
    <3>7. v \in 0 .. PageUp(b) - 1
      BY <3>2, <3>3, <3>4, <3>5, <3>6
    <3>8. QED
      BY <1>1, <3>2, <3>7
  <2>3. CASE i \in StackTable .. K - 1 /\ i # StackTable
    <3> DEFINE v == i * Pte
    <3>1. i \in Nat /\ i >= StackTable + 1 /\ i <= K - 1 /\ K \in Nat
      BY <2>3, StackPlace
    <3>2. v \in Nat /\ v \div Pte = i
      BY <2>1, <3>1, MultipleOf
    <3>3. v < KernBase
      <4> DEFINE N == Pte
      <4>1. KernBase \in Nat /\ N \in Nat \ {0} /\ KernBase % N = 0
        BY PagesAssumption
      <4>2. KernBase = N * K
        BY <4>1
      <4> HIDE DEF N, K
      <4>3. i * N <= N * K - N
        BY <3>1, <4>1, SMTT(30)
      <4>4. i * N < KernBase
        BY <3>1, <4>1, <4>2, <4>3, SMTT(30)
      <4>5. QED
        BY <4>4 DEF N
    <3> HIDE DEF v
    <3>4. v >= StackStart
      <4> SUFFICES ASSUME v <= StackStart PROVE FALSE
        BY <3>2, StackPlace
      <4>1. v \div Pte <= StackTable
        BY <2>1, <3>2, StackPlace, InOrder DEF StackTable
      <4>2. QED
        BY <3>1, <3>2, <4>1, StackPlace
    <3>5. v \in StackStart .. KernBase - 1
      BY <3>2, <3>3, <3>4, StackPlace
    <3>6. QED
      BY <1>1, <3>2, <3>5
  <2>4. CASE i = StackTable
    <3>1. StackStart \in StackStart .. KernBase - 1 /\ StackStart \div Pte = StackTable
      BY StackPlace DEF StackTable
    <3>2. QED
      BY <1>1, <2>4, <3>1
  <2>5. QED
    BY <1>1, <2>2, <2>3, <2>4
<1>7. QED
  BY <1>2, <1>4, <1>5, <1>6

-----------------------------------------------------------------------------
(* The state of all address spaces: a record of mem, tab, pd, dirpage, brk, live *)

Holds(s, p, v) == v \div Pte \in DOMAIN s.pd[p] /\ v % Pte \in DOMAIN s.tab[s.pd[p][v \div Pte]]
Slot(s, p, v)  == s.tab[s.pd[p][v \div Pte]][v % Pte]
At(s, p, v)    == Slot(s, p, v).page
Area(s, p)     == AddressesOf(s.brk[p])

\* The processes that use the page table q as their i-th, and the places that have
\* the page q.
Sharers(s, q, i) == {p \in s.live : i \in DOMAIN s.pd[p] /\ s.pd[p][i] = q}
Having(s, q)     == {u \in s.live \X Addr : Holds(s, u[1], u[2]) /\ At(s, u[1], u[2]) = q}

IsTable(t) == DOMAIN t \subseteq 0 .. Pte - 1 /\ \A k \in DOMAIN t : t[k] \in [page : Page, w : BOOLEAN]
IsDir(d)   == DOMAIN d \subseteq Index /\ \A i \in DOMAIN d : d[i] \in Page

\* The shape of the parts.
Shape(s) ==
  /\ s.live \subseteq Pid
  /\ \A q \in Page : IsTable(s.tab[q])
  /\ \A p \in s.live : IsDir(s.pd[p]) /\ s.dirpage[p] \in Page /\ Break(s.brk[p])
  /\ MemOK(s.mem)

\* Processes have the pages that fork and exit go through, and no others.
Mapped(s) == \A p \in s.live, v \in Addr : Holds(s, p, v) <=> v \in Area(s, p)

\* A directory belongs to one process.
DirsOwn(s) ==
  \A p \in s.live :
    /\ s.mem.type[s.dirpage[p]] = "pgtbl" /\ s.mem.ref[s.dirpage[p]] = 1
    /\ \A o \in s.live : /\ s.dirpage[o] = s.dirpage[p] => o = p
                         /\ \A i \in DOMAIN s.pd[o] : s.pd[o][i] # s.dirpage[p]

\* A page table is one, and has a reference for each process that uses it: exit
\* leaves some behind, so there may be more.
TablesUsed(s) ==
  \A p \in s.live : \A i \in DOMAIN s.pd[p] :
    /\ s.mem.type[s.pd[p][i]] = "pgtbl"
    /\ s.mem.ref[s.pd[p][i]] >= Cardinality(Sharers(s, s.pd[p][i], i))

\* A page table is used at one place of the directories, and shared only where fork
\* and exit go through it on both sides.
TablesApart(s) ==
  \A p \in s.live, o \in s.live : \A i \in DOMAIN s.pd[p], j \in DOMAIN s.pd[o] :
    s.pd[p][i] = s.pd[o][j] =>
      /\ i = j
      /\ p # o => i >= StackTable \/ (s.brk[o] = s.brk[p] /\ i <= LastTable(s.brk[p]))

\* The pages of processes, and those that boot left over.
PagesUsed(s) ==
  \A p \in s.live : \A v \in Area(s, p) : s.mem.type[At(s, p, v)] = "user" /\ At(s, p, v) \notin Spare
SpareKept(s) == \A q \in Spare : s.mem.type[q] = "user"

\* A page has a reference for each place that has it.
Counted(s) ==
  \A q \in Page \ Spare : s.mem.type[q] = "user" => s.mem.ref[q] = Cardinality(Having(s, q))

\* A page that somebody may write to has one.
WritableOnce(s) ==
  \A p \in s.live : \A v \in Area(s, p) : Slot(s, p, v).w => s.mem.ref[At(s, p, v)] = 1

Core(s) ==
  /\ Shape(s) /\ Mapped(s) /\ DirsOwn(s) /\ TablesUsed(s) /\ TablesApart(s)
  /\ PagesUsed(s) /\ SpareKept(s) /\ Counted(s) /\ WritableOnce(s)

\* What is at an address.
LEMMA SlotIs ==
  ASSUME NEW s, Shape(s), NEW p \in s.live, NEW v \in Addr, Holds(s, p, v)
  PROVE  /\ Slot(s, p, v) \in [page : Page, w : BOOLEAN] /\ At(s, p, v) \in Page /\ Slot(s, p, v).w \in BOOLEAN
         /\ s.pd[p][v \div Pte] \in Page
<1>1. s.pd[p][v \div Pte] \in Page
  BY DEF Shape, IsDir, Holds
<1>2. Slot(s, p, v) \in [page : Page, w : BOOLEAN]
  BY <1>1 DEF Shape, IsTable, Holds, Slot
<1>3. QED
  BY <1>1, <1>2 DEF At

\* The addresses of a process.
LEMMA AreaIs ==
  ASSUME NEW s, Shape(s), NEW p \in s.live
  PROVE  /\ Area(s, p) \subseteq Addr /\ IsFiniteSet(Area(s, p)) /\ Break(s.brk[p])
         /\ Mapped(s) => TablesOf(s.brk[p]) \subseteq DOMAIN s.pd[p]
<1>1. Break(s.brk[p])
  BY DEF Shape
<1>2. Area(s, p) \subseteq Addr /\ IsFiniteSet(Area(s, p))
  BY <1>1, AreaPlace DEF Area
<1>3. ASSUME Mapped(s), NEW i \in TablesOf(s.brk[p]) PROVE i \in DOMAIN s.pd[p]
  <2>1. PICK v \in AddressesOf(s.brk[p]) : v \div Pte = i
    BY <1>1, AreaPlace
  <2>2. Holds(s, p, v)
    BY <1>2, <1>3, <2>1 DEF Mapped, Area
  <2>3. QED
    BY <2>1, <2>2 DEF Holds
<1>4. QED
  BY <1>1, <1>2, <1>3

\* Only finitely many places have a page, or use a table.
LEMMA FewHave ==
  ASSUME NEW s, s.live \subseteq Pid, NEW q
  PROVE  /\ IsFiniteSet(s.live) /\ IsFiniteSet(Having(s, q)) /\ Cardinality(Having(s, q)) \in Nat
         /\ \A i : IsFiniteSet(Sharers(s, q, i)) /\ Cardinality(Sharers(s, q, i)) \in Nat
<1>1. IsFiniteSet(s.live)
  BY PagesAssumption, FS_Subset
<1>2. IsFiniteSet(Addr)
  <2>1. 0 \in Int /\ KernBase - 1 \in Int
    BY StackPlace
  <2>2. QED
    BY <2>1, FS_Interval DEF Addr
<1>3. IsFiniteSet(s.live \X Addr)
  BY <1>1, <1>2, FS_Product
<1>4. IsFiniteSet(Having(s, q)) /\ Cardinality(Having(s, q)) \in Nat
  <2>1. Having(s, q) \subseteq s.live \X Addr
    BY DEF Having
  <2>2. QED
    BY <1>3, <2>1, FS_Subset, FS_CardinalityType
<1>5. ASSUME NEW i PROVE IsFiniteSet(Sharers(s, q, i)) /\ Cardinality(Sharers(s, q, i)) \in Nat
  <2>1. Sharers(s, q, i) \subseteq s.live
    BY DEF Sharers
  <2>2. QED
    BY <1>1, <2>1, FS_Subset, FS_CardinalityType
<1>6. QED
  BY <1>1, <1>4, <1>5

\* Same tables, same pages, same references.
SameView(s, t) ==
  /\ t.live = s.live
  /\ \A p \in s.live : t.pd[p] = s.pd[p] /\ t.dirpage[p] = s.dirpage[p] /\ t.brk[p] = s.brk[p]
  /\ t.mem = s.mem

\* What is left in the contents of pages that are no tables does not count.
LEMMA CoreCleared ==
  ASSUME NEW s, Core(s), NEW t, SameView(s, t),
         \A q \in Page : IsTable(t.tab[q]) /\ (s.mem.type[q] = "pgtbl" => t.tab[q] = s.tab[q])
  PROVE  Core(t)
<1>1. \A p \in s.live : \A v : v \div Pte \in DOMAIN s.pd[p] => t.tab[s.pd[p][v \div Pte]] = s.tab[s.pd[p][v \div Pte]]
  BY DEF Core, TablesUsed, Shape, IsDir
<1>2. \A p \in s.live : \A v : Holds(t, p, v) <=> Holds(s, p, v)
  BY <1>1 DEF Holds, SameView
<1>3. \A p \in s.live : \A v : Holds(s, p, v) => Slot(t, p, v) = Slot(s, p, v) /\ At(t, p, v) = At(s, p, v)
  BY <1>1, SMTT(30) DEF Holds, Slot, At, SameView
<1>4. \A p \in s.live : Area(t, p) = Area(s, p) /\ Area(s, p) \subseteq Addr
  BY AreaIs DEF Area, SameView, Core
<1>5. \A q : Having(t, q) = Having(s, q)
  <2> SUFFICES ASSUME NEW q, NEW u \in s.live \X Addr
               PROVE  (Holds(t, u[1], u[2]) /\ At(t, u[1], u[2]) = q) <=> (Holds(s, u[1], u[2]) /\ At(s, u[1], u[2]) = q)
    BY DEF Having, SameView
  <2>1. u[1] \in s.live
    OBVIOUS
  <2>2. QED
    BY <1>2, <1>3, <2>1
<1>6. \A q, i : Sharers(t, q, i) = Sharers(s, q, i)
  BY DEF Sharers, SameView
<1>7. Shape(t)
  BY DEF Core, Shape, SameView
<1>8. Mapped(t)
  BY <1>2, <1>4 DEF Core, Mapped, SameView
<1>9. DirsOwn(t)
  BY DEF Core, DirsOwn, SameView
<1>10. TablesUsed(t)
  BY <1>6 DEF Core, TablesUsed, SameView
<1>11. TablesApart(t)
  BY DEF Core, TablesApart, SameView
<1>12. \A p \in s.live : \A v \in Area(s, p) : Holds(s, p, v)
  BY <1>4 DEF Core, Mapped
<1>13. PagesUsed(t)
  BY <1>3, <1>4, <1>12 DEF Core, PagesUsed, SameView
<1>14. SpareKept(t)
  BY DEF Core, SpareKept, SameView
<1>15. Counted(t)
  BY <1>5 DEF Core, Counted, SameView
<1>16. WritableOnce(t)
  BY <1>3, <1>4, <1>12 DEF Core, WritableOnce, SameView
<1>17. QED
  BY <1>7, <1>8, <1>9, <1>10, <1>11, <1>13, <1>14, <1>15, <1>16 DEF Core

\* The table d with the entry e at k.
Entered(d, k, e, n) ==
  /\ DOMAIN n = DOMAIN d \cup {k} /\ n[k] = e
  /\ \A x \in DOMAIN d \ {k} : n[x] = d[x]

\* do_page_fault finds a page with one reference: the entry becomes writable.
LEMMA MadeWritable ==
  ASSUME NEW s, Core(s), NEW t, SameView(s, t), NEW p \in s.live, NEW v \in Area(s, p),
         s.mem.ref[At(s, p, v)] = 1,
         \A q \in Page : q # s.pd[p][v \div Pte] => t.tab[q] = s.tab[q],
         Entered(s.tab[s.pd[p][v \div Pte]], v % Pte, [page |-> At(s, p, v), w |-> TRUE],
                 t.tab[s.pd[p][v \div Pte]])
  PROVE  Core(t)
<1> DEFINE T == s.pd[p][v \div Pte]
           k == v % Pte
           Q == At(s, p, v)
           new == [page |-> Q, w |-> TRUE]
<1>1. v \in Addr /\ Holds(s, p, v) /\ T \in Page /\ Q \in Page /\ k \in DOMAIN s.tab[T] /\ k \in 0 .. Pte - 1
  <2>1. v \in Addr
    BY AreaIs DEF Core
  <2>2. Holds(s, p, v)
    BY <2>1 DEF Core, Mapped
  <2>3. QED
    BY <2>1, <2>2, SlotIs, Parts DEF Core, Holds
<1>2. Q = s.tab[T][k].page
  BY Zenon DEF At, Slot
<1>3. /\ \A q \in Page : q # T => t.tab[q] = s.tab[q]
      /\ DOMAIN t.tab[T] = DOMAIN s.tab[T] /\ t.tab[T][k] = new
      /\ \A x \in DOMAIN s.tab[T] : x # k => t.tab[T][x] = s.tab[T][x]
  BY <1>1, Zenon DEF Entered
<1>4. new \in [page : Page, w : BOOLEAN] /\ new.page = Q /\ new.w = TRUE
  BY <1>1
<1> HIDE DEF T, k, Q, new
<1>5. \A q \in Page : IsTable(t.tab[q])
  <2> SUFFICES ASSUME NEW q \in Page PROVE IsTable(t.tab[q])
    OBVIOUS
  <2>1. IsTable(s.tab[q]) /\ IsTable(s.tab[T])
    BY <1>1 DEF Core, Shape
  <2>2. CASE q = T
    BY <1>1, <1>3, <1>4, <2>1, <2>2 DEF IsTable
  <2>3. CASE q # T
    BY <1>3, <2>1, <2>3
  <2>4. QED
    BY <2>2, <2>3
<1>6. \A o \in s.live, u \in Addr : Holds(t, o, u) <=> Holds(s, o, u)
  <2> SUFFICES ASSUME NEW o \in s.live, NEW u \in Addr PROVE Holds(t, o, u) <=> Holds(s, o, u)
    OBVIOUS
  <2> DEFINE i == u \div Pte
  <2>1. i \in DOMAIN s.pd[o] => s.pd[o][i] \in Page
    BY DEF Core, Shape, IsDir
  <2>2. i \in DOMAIN s.pd[o] => DOMAIN t.tab[s.pd[o][i]] = DOMAIN s.tab[s.pd[o][i]]
    BY <1>3, <2>1
  <2> HIDE DEF i
  <2>3. QED
    BY <2>2 DEF Holds, SameView, i
<1>7. ASSUME NEW o \in s.live, NEW u \in Addr, Holds(s, o, u)
      PROVE  /\ At(t, o, u) = At(s, o, u)
             /\ Slot(t, o, u).w => Slot(s, o, u).w \/ At(s, o, u) = Q
  <2> DEFINE i == u \div Pte
             j == u % Pte
             S == s.pd[o][i]
  <2>1. S \in Page /\ j \in DOMAIN s.tab[S]
    BY <1>7, SlotIs DEF Core, Holds
  <2>2. Slot(t, o, u) = t.tab[S][j] /\ Slot(s, o, u) = s.tab[S][j]
    BY DEF Slot, SameView
  <2> HIDE DEF S, j
  <2>3. CASE S = T /\ j = k
    BY <1>2, <1>3, <1>4, <2>2, <2>3 DEF At
  <2>4. CASE ~(S = T /\ j = k)
    BY <1>3, <2>1, <2>2, <2>4 DEF At
  <2>5. QED
    BY <2>3, <2>4
<1>8. \A o \in s.live : Area(t, o) = Area(s, o) /\ Area(s, o) \subseteq Addr
  BY AreaIs DEF Area, SameView, Core
<1>9. \A q : Having(t, q) = Having(s, q)
  <2> SUFFICES ASSUME NEW q, NEW u \in s.live \X Addr
               PROVE  (Holds(t, u[1], u[2]) /\ At(t, u[1], u[2]) = q) <=> (Holds(s, u[1], u[2]) /\ At(s, u[1], u[2]) = q)
    BY DEF Having, SameView
  <2>1. u[1] \in s.live /\ u[2] \in Addr
    OBVIOUS
  <2>2. QED
    BY <1>6, <1>7, <2>1
<1>10. \A q, i : Sharers(t, q, i) = Sharers(s, q, i)
  BY DEF Sharers, SameView
<1>11. \A o \in s.live : \A u \in Area(s, o) : Holds(s, o, u)
  BY <1>8 DEF Core, Mapped
<1>12. Shape(t)
  BY <1>5 DEF Core, Shape, SameView
<1>13. Mapped(t)
  BY <1>6, <1>8 DEF Core, Mapped, SameView
<1>14. DirsOwn(t)
  BY DEF Core, DirsOwn, SameView
<1>15. TablesUsed(t)
  BY <1>10, SMTT(30) DEF Core, TablesUsed, SameView
<1>16. TablesApart(t)
  BY DEF Core, TablesApart, SameView
<1>17. PagesUsed(t)
  BY <1>7, <1>8, <1>11 DEF Core, PagesUsed, SameView
<1>18. SpareKept(t)
  BY DEF Core, SpareKept, SameView
<1>19. Counted(t)
  BY <1>9 DEF Core, Counted, SameView
<1>20. WritableOnce(t)
  <2> SUFFICES ASSUME NEW o \in s.live, NEW u \in Area(s, o), Slot(t, o, u).w
               PROVE  s.mem.ref[At(s, o, u)] = 1
    BY <1>7, <1>8, <1>11 DEF WritableOnce, SameView
  <2>1. Slot(s, o, u).w \/ At(s, o, u) = Q
    BY <1>7, <1>8, <1>11
  <2>2. QED
    BY <2>1 DEF Core, WritableOnce, Q
<1>21. QED
  BY <1>12, <1>13, <1>14, <1>15, <1>16, <1>17, <1>18, <1>19, <1>20 DEF Core

\* p has a copy A of its page at v, in the table N: its own one or a copy of it.
OwnCopy(s, t, p, v, A, N) ==
  LET i == v \div Pte
      T == s.pd[p][i]
      Q == At(s, p, v) IN
  /\ MemOK(t.mem)
  /\ A \in Page \ InUse(s.mem) /\ t.mem.type[A] = "user" /\ t.mem.ref[A] = 1
  /\ N \in Page /\ N # A /\ t.mem.type[N] = "pgtbl"
  /\ \/ N = T /\ t.mem.ref[T] = s.mem.ref[T] /\ Sharers(s, T, i) \subseteq {p}
     \/ N \notin InUse(s.mem) /\ t.mem.ref[N] = 1 /\ t.mem.ref[T] = s.mem.ref[T] - 1
  /\ InUse(t.mem) = InUse(s.mem) \cup {A, N}
  /\ \A q \in InUse(s.mem) : t.mem.type[q] = s.mem.type[q]
  /\ t.mem.ref[Q] = s.mem.ref[Q] - 1
  /\ \A q \in InUse(s.mem) \ {Q, T} : t.mem.ref[q] = s.mem.ref[q]
  /\ \A q \in Page \ {N} : t.tab[q] = s.tab[q]
  /\ Entered(s.tab[T], v % Pte, [page |-> A, w |-> TRUE], t.tab[N])
  /\ t.live = s.live
  /\ \A o \in s.live : /\ t.dirpage[o] = s.dirpage[o] /\ t.brk[o] = s.brk[o]
                       /\ o # p => t.pd[o] = s.pd[o]
  /\ DOMAIN t.pd[p] = DOMAIN s.pd[p] /\ t.pd[p][i] = N
  /\ \A j \in DOMAIN s.pd[p] \ {i} : t.pd[p][j] = s.pd[p][j]

\* What that changes for the processes.
CopyView(s, t, p, v, A, N) ==
  /\ v \in Addr /\ Holds(s, p, v)
  /\ \A o \in s.live, u \in Addr : Holds(t, o, u) <=> Holds(s, o, u)
  /\ \A o \in s.live, u \in Addr : Holds(s, o, u) =>
       Slot(t, o, u) = IF o = p /\ u = v THEN [page |-> A, w |-> TRUE] ELSE Slot(s, o, u)
  /\ s.pd[p][v \div Pte] \in InUse(s.mem) /\ At(s, p, v) \in InUse(s.mem)
  /\ s.mem.type[s.pd[p][v \div Pte]] = "pgtbl" /\ s.mem.type[At(s, p, v)] = "user"
  /\ A # N /\ A \notin InUse(s.mem)
  /\ \A o \in s.live : \A j \in DOMAIN s.pd[o] : s.pd[o][j] \in InUse(s.mem)
  /\ \A o \in s.live : \A j \in DOMAIN t.pd[o] : t.pd[o][j] = N <=> o = p /\ j = v \div Pte

\* Only that entry has changed.
LEMMA OwnCopyView ==
  ASSUME NEW s, Core(s), NEW t, NEW p \in s.live, NEW v \in Area(s, p), NEW A, NEW N,
         OwnCopy(s, t, p, v, A, N)
  PROVE  CopyView(s, t, p, v, A, N)
<1> DEFINE i == v \div Pte
           k == v % Pte
           T == s.pd[p][i]
           Q == At(s, p, v)
           new == [page |-> A, w |-> TRUE]
<1>1. v \in Addr /\ Holds(s, p, v)
  <2>1. v \in Addr
    BY AreaIs DEF Core
  <2>2. QED
    BY <2>1 DEF Core, Mapped
<1>2. T \in Page /\ Q \in Page /\ k \in DOMAIN s.tab[T] /\ i \in DOMAIN s.pd[p] /\ i \in Index
  BY <1>1, SlotIs, Parts DEF Core, Holds
<1>3. s.mem.type[T] = "pgtbl" /\ s.mem.type[Q] = "user"
  BY <1>2 DEF Core, TablesUsed, PagesUsed
<1>4. T \in InUse(s.mem) /\ Q \in InUse(s.mem)
  BY <1>2, <1>3 DEF InUse
<1>5. ASSUME NEW o \in s.live, NEW j \in DOMAIN s.pd[o] PROVE s.pd[o][j] \in InUse(s.mem) /\ s.pd[o][j] \in Page
  <2>1. s.pd[o][j] \in Page /\ s.mem.type[s.pd[o][j]] = "pgtbl"
    BY DEF Core, Shape, IsDir, TablesUsed
  <2>2. QED
    BY <2>1 DEF InUse
<1>6. /\ A \in Page /\ A \notin InUse(s.mem) /\ N \in Page /\ N # A
      /\ (N = T /\ Sharers(s, T, i) \subseteq {p}) \/ N \notin InUse(s.mem)
      /\ \A q \in Page \ {N} : t.tab[q] = s.tab[q]
      /\ t.live = s.live
      /\ \A o \in s.live : o # p => t.pd[o] = s.pd[o]
      /\ DOMAIN t.pd[p] = DOMAIN s.pd[p] /\ t.pd[p][i] = N
      /\ \A j \in DOMAIN s.pd[p] \ {i} : t.pd[p][j] = s.pd[p][j]
      /\ DOMAIN t.tab[N] = DOMAIN s.tab[T] /\ t.tab[N][k] = new
      /\ \A x \in DOMAIN s.tab[T] \ {k} : t.tab[N][x] = s.tab[T][x]
  BY <1>2, Zenon DEF OwnCopy, Entered
<1>7. ASSUME NEW o \in s.live, NEW j \in DOMAIN s.pd[o], s.pd[o][j] = N PROVE o = p /\ j = i
  <2>1. N = T /\ Sharers(s, T, i) \subseteq {p}
    BY <1>5, <1>6, <1>7
  <2>2. j = i
    BY <1>2, <1>7, <2>1 DEF Core, TablesApart
  <2>3. o \in Sharers(s, T, i)
    BY <1>7, <2>1, <2>2 DEF Sharers
  <2>4. QED
    BY <2>1, <2>2, <2>3
<1> HIDE DEF T, Q, i, k, new
<1>8. ASSUME NEW o \in s.live, NEW u \in Addr
      PROVE  /\ Holds(t, o, u) <=> Holds(s, o, u)
             /\ Holds(s, o, u) => Slot(t, o, u) = IF o = p /\ u = v THEN new ELSE Slot(s, o, u)
  <2> DEFINE j == u \div Pte
             l == u % Pte
             S == s.pd[o][j]
             R == t.pd[o][j]
  <2>1. (DOMAIN t.pd[o] = DOMAIN s.pd[o]) /\ (j \in DOMAIN s.pd[o] => S \in Page)
    BY <1>5, <1>6
  <2>2. (Holds(s, o, u) <=> j \in DOMAIN s.pd[o] /\ l \in DOMAIN s.tab[S]) /\ Slot(s, o, u) = s.tab[S][l]
    BY DEF Holds, Slot
  <2>3. (Holds(t, o, u) <=> j \in DOMAIN t.pd[o] /\ l \in DOMAIN t.tab[R]) /\ Slot(t, o, u) = t.tab[R][l]
    BY DEF Holds, Slot
  <2>4. (j = i /\ l = k) <=> u = v
    BY <1>1, SameParts DEF i, k
  <2> HIDE DEF j, l
  <2>5. CASE o = p /\ j = i
    <3>1. S = T /\ R = N
      BY <1>6, <2>5 DEF T
    <3> HIDE DEF S, R
    <3>2. QED
      BY <1>2, <1>6, <2>1, <2>2, <2>3, <2>4, <2>5, <3>1
  <2>6. CASE ~(o = p /\ j = i)
    <3>1. j \in DOMAIN s.pd[o] => R = S /\ S # N
      BY <1>6, <1>7, <2>6
    <3>2. ~(o = p /\ u = v)
      BY <2>4, <2>6
    <3> HIDE DEF S, R
    <3>3. QED
      BY <1>6, <2>1, <2>2, <2>3, <3>1, <3>2
  <2>7. QED
    BY <2>5, <2>6
<1>9. ASSUME NEW o \in s.live, NEW j \in DOMAIN t.pd[o] PROVE t.pd[o][j] = N <=> o = p /\ j = i
  BY <1>6, <1>7
<1>10. QED
  BY <1>1, <1>3, <1>4, <1>5, <1>6, <1>8, <1>9, SMTT(30) DEF CopyView, T, Q, i, new

\* The invariant survives a copy.
LEMMA OwnCopied ==
  ASSUME NEW s, Core(s), NEW t, NEW p \in s.live, NEW v \in Area(s, p), NEW A, NEW N,
         OwnCopy(s, t, p, v, A, N)
  PROVE  Core(t)
<1> DEFINE i == v \div Pte
           k == v % Pte
           T == s.pd[p][i]
           Q == At(s, p, v)
           new == [page |-> A, w |-> TRUE]
<1>1. /\ v \in Addr /\ Holds(s, p, v)
      /\ \A o \in s.live, u \in Addr : Holds(t, o, u) <=> Holds(s, o, u)
      /\ \A o \in s.live, u \in Addr : Holds(s, o, u) =>
            Slot(t, o, u) = IF o = p /\ u = v THEN new ELSE Slot(s, o, u)
      /\ T \in InUse(s.mem) /\ Q \in InUse(s.mem)
      /\ s.mem.type[T] = "pgtbl" /\ s.mem.type[Q] = "user"
      /\ A # N /\ A \notin InUse(s.mem)
      /\ \A o \in s.live : \A j \in DOMAIN s.pd[o] : s.pd[o][j] \in InUse(s.mem)
      /\ \A o \in s.live : \A j \in DOMAIN t.pd[o] : t.pd[o][j] = N <=> o = p /\ j = i
  <2>1. CopyView(s, t, p, v, A, N)
    BY OwnCopyView
  <2>2. QED
    BY <2>1 DEF CopyView
<1>2. /\ MemOK(t.mem)
      /\ A \in Page /\ t.mem.type[A] = "user" /\ t.mem.ref[A] = 1
      /\ N \in Page /\ t.mem.type[N] = "pgtbl"
      /\ \/ N = T /\ t.mem.ref[T] = s.mem.ref[T] /\ Sharers(s, T, i) \subseteq {p}
         \/ N \notin InUse(s.mem) /\ t.mem.ref[N] = 1 /\ t.mem.ref[T] = s.mem.ref[T] - 1
      /\ InUse(t.mem) = InUse(s.mem) \cup {A, N}
      /\ \A q \in InUse(s.mem) : t.mem.type[q] = s.mem.type[q]
      /\ t.mem.ref[Q] = s.mem.ref[Q] - 1
      /\ \A q \in InUse(s.mem) \ {Q, T} : t.mem.ref[q] = s.mem.ref[q]
      /\ \A q \in Page \ {N} : t.tab[q] = s.tab[q]
      /\ Entered(s.tab[T], k, new, t.tab[N])
      /\ t.live = s.live
      /\ \A o \in s.live : /\ t.dirpage[o] = s.dirpage[o] /\ t.brk[o] = s.brk[o]
                           /\ o # p => t.pd[o] = s.pd[o]
      /\ DOMAIN t.pd[p] = DOMAIN s.pd[p] /\ t.pd[p][i] = N
      /\ \A j \in DOMAIN s.pd[p] \ {i} : t.pd[p][j] = s.pd[p][j]
  BY Zenon DEF OwnCopy
<1>3. i \in DOMAIN s.pd[p] /\ k \in DOMAIN s.tab[T] /\ k \in 0 .. Pte - 1
  BY <1>1, Parts DEF Holds
<1>4. new \in [page : Page, w : BOOLEAN] /\ new.page = A /\ new.w = TRUE
  BY <1>2, Zenon
<1> HIDE DEF T, Q, i, k, new
<1>5. \A o \in s.live : Area(t, o) = Area(s, o) /\ Area(s, o) \subseteq Addr
  BY <1>2, AreaIs DEF Area, Core
<1>6. \A o \in s.live : \A u \in Area(s, o) : u \in Addr /\ Holds(s, o, u)
  BY <1>5 DEF Core, Mapped
<1>7. ASSUME NEW o \in s.live, NEW u \in Addr, Holds(s, o, u)
      PROVE  At(t, o, u) = IF o = p /\ u = v THEN A ELSE At(s, o, u)
  BY <1>1, <1>4, <1>7 DEF At
<1>8. s.mem.ref \in [Page -> Int] /\ InUse(s.mem) \subseteq Page /\ t.mem.ref \in [Page -> Int]
      /\ s.live \subseteq Pid
  BY <1>2, RestIsNotInUse DEF Core, Shape
<1>9. Shape(t)
  <2>1. ASSUME NEW q \in Page PROVE IsTable(t.tab[q])
    <3>1. IsTable(s.tab[q]) /\ IsTable(s.tab[T])
      BY <1>1, <1>8 DEF Core, Shape
    <3>2. CASE q = N
      BY <1>2, <1>3, <1>4, <3>1, <3>2 DEF IsTable, Entered
    <3>3. CASE q # N
      BY <1>2, <3>1, <3>3
    <3>4. QED
      BY <3>2, <3>3
  <2>2. ASSUME NEW o \in s.live PROVE IsDir(t.pd[o])
    <3>1. IsDir(s.pd[o])
      BY DEF Core, Shape
    <3>2. QED
      BY <1>2, <3>1 DEF IsDir
  <2>3. QED
    BY <1>2, <2>1, <2>2 DEF Core, Shape
<1>10. Mapped(t)
  BY <1>1, <1>2, <1>5 DEF Core, Mapped
<1>11. ASSUME NEW o \in s.live PROVE s.dirpage[o] \in InUse(s.mem) \ {Q, T, N, A}
  <2>1. s.dirpage[o] \in Page /\ s.mem.type[s.dirpage[o]] = "pgtbl" /\ s.dirpage[o] # T
    BY <1>3 DEF Core, Shape, DirsOwn, T
  <2>2. s.dirpage[o] \in InUse(s.mem)
    BY <2>1 DEF InUse
  <2>3. QED
    BY <1>1, <1>2, <2>1, <2>2
<1>12. DirsOwn(t)
  <2> SUFFICES ASSUME NEW o \in s.live
               PROVE  /\ t.mem.type[s.dirpage[o]] = "pgtbl" /\ t.mem.ref[s.dirpage[o]] = 1
                      /\ \A x \in s.live : /\ s.dirpage[x] = s.dirpage[o] => x = o
                                           /\ \A j \in DOMAIN t.pd[x] : t.pd[x][j] # s.dirpage[o]
    BY <1>2 DEF DirsOwn
  <2>1. t.mem.type[s.dirpage[o]] = "pgtbl" /\ t.mem.ref[s.dirpage[o]] = 1
    BY <1>2, <1>11 DEF Core, DirsOwn
  <2>2. ASSUME NEW x \in s.live, NEW j \in DOMAIN t.pd[x] PROVE t.pd[x][j] # s.dirpage[o]
    <3>1. CASE x = p /\ j = i
      BY <1>2, <1>11, <3>1
    <3>2. CASE ~(x = p /\ j = i)
      BY <1>2, <3>2 DEF Core, DirsOwn
    <3>3. QED
      BY <3>1, <3>2
  <2>3. QED
    BY <2>1, <2>2 DEF Core, DirsOwn
<1>13. TablesUsed(t)
  <2> SUFFICES ASSUME NEW o \in s.live, NEW j \in DOMAIN t.pd[o]
               PROVE  /\ t.mem.type[t.pd[o][j]] = "pgtbl"
                      /\ t.mem.ref[t.pd[o][j]] >= Cardinality(Sharers(t, t.pd[o][j], j))
    BY <1>2 DEF TablesUsed
  <2>1. CASE t.pd[o][j] = N
    <3>1. o = p /\ j = i
      BY <1>1, <2>1
    <3>2. Sharers(t, N, i) = {p}
      BY <1>1, <1>2, <1>3 DEF Sharers
    <3>3. Cardinality({p}) = 1
      BY FS_Singleton
    <3>4. t.mem.ref[N] >= 1
      <4>1. CASE N = T /\ t.mem.ref[T] = s.mem.ref[T] /\ Sharers(s, T, i) \subseteq {p}
        <5>1. Sharers(s, T, i) = {p}
          BY <1>3, <4>1 DEF Sharers, T
        <5>2. s.mem.ref[T] >= Cardinality(Sharers(s, T, i))
          BY <1>3 DEF Core, TablesUsed, T
        <5>3. QED
          BY <3>3, <4>1, <5>1, <5>2
      <4>2. CASE t.mem.ref[N] = 1
        BY <4>2
      <4>3. QED
        BY <1>2, <4>1, <4>2
    <3>5. QED
      BY <1>2, <2>1, <3>1, <3>2, <3>3, <3>4
  <2>2. CASE t.pd[o][j] # N
    <3> DEFINE S == t.pd[o][j]
    <3>1. ~(o = p /\ j = i) /\ j \in DOMAIN s.pd[o] /\ S = s.pd[o][j]
      BY <1>2, <2>2
    <3>2. S \in InUse(s.mem) /\ s.mem.type[S] = "pgtbl" /\ s.mem.ref[S] >= Cardinality(Sharers(s, S, j))
      BY <1>1, <3>1 DEF Core, TablesUsed
    <3> HIDE DEF S
    <3>3. S # Q /\ t.mem.type[S] = "pgtbl" /\ S # N
      BY <1>1, <1>2, <2>2, <3>2 DEF S
    <3>4. CASE S # T
      <4>1. Sharers(t, S, j) = Sharers(s, S, j)
        <5> SUFFICES ASSUME NEW x \in s.live
                     PROVE  (j \in DOMAIN t.pd[x] /\ t.pd[x][j] = S) <=> (j \in DOMAIN s.pd[x] /\ s.pd[x][j] = S)
          BY <1>2 DEF Sharers
        <5>1. CASE x = p /\ j = i
          BY <1>2, <3>3, <3>4, <5>1 DEF T
        <5>2. CASE ~(x = p /\ j = i)
          BY <1>2, <5>2
        <5>3. QED
          BY <5>1, <5>2
      <4>2. t.mem.ref[S] = s.mem.ref[S]
        BY <1>2, <3>2, <3>3, <3>4
      <4>3. QED
        BY <3>2, <3>3, <4>1, <4>2 DEF S
    <3>5. CASE S = T
      <4>1. j = i /\ p \in Sharers(s, T, i)
        <5>1. s.pd[o][j] = s.pd[p][i]
          BY <3>1, <3>5 DEF T
        <5>2. j = i
          BY <1>3, <3>1, <5>1 DEF Core, TablesApart
        <5>3. QED
          BY <1>3, <5>2 DEF Sharers, T
      <4>2. Sharers(t, T, i) = Sharers(s, T, i) \ {p}
        <5> SUFFICES ASSUME NEW x \in s.live
                     PROVE  (i \in DOMAIN t.pd[x] /\ t.pd[x][i] = T) <=> (i \in DOMAIN s.pd[x] /\ s.pd[x][i] = T /\ x # p)
          BY <1>2 DEF Sharers
        <5>1. CASE x = p
          BY <1>2, <3>3, <3>5, <5>1
        <5>2. CASE x # p
          BY <1>2, <5>2
        <5>3. QED
          BY <5>1, <5>2
      <4>3. t.mem.ref[T] = s.mem.ref[T] - 1
        BY <1>2, <3>3, <3>5
      <4>4. IsFiniteSet(Sharers(s, T, i)) /\ Cardinality(Sharers(s, T, i)) \in Nat
        BY <1>8, FewHave
      <4>5. Cardinality(Sharers(s, T, i) \ {p}) = Cardinality(Sharers(s, T, i)) - 1
        BY <4>1, <4>4, FS_RemoveElement
      <4>6. s.mem.ref[T] \in Int
        BY <1>1, <1>8
      <4>7. QED
        BY <3>2, <3>3, <3>5, <4>1, <4>2, <4>3, <4>4, <4>5, <4>6 DEF S
    <3>6. QED
      BY <3>4, <3>5
  <2>3. QED
    BY <2>1, <2>2
<1>14. TablesApart(t)
  <2> SUFFICES ASSUME NEW o \in s.live, NEW x \in s.live, NEW j \in DOMAIN t.pd[o], NEW l \in DOMAIN t.pd[x],
                      t.pd[o][j] = t.pd[x][l]
               PROVE  /\ j = l
                      /\ o # x => j >= StackTable \/ (s.brk[x] = s.brk[o] /\ j <= LastTable(s.brk[o]))
    BY <1>2 DEF TablesApart
  <2>1. CASE t.pd[o][j] = N
    BY <1>1, <2>1
  <2>2. CASE t.pd[o][j] # N
    <3>1. j \in DOMAIN s.pd[o] /\ l \in DOMAIN s.pd[x] /\ s.pd[o][j] = t.pd[o][j] /\ s.pd[x][l] = t.pd[x][l]
      BY <1>2, <2>2
    <3>2. QED
      BY <3>1 DEF Core, TablesApart
  <2>3. QED
    BY <2>1, <2>2
<1>15. \A q \in Spare : q \in InUse(s.mem)
  BY DEF Core, SpareKept, Spare, InUse
<1>16. PagesUsed(t)
  <2> SUFFICES ASSUME NEW o \in s.live, NEW u \in Area(s, o)
               PROVE  t.mem.type[At(t, o, u)] = "user" /\ At(t, o, u) \notin Spare
    BY <1>2, <1>5 DEF PagesUsed
  <2>1. At(t, o, u) = IF o = p /\ u = v THEN A ELSE At(s, o, u)
    BY <1>6, <1>7
  <2>2. s.mem.type[At(s, o, u)] = "user" /\ At(s, o, u) \notin Spare /\ At(s, o, u) \in Page
    BY <1>6, SlotIs DEF Core, PagesUsed
  <2>3. At(s, o, u) \in InUse(s.mem)
    BY <2>2 DEF InUse
  <2>4. QED
    BY <1>1, <1>2, <1>15, <2>1, <2>2, <2>3
<1>17. SpareKept(t)
  BY <1>2, <1>15 DEF Core, SpareKept
<1>18. Having(t, A) = {<<p, v>>}
  <2>1. ASSUME NEW u \in s.live \X Addr
        PROVE  (Holds(t, u[1], u[2]) /\ At(t, u[1], u[2]) = A) <=> u = <<p, v>>
    <3>1. u[1] \in s.live /\ u[2] \in Addr /\ u = <<u[1], u[2]>>
      OBVIOUS
    <3>2. Holds(s, u[1], u[2]) => At(s, u[1], u[2]) # A
      <4> SUFFICES ASSUME Holds(s, u[1], u[2]) PROVE At(s, u[1], u[2]) # A
        OBVIOUS
      <4>1. u[2] \in Area(s, u[1])
        BY <3>1 DEF Core, Mapped
      <4>2. At(s, u[1], u[2]) \in Page /\ s.mem.type[At(s, u[1], u[2])] = "user"
        BY <3>1, <4>1, SlotIs DEF Core, PagesUsed
      <4>3. QED
        BY <1>1, <4>2 DEF InUse
    <3>3. QED
      BY <1>1, <1>7, <3>1, <3>2
  <2>2. QED
    BY <1>1, <1>2, <2>1 DEF Having
<1>19. \A q \in Page \ {A} : Having(t, q) = IF q = Q THEN Having(s, q) \ {<<p, v>>} ELSE Having(s, q)
  <2> SUFFICES ASSUME NEW q \in Page \ {A}, NEW u \in s.live \X Addr
               PROVE  (Holds(t, u[1], u[2]) /\ At(t, u[1], u[2]) = q) <=>
                      (Holds(s, u[1], u[2]) /\ At(s, u[1], u[2]) = q /\ (q = Q => u # <<p, v>>))
    BY <1>2 DEF Having
  <2>1. u[1] \in s.live /\ u[2] \in Addr /\ u = <<u[1], u[2]>>
    OBVIOUS
  <2>2. QED
    BY <1>1, <1>7, <2>1 DEF Q
<1>20. Counted(t)
  <2> SUFFICES ASSUME NEW q \in Page \ Spare, t.mem.type[q] = "user"
               PROVE  t.mem.ref[q] = Cardinality(Having(t, q))
    BY DEF Counted
  <2>1. CASE q = A
    <3>1. Cardinality({<<p, v>>}) = 1
      BY FS_Singleton
    <3>2. QED
      BY <1>2, <1>18, <2>1, <3>1
  <2>2. q # A => q \in InUse(s.mem) /\ s.mem.type[q] = "user" /\ s.mem.ref[q] = Cardinality(Having(s, q))
    <3>1. q \in InUse(t.mem)
      BY DEF InUse
    <3>2. q # A => q \in InUse(s.mem) /\ s.mem.type[q] = "user"
      BY <1>2, <3>1
    <3>3. QED
      BY <3>2 DEF Core, Counted
  <2>3. CASE q = Q
    <3>1. <<p, v>> \in Having(s, Q)
      BY <1>1 DEF Having, Q
    <3>2. IsFiniteSet(Having(s, Q)) /\ Cardinality(Having(s, Q)) \in Nat
      BY <1>8, FewHave
    <3>3. Cardinality(Having(s, Q) \ {<<p, v>>}) = Cardinality(Having(s, Q)) - 1
      BY <3>1, <3>2, FS_RemoveElement
    <3>4. QED
      BY <1>1, <1>2, <1>19, <2>2, <2>3, <3>3
  <2>4. CASE q # A /\ q # Q
    <3>1. q # T
      BY <1>1, <2>2, <2>4
    <3>2. t.mem.ref[q] = s.mem.ref[q]
      BY <1>2, <2>2, <2>4, <3>1
    <3>3. QED
      BY <1>19, <2>2, <2>4, <3>2
  <2>5. QED
    BY <2>1, <2>3, <2>4
<1>21. WritableOnce(t)
  <2> SUFFICES ASSUME NEW o \in s.live, NEW u \in Area(s, o), Slot(t, o, u).w
               PROVE  t.mem.ref[At(t, o, u)] = 1
    BY <1>2, <1>5 DEF WritableOnce
  <2>1. CASE o = p /\ u = v
    BY <1>2, <1>6, <1>7, <2>1
  <2>2. CASE ~(o = p /\ u = v)
    <3> DEFINE P == At(s, o, u)
    <3>1. u \in Addr /\ Holds(s, o, u) /\ Slot(s, o, u).w /\ At(t, o, u) = P
      BY <1>1, <1>6, <1>7, <2>2
    <3>2. P \in Page \ Spare /\ s.mem.type[P] = "user" /\ s.mem.ref[P] = 1
      BY <3>1, SlotIs DEF Core, PagesUsed, WritableOnce
    <3>3. P # Q
      <4> SUFFICES ASSUME P = Q PROVE FALSE
        OBVIOUS
      <4>1. <<p, v>> \in Having(s, P) /\ <<o, u>> \in Having(s, P)
        BY <1>1, <3>1 DEF Having, Q
      <4>2. Cardinality(Having(s, P)) = 1 /\ IsFiniteSet(Having(s, P))
        BY <1>8, <3>2, FewHave DEF Core, Counted
      <4>3. <<p, v>> # <<o, u>>
        BY <2>2
      <4> HIDE DEF P
      <4>4. \E x : Having(s, P) = {x}
        BY <4>2, FS_Singleton
      <4>5. QED
        BY <4>1, <4>3, <4>4
    <3>4. P \in InUse(s.mem) /\ P # T
      BY <1>1, <3>2 DEF InUse
    <3>5. QED
      BY <1>2, <3>1, <3>2, <3>3, <3>4
  <2>3. QED
    BY <2>1, <2>2
<1>22. QED
  BY <1>9, <1>10, <1>12, <1>13, <1>14, <1>16, <1>17, <1>20, <1>21 DEF Core

\* The places of a set in one process.
LEMMA Column ==
  ASSUME NEW c, NEW S, IsFiniteSet(S)
  PROVE  IsFiniteSet({c} \X S) /\ Cardinality({c} \X S) = Cardinality(S) /\ Cardinality(S) \in Nat
<1>1. IsFiniteSet({c}) /\ Cardinality({c}) = 1
  BY FS_Singleton
<1>2. IsFiniteSet({c} \X S) /\ Cardinality({c} \X S) = 1 * Cardinality(S)
  BY <1>1, FS_Product
<1>3. Cardinality(S) \in Nat
  BY FS_CardinalityType
<1>4. QED
  BY <1>2, <1>3

\* What fork does to a process u and its child c, with the directory D, before the
\* child gets pages of its own.
ShareAll(s, t, u, c, D) ==
  LET tables == [i \in TablesOf(s.brk[u]) |-> s.pd[u][i]]
      phys   == [v \in Area(s, u) |-> At(s, u, v)] IN
  /\ c \in Pid \ s.live /\ D \in Page \ InUse(s.mem)
  /\ MemOK(t.mem) /\ InUse(t.mem) = InUse(s.mem) \cup {D} /\ t.mem.type[D] = "pgtbl"
  /\ t.mem.ref[D] = 1 + Times(tables, D) + Times(phys, D)
  /\ \A q \in InUse(s.mem) : /\ t.mem.type[q] = s.mem.type[q]
                             /\ t.mem.ref[q] = s.mem.ref[q] + Times(tables, q) + Times(phys, q)
  /\ t.live = s.live \cup {c}
  /\ t.pd[c] = tables /\ t.dirpage[c] = D /\ t.brk[c] = s.brk[u]
  /\ \A o \in s.live : t.pd[o] = s.pd[o] /\ t.dirpage[o] = s.dirpage[o] /\ t.brk[o] = s.brk[o]
  /\ \A q \in Page : DOMAIN t.tab[q] = DOMAIN s.tab[q]
  /\ \A q \in Page : \A k \in DOMAIN s.tab[q] :
       t.tab[q][k] = [page |-> s.tab[q][k].page,
                      w |-> s.tab[q][k].w /\ \A v \in Area(s, u) : s.pd[u][v \div Pte] = q => v % Pte # k]

\* All processes have what they had, and the child the same as its parent; what is
\* still writable is none of theirs.
ShareView(s, t, u, c) ==
  /\ \A o \in s.live, x \in Addr : Holds(t, o, x) <=> Holds(s, o, x)
  /\ \A x \in Addr : Holds(t, c, x) <=> Holds(s, u, x)
  /\ \A o \in s.live, x \in Addr : Holds(s, o, x) =>
       /\ At(t, o, x) = At(s, o, x)
       /\ Slot(t, o, x).w => Slot(s, o, x).w /\ o # u
  /\ \A x \in Addr : Holds(s, u, x) => At(t, c, x) = At(s, u, x) /\ ~Slot(t, c, x).w

\* What sharing everything changes for the processes.
LEMMA SharedView ==
  ASSUME NEW s, Core(s), NEW t, NEW u \in s.live, NEW c, NEW D, ShareAll(s, t, u, c, D)
  PROVE  ShareView(s, t, u, c)
<1> DEFINE Theirs(q, k) == \A v \in Area(s, u) : s.pd[u][v \div Pte] = q => v % Pte # k
<1>1. /\ t.pd[c] = [i \in TablesOf(s.brk[u]) |-> s.pd[u][i]]
      /\ \A o \in s.live : t.pd[o] = s.pd[o]
      /\ \A q \in Page : DOMAIN t.tab[q] = DOMAIN s.tab[q]
      /\ \A q \in Page : \A k \in DOMAIN s.tab[q] :
           t.tab[q][k] = [page |-> s.tab[q][k].page, w |-> s.tab[q][k].w /\ Theirs(q, k)]
  BY DEF ShareAll
<1>2. Area(s, u) \subseteq Addr /\ Break(s.brk[u]) /\ TablesOf(s.brk[u]) \subseteq DOMAIN s.pd[u]
  BY AreaIs DEF Core
<1>3. \A x \in Addr : Holds(s, u, x) <=> x \in Area(s, u)
  BY DEF Core, Mapped
<1>4. \A o \in s.live : \A i \in DOMAIN s.pd[o] : s.pd[o][i] \in Page
  BY DEF Core, Shape, IsDir
<1>5. ASSUME NEW o \in s.live, NEW x \in Addr
      PROVE  /\ Holds(t, o, x) <=> Holds(s, o, x)
             /\ Holds(s, o, x) =>
                  /\ At(t, o, x) = At(s, o, x)
                  /\ Slot(t, o, x).w <=> Slot(s, o, x).w /\ Theirs(s.pd[o][x \div Pte], x % Pte)
  <2> HIDE DEF Theirs
  <2> DEFINE j == x \div Pte
             l == x % Pte
             S == s.pd[o][j]
  <2>1. (Holds(s, o, x) <=> j \in DOMAIN s.pd[o] /\ l \in DOMAIN s.tab[S]) /\ Slot(s, o, x) = s.tab[S][l]
    BY DEF Holds, Slot
  <2>2. (Holds(t, o, x) <=> j \in DOMAIN s.pd[o] /\ l \in DOMAIN t.tab[S]) /\ Slot(t, o, x) = t.tab[S][l]
    BY <1>1 DEF Holds, Slot
  <2>3. j \in DOMAIN s.pd[o] => S \in Page
    BY <1>4
  <2> HIDE DEF j, l, S
  <2>4. Holds(s, o, x) => Slot(t, o, x) = [page |-> Slot(s, o, x).page, w |-> Slot(s, o, x).w /\ Theirs(S, l)]
    BY <1>1, <2>1, <2>2, <2>3
  <2>5. Holds(s, o, x) => Slot(t, o, x).page = Slot(s, o, x).page /\ (Slot(t, o, x).w <=> Slot(s, o, x).w /\ Theirs(S, l))
    <3> DEFINE W == Slot(s, o, x).w /\ Theirs(S, l)
    <3>1. Holds(s, o, x) => Slot(t, o, x) = [page |-> Slot(s, o, x).page, w |-> W]
      BY <2>4
    <3> HIDE DEF W
    <3>2. Holds(s, o, x) => Slot(t, o, x).page = Slot(s, o, x).page /\ Slot(t, o, x).w = W
      BY <3>1
    <3>3. Holds(s, o, x) => Slot(t, o, x).page = Slot(s, o, x).page /\ (Slot(t, o, x).w <=> W)
      BY <3>2
    <3>4. QED
      BY <3>3 DEF W
  <2>6. QED
    BY <1>1, <2>1, <2>2, <2>3, <2>5, Zenon DEF At, S, j, l
<1>6. ASSUME NEW x \in Addr, Holds(s, u, x) PROVE ~Theirs(s.pd[u][x \div Pte], x % Pte)
  BY <1>3, <1>6
<1>7. ASSUME NEW x \in Addr
      PROVE  /\ Holds(t, c, x) <=> Holds(s, u, x)
             /\ Holds(s, u, x) => Slot(t, c, x) = Slot(t, u, x)
  <2> DEFINE j == x \div Pte
  <2>1. j \in TablesOf(s.brk[u]) => j \in DOMAIN s.pd[u] /\ t.pd[c][j] = s.pd[u][j] /\ t.pd[u][j] = s.pd[u][j]
    BY <1>1, <1>2
  <2>2. Holds(s, u, x) => j \in TablesOf(s.brk[u])
    BY <1>2, <1>3, AreaPlace DEF Area
  <2>3. DOMAIN t.pd[c] = TablesOf(s.brk[u])
    BY <1>1
  <2> HIDE DEF j
  <2>4. Holds(t, c, x) => Holds(t, u, x)
    BY <1>1, <2>1, <2>3 DEF Holds, j
  <2>5. Holds(s, u, x) => Holds(t, c, x) /\ Slot(t, c, x) = Slot(t, u, x)
    <3> SUFFICES ASSUME Holds(s, u, x) PROVE Holds(t, c, x) /\ Slot(t, c, x) = Slot(t, u, x)
      OBVIOUS
    <3>1. Holds(t, u, x)
      BY <1>5
    <3>2. QED
      BY <2>1, <2>2, <2>3, <3>1 DEF Holds, Slot, j
  <2>6. QED
    BY <1>5, <2>4, <2>5
<1>8. ASSUME NEW o \in s.live, NEW x \in Addr, Holds(s, o, x), Slot(t, o, x).w
      PROVE  Slot(s, o, x).w /\ o # u
  BY <1>5, <1>6, <1>8
<1>9. ASSUME NEW x \in Addr, Holds(s, u, x) PROVE At(t, c, x) = At(s, u, x) /\ ~Slot(t, c, x).w
  <2>1. Slot(t, c, x) = Slot(t, u, x) /\ At(t, u, x) = At(s, u, x) /\ ~Slot(t, u, x).w
    BY <1>5, <1>6, <1>7, <1>9
  <2>2. QED
    BY <2>1 DEF At
<1> HIDE DEF Theirs
<1>10. QED
  BY <1>5, <1>7, <1>8, <1>9 DEF ShareView

\* Sharing everything keeps the state right.
LEMMA AllShared ==
  ASSUME NEW s, Core(s), NEW t, NEW u \in s.live, NEW c, NEW D, ShareAll(s, t, u, c, D)
  PROVE  Core(t)
<1> DEFINE tables == [i \in TablesOf(s.brk[u]) |-> s.pd[u][i]]
           phys   == [v \in Area(s, u) |-> At(s, u, v)]
           Live   == s.live \cup {c}
<1>1. /\ \A o \in s.live, x \in Addr : Holds(t, o, x) <=> Holds(s, o, x)
      /\ \A x \in Addr : Holds(t, c, x) <=> Holds(s, u, x)
      /\ \A o \in s.live, x \in Addr : Holds(s, o, x) =>
           /\ At(t, o, x) = At(s, o, x)
           /\ Slot(t, o, x).w => Slot(s, o, x).w /\ o # u
      /\ \A x \in Addr : Holds(s, u, x) => At(t, c, x) = At(s, u, x) /\ ~Slot(t, c, x).w
  <2>1. ShareView(s, t, u, c)
    BY SharedView
  <2>2. QED
    BY <2>1 DEF ShareView
<1>2. /\ c \in Pid /\ c \notin s.live /\ D \in Page /\ D \notin InUse(s.mem)
      /\ MemOK(t.mem) /\ InUse(t.mem) = InUse(s.mem) \cup {D} /\ t.mem.type[D] = "pgtbl"
      /\ t.mem.ref[D] = 1 + Times(tables, D) + Times(phys, D)
      /\ \A q \in InUse(s.mem) : /\ t.mem.type[q] = s.mem.type[q]
                                 /\ t.mem.ref[q] = s.mem.ref[q] + Times(tables, q) + Times(phys, q)
      /\ t.live = Live
      /\ t.pd[c] = tables /\ t.dirpage[c] = D /\ t.brk[c] = s.brk[u]
      /\ \A o \in s.live : t.pd[o] = s.pd[o] /\ t.dirpage[o] = s.dirpage[o] /\ t.brk[o] = s.brk[o]
      /\ \A q \in Page : DOMAIN t.tab[q] = DOMAIN s.tab[q]
  BY DEF ShareAll
<1>3. ASSUME NEW q \in Page, NEW k \in DOMAIN s.tab[q], s.tab[q][k].page \in Page
      PROVE  t.tab[q][k] \in [page : Page, w : BOOLEAN]
  <2> DEFINE W == s.tab[q][k].w /\ \A v \in Area(s, u) : s.pd[u][v \div Pte] = q => v % Pte # k
  <2>1. t.tab[q][k] = [page |-> s.tab[q][k].page, w |-> W]
    BY DEF ShareAll
  <2>2. W \in BOOLEAN
    OBVIOUS
  <2> HIDE DEF W
  <2>3. QED
    BY <1>3, <2>1, <2>2
<1>4. /\ Area(s, u) \subseteq Addr /\ Break(s.brk[u]) /\ TablesOf(s.brk[u]) \subseteq DOMAIN s.pd[u]
      /\ IsFiniteSet(TablesOf(s.brk[u])) /\ IsFiniteSet(Area(s, u)) /\ TablesOf(s.brk[u]) \subseteq Index
  BY AreaIs, AreaPlace DEF Core
<1>5. DOMAIN tables = TablesOf(s.brk[u]) /\ (\A i \in TablesOf(s.brk[u]) : tables[i] = s.pd[u][i])
      /\ DOMAIN phys = Area(s, u) /\ (\A v \in Area(s, u) : phys[v] = At(s, u, v))
  OBVIOUS
<1> HIDE DEF tables, phys
<1>6. \A o \in s.live : Area(t, o) = Area(s, o) /\ Area(s, o) \subseteq Addr
  BY <1>2, AreaIs DEF Area, Core
<1>7. Area(t, c) = Area(s, u)
  BY <1>2 DEF Area
<1>8. \A o \in s.live, x \in Addr : Holds(s, o, x) <=> x \in Area(s, o)
  BY DEF Core, Mapped
<1>9. \A o \in s.live : \A i \in DOMAIN s.pd[o] :
        s.pd[o][i] \in Page /\ s.pd[o][i] \in InUse(s.mem) /\ s.mem.type[s.pd[o][i]] = "pgtbl"
  BY DEF Core, Shape, IsDir, TablesUsed, InUse
<1>10. \A o \in s.live : \A x \in Area(s, o) :
         /\ At(s, o, x) \in Page /\ At(s, o, x) \in InUse(s.mem) /\ s.mem.type[At(s, o, x)] = "user"
         /\ At(s, o, x) \notin Spare /\ x \in Addr /\ Holds(s, o, x)
  <2> SUFFICES ASSUME NEW o \in s.live, NEW x \in Area(s, o)
               PROVE  /\ At(s, o, x) \in Page /\ At(s, o, x) \in InUse(s.mem) /\ s.mem.type[At(s, o, x)] = "user"
                      /\ At(s, o, x) \notin Spare /\ x \in Addr /\ Holds(s, o, x)
    OBVIOUS
  <2>1. x \in Addr /\ Holds(s, o, x)
    BY <1>6, <1>8
  <2>2. At(s, o, x) \in Page
    BY <2>1, SlotIs DEF Core
  <2>3. s.mem.type[At(s, o, x)] = "user" /\ At(s, o, x) \notin Spare
    BY DEF Core, PagesUsed
  <2>4. QED
    BY <2>1, <2>2, <2>3 DEF InUse
<1>11. s.mem.ref \in [Page -> Int] /\ InUse(s.mem) \subseteq Page /\ s.live \subseteq Pid /\ Live \subseteq Pid
  BY <1>2, RestIsNotInUse DEF Core, Shape
<1>12. \A q : /\ Times(tables, q) = Cardinality({i \in TablesOf(s.brk[u]) : s.pd[u][i] = q})
              /\ Times(phys, q) = Cardinality({v \in Area(s, u) : At(s, u, v) = q})
  <2> SUFFICES ASSUME NEW q
               PROVE  /\ Times(tables, q) = Cardinality({i \in TablesOf(s.brk[u]) : s.pd[u][i] = q})
                      /\ Times(phys, q) = Cardinality({v \in Area(s, u) : At(s, u, v) = q})
    OBVIOUS
  <2>1. {x \in DOMAIN tables : tables[x] = q} = {i \in TablesOf(s.brk[u]) : s.pd[u][i] = q}
    BY <1>5
  <2>2. {x \in DOMAIN phys : phys[x] = q} = {v \in Area(s, u) : At(s, u, v) = q}
    BY <1>5
  <2>3. QED
    BY <2>1, <2>2 DEF Times
\* A page that is no table of the parent gets no reference from one, ...
<1>13. ASSUME NEW q, \A i \in TablesOf(s.brk[u]) : s.pd[u][i] # q PROVE Times(tables, q) = 0
  <2>1. {i \in TablesOf(s.brk[u]) : s.pd[u][i] = q} = {}
    BY <1>13
  <2>2. QED
    BY <1>12, <2>1, FS_EmptySet
<1>14. ASSUME NEW q, \A v \in Area(s, u) : At(s, u, v) # q PROVE Times(phys, q) = 0
  <2>1. {v \in Area(s, u) : At(s, u, v) = q} = {}
    BY <1>14
  <2>2. QED
    BY <1>12, <2>1, FS_EmptySet
\* ... and a table of it one.
<1>15. ASSUME NEW i \in TablesOf(s.brk[u]) PROVE Times(tables, s.pd[u][i]) = 1
  <2>1. {j \in TablesOf(s.brk[u]) : s.pd[u][j] = s.pd[u][i]} = {i}
    BY <1>4 DEF Core, TablesApart
  <2>2. Cardinality({i}) = 1
    BY FS_Singleton
  <2>3. QED
    BY <1>12, <2>1, <2>2
<1>16. \A q : Times(tables, q) \in Nat /\ Times(phys, q) \in Nat
  <2> SUFFICES ASSUME NEW q PROVE Times(tables, q) \in Nat /\ Times(phys, q) \in Nat
    OBVIOUS
  <2> DEFINE I == {i \in TablesOf(s.brk[u]) : s.pd[u][i] = q}
             V == {v \in Area(s, u) : At(s, u, v) = q}
  <2>1. Times(tables, q) = Cardinality(I) /\ Times(phys, q) = Cardinality(V)
    BY <1>12
  <2>2. I \subseteq TablesOf(s.brk[u]) /\ V \subseteq Area(s, u)
    OBVIOUS
  <2> HIDE DEF I, V
  <2>3. Cardinality(I) \in Nat
    BY <1>4, <2>2, FS_Subset, FS_CardinalityType
  <2>4. Cardinality(V) \in Nat
    BY <1>4, <2>2, FS_Subset, FS_CardinalityType
  <2>5. QED
    BY <2>1, <2>3, <2>4
<1>17. Shape(t)
  <2>1. ASSUME NEW q \in Page PROVE IsTable(t.tab[q])
    <3>1. IsTable(s.tab[q])
      BY DEF Core, Shape
    <3>2. \A k \in DOMAIN s.tab[q] : s.tab[q][k].page \in Page
      BY <3>1 DEF IsTable
    <3>3. QED
      BY <1>2, <1>3, <3>1, <3>2 DEF IsTable
  <2>2. IsDir(t.pd[c])
    BY <1>2, <1>4, <1>5, <1>9 DEF IsDir
  <2>3. ASSUME NEW o \in s.live PROVE IsDir(t.pd[o]) /\ t.dirpage[o] \in Page /\ Break(t.brk[o])
    BY <1>2 DEF Core, Shape
  <2>4. QED
    BY <1>2, <1>4, <1>11, <2>1, <2>2, <2>3 DEF Shape
<1>18. Mapped(t)
  BY <1>1, <1>2, <1>6, <1>7, <1>8 DEF Mapped
<1>19. \A i \in TablesOf(s.brk[u]) : t.pd[c][i] = s.pd[u][i] /\ i \in DOMAIN s.pd[u]
  BY <1>2, <1>4, <1>5
<1>20. DOMAIN t.pd[c] = TablesOf(s.brk[u])
  BY <1>2, <1>5
<1>21. t.mem.ref[D] = 1
  <2>1. \A i \in TablesOf(s.brk[u]) : s.pd[u][i] # D
    BY <1>2, <1>9, <1>19
  <2>2. \A v \in Area(s, u) : At(s, u, v) # D
    BY <1>2, <1>10
  <2>3. QED
    BY <1>2, <1>13, <1>14, <2>1, <2>2
<1>22. DirsOwn(t)
  <2>1. ASSUME NEW o \in s.live
        PROVE  /\ s.dirpage[o] \in InUse(s.mem) /\ s.mem.type[s.dirpage[o]] = "pgtbl" /\ s.mem.ref[s.dirpage[o]] = 1
               /\ t.mem.ref[s.dirpage[o]] = 1
    <3>1. /\ s.dirpage[o] \in Page /\ s.mem.type[s.dirpage[o]] = "pgtbl" /\ s.mem.ref[s.dirpage[o]] = 1
          /\ \A i \in DOMAIN s.pd[u] : s.pd[u][i] # s.dirpage[o]
      BY DEF Core, Shape, DirsOwn
    <3>2. s.dirpage[o] \in InUse(s.mem)
      BY <3>1 DEF InUse
    <3>3. Times(tables, s.dirpage[o]) = 0 /\ Times(phys, s.dirpage[o]) = 0
      BY <1>10, <1>13, <1>14, <1>19, <3>1
    <3>4. QED
      BY <1>2, <3>1, <3>2, <3>3
  <2> SUFFICES ASSUME NEW o \in Live
               PROVE  /\ t.mem.type[t.dirpage[o]] = "pgtbl" /\ t.mem.ref[t.dirpage[o]] = 1
                      /\ \A x \in Live : /\ t.dirpage[x] = t.dirpage[o] => x = o
                                         /\ \A j \in DOMAIN t.pd[x] : t.pd[x][j] # t.dirpage[o]
    BY <1>2 DEF DirsOwn
  <2>2. t.mem.type[t.dirpage[o]] = "pgtbl" /\ t.mem.ref[t.dirpage[o]] = 1
    BY <1>2, <1>21, <2>1
  <2>3. ASSUME NEW x \in Live PROVE t.dirpage[x] = t.dirpage[o] => x = o
    <3>1. CASE o = c
      BY <1>2, <2>1, <3>1
    <3>2. CASE x = c
      BY <1>2, <2>1, <3>2
    <3>3. CASE o \in s.live /\ x \in s.live
      BY <1>2, <3>3 DEF Core, DirsOwn
    <3>4. QED
      BY <3>1, <3>2, <3>3
  <2>4. ASSUME NEW x \in Live, NEW j \in DOMAIN t.pd[x] PROVE t.pd[x][j] # t.dirpage[o]
    <3>1. \E y \in s.live : j \in DOMAIN s.pd[y] /\ s.pd[y][j] = t.pd[x][j]
      BY <1>2, <1>19, <1>20
    <3>2. PICK y \in s.live : j \in DOMAIN s.pd[y] /\ s.pd[y][j] = t.pd[x][j]
      BY <3>1
    <3>3. CASE o = c
      BY <1>2, <1>9, <3>2, <3>3
    <3>4. CASE o \in s.live
      BY <1>2, <3>2, <3>4 DEF Core, DirsOwn
    <3>5. QED
      BY <3>3, <3>4
  <2>5. QED
    BY <2>2, <2>3, <2>4
\* Each table in t is one in s.
<1>23. ASSUME NEW o \in Live, NEW j \in DOMAIN t.pd[o]
       PROVE  /\ o # c => o \in s.live /\ j \in DOMAIN s.pd[o] /\ t.pd[o][j] = s.pd[o][j]
              /\ o = c => j \in TablesOf(s.brk[u]) /\ j \in DOMAIN s.pd[u] /\ t.pd[o][j] = s.pd[u][j]
  BY <1>2, <1>19, <1>20
<1>24. TablesUsed(t)
  <2> SUFFICES ASSUME NEW o \in Live, NEW j \in DOMAIN t.pd[o]
               PROVE  /\ t.mem.type[t.pd[o][j]] = "pgtbl"
                      /\ t.mem.ref[t.pd[o][j]] >= Cardinality(Sharers(t, t.pd[o][j], j))
    BY <1>2 DEF TablesUsed
  <2> DEFINE S == t.pd[o][j]
  <2>1. \E y \in s.live : j \in DOMAIN s.pd[y] /\ s.pd[y][j] = S
    BY <1>23
  <2>2. S \in InUse(s.mem) /\ s.mem.type[S] = "pgtbl" /\ s.mem.ref[S] >= Cardinality(Sharers(s, S, j)) /\ S \in Page
    BY <1>9, <2>1 DEF Core, TablesUsed
  <2> HIDE DEF S
  <2>3. Times(phys, S) = 0
    BY <1>10, <1>14, <2>2
  <2>4. t.mem.type[S] = "pgtbl" /\ t.mem.ref[S] = s.mem.ref[S] + Times(tables, S) /\ s.mem.ref[S] \in Int
    BY <1>2, <1>11, <1>16, <2>2, <2>3
  <2>5. IsFiniteSet(Sharers(s, S, j)) /\ Cardinality(Sharers(s, S, j)) \in Nat
    BY <1>11, FewHave
  <2>6. CASE j \in TablesOf(s.brk[u]) /\ s.pd[u][j] = S
    <3>1. Times(tables, S) = 1
      BY <1>15, <2>6
    <3>2. Sharers(t, S, j) = Sharers(s, S, j) \cup {c}
      <4> SUFFICES ASSUME NEW x \in Live
                   PROVE  (j \in DOMAIN t.pd[x] /\ t.pd[x][j] = S) <=> ((x \in s.live /\ j \in DOMAIN s.pd[x] /\ s.pd[x][j] = S) \/ x = c)
        BY <1>2 DEF Sharers
      <4>1. CASE x = c
        BY <1>2, <1>19, <1>20, <2>6, <4>1
      <4>2. CASE x # c
        BY <1>2, <4>2
      <4>3. QED
        BY <4>1, <4>2
    <3>3. c \notin Sharers(s, S, j)
      BY <1>2 DEF Sharers
    <3>4. Cardinality(Sharers(s, S, j) \cup {c}) = Cardinality(Sharers(s, S, j)) + 1
      BY <2>5, <3>3, FS_AddElement
    <3>5. QED
      BY <2>2, <2>4, <2>5, <3>1, <3>2, <3>4 DEF S
  <2>7. CASE ~(j \in TablesOf(s.brk[u]) /\ s.pd[u][j] = S)
    <3>1. Sharers(t, S, j) = Sharers(s, S, j)
      <4> SUFFICES ASSUME NEW x \in Live
                   PROVE  (j \in DOMAIN t.pd[x] /\ t.pd[x][j] = S) <=> (x \in s.live /\ j \in DOMAIN s.pd[x] /\ s.pd[x][j] = S)
        BY <1>2 DEF Sharers
      <4>1. CASE x = c
        BY <1>2, <1>19, <1>20, <2>7, <4>1
      <4>2. CASE x # c
        BY <1>2, <4>2
      <4>3. QED
        BY <4>1, <4>2
    <3>2. Times(tables, S) \in Nat
      BY <1>16
    <3>3. QED
      BY <2>2, <2>4, <2>5, <3>1, <3>2 DEF S
  <2>8. QED
    BY <2>6, <2>7
<1>25. TablesApart(t)
  <2> SUFFICES ASSUME NEW o \in Live, NEW x \in Live, NEW j \in DOMAIN t.pd[o], NEW l \in DOMAIN t.pd[x],
                      t.pd[o][j] = t.pd[x][l]
               PROVE  /\ j = l
                      /\ o # x => j >= StackTable \/ (t.brk[x] = t.brk[o] /\ j <= LastTable(t.brk[o]))
    BY <1>2 DEF TablesApart
  <2> DEFINE y == IF o = c THEN u ELSE o
             z == IF x = c THEN u ELSE x
  <2>1. y \in s.live /\ j \in DOMAIN s.pd[y] /\ t.pd[o][j] = s.pd[y][j] /\ t.brk[o] = s.brk[y]
    BY <1>2, <1>23
  <2>2. z \in s.live /\ l \in DOMAIN s.pd[z] /\ t.pd[x][l] = s.pd[z][l] /\ t.brk[x] = s.brk[z]
    BY <1>2, <1>23
  <2>3. s.pd[y][j] = s.pd[z][l]
    BY <2>1, <2>2
  <2>4. (o = c \/ x = c) => j \in TablesOf(s.brk[u]) \/ l \in TablesOf(s.brk[u])
    BY <1>23
  <2>5. (y = z /\ o # x) => (o = c \/ x = c) /\ y = u
    OBVIOUS
  <2> HIDE DEF y, z
  <2>6. j = l /\ (y # z => j >= StackTable \/ (s.brk[z] = s.brk[y] /\ j <= LastTable(s.brk[y])))
    BY <2>1, <2>2, <2>3 DEF Core, TablesApart
  <2>7. CASE y # z
    BY <2>1, <2>2, <2>6, <2>7
  <2>8. CASE y = z /\ o # x
    <3>1. j \in TablesOf(s.brk[u]) /\ t.brk[o] = s.brk[u] /\ t.brk[x] = s.brk[u]
      BY <2>1, <2>2, <2>4, <2>5, <2>6, <2>8
    <3>2. LastTable(s.brk[u]) \in Nat /\ StackTable \in Nat
      BY <1>4, ProgramPlace, StackPlace
    <3>3. QED
      BY <2>6, <3>1, <3>2 DEF TablesOf
  <2>9. QED
    BY <2>6, <2>7, <2>8
<1>26. PagesUsed(t)
  <2> SUFFICES ASSUME NEW o \in Live, NEW x \in Area(t, o)
               PROVE  t.mem.type[At(t, o, x)] = "user" /\ At(t, o, x) \notin Spare
    BY <1>2 DEF PagesUsed
  <2>1. CASE o \in s.live
    BY <1>1, <1>2, <1>6, <1>10, <2>1
  <2>2. CASE o = c
    BY <1>1, <1>2, <1>7, <1>10, <2>2
  <2>3. QED
    BY <2>1, <2>2
<1>27. SpareKept(t)
  BY <1>2 DEF Core, SpareKept, Spare, InUse
<1>28. ASSUME NEW q \in Page
       PROVE  /\ Cardinality(Having(t, q)) = Cardinality(Having(s, q)) + Times(phys, q)
              /\ IsFiniteSet(Having(s, q)) /\ Cardinality(Having(s, q)) \in Nat
  <2> DEFINE S == {v \in Area(s, u) : At(s, u, v) = q}
             H == Having(s, q)
             C == {c} \X S
  <2>1. S \subseteq Area(s, u)
    OBVIOUS
  <2>2. IsFiniteSet(S) /\ Times(phys, q) = Cardinality(S)
    BY <1>4, <1>12, <2>1, FS_Subset
  <2>3. IsFiniteSet(H) /\ Cardinality(H) \in Nat
    BY <1>11, FewHave
  <2>4. Having(t, q) = H \cup C
    <3>1. ASSUME NEW x \in Live \X Addr
          PROVE  (Holds(t, x[1], x[2]) /\ At(t, x[1], x[2]) = q) <=> (x \in H \/ x \in C)
      <4>1. x[1] \in Live /\ x[2] \in Addr /\ x = <<x[1], x[2]>>
        OBVIOUS
      <4>2. CASE x[1] = c
        <5>1. x \notin H
          BY <1>2, <4>1, <4>2 DEF Having
        <5>2. x \in C <=> x[2] \in S
          BY <4>1, <4>2
        <5>3. x[2] \in S <=> Holds(s, u, x[2]) /\ At(s, u, x[2]) = q
          BY <1>8, <4>1
        <5> HIDE DEF S, H, C
        <5>4. QED
          BY <1>1, <4>1, <4>2, <5>1, <5>2, <5>3
      <4>3. CASE x[1] # c
        <5>1. x[1] \in s.live /\ x \notin C
          BY <4>1, <4>3
        <5>2. x \in H <=> Holds(s, x[1], x[2]) /\ At(s, x[1], x[2]) = q
          BY <4>1, <5>1 DEF Having
        <5> HIDE DEF S, H, C
        <5>3. QED
          BY <1>1, <4>1, <5>1, <5>2
      <4>4. QED
        BY <4>2, <4>3
    <3>2. H \subseteq Live \X Addr /\ C \subseteq Live \X Addr
      BY <1>4 DEF Having
    <3>3. Having(t, q) = {x \in Live \X Addr : Holds(t, x[1], x[2]) /\ At(t, x[1], x[2]) = q}
      BY <1>2 DEF Having
    <3> HIDE DEF S, H, C, Live
    <3>4. QED
      BY <3>1, <3>2, <3>3
  <2>5. H \cap C = {}
    BY <1>2 DEF Having
  <2> HIDE DEF S, H, C
  <2>6. IsFiniteSet(C) /\ Cardinality(C) = Cardinality(S) /\ Cardinality(S) \in Nat
    BY <2>2, Column DEF C
  <2>7. Cardinality(H \cup C) = Cardinality(H) + Cardinality(C) - Cardinality(H \cap C)
    BY <2>3, <2>6, FS_Union
  <2>8. Cardinality(H \cap C) = 0
    BY <2>5, FS_EmptySet
  <2>9. QED
    BY <2>2, <2>3, <2>4, <2>6, <2>7, <2>8 DEF H
<1>29. ASSUME NEW q \in Page, t.mem.type[q] = "user"
       PROVE  q \in InUse(s.mem) /\ s.mem.type[q] = "user" /\ t.mem.ref[q] = s.mem.ref[q] + Times(phys, q)
              /\ s.mem.ref[q] \in Int
  <2>1. q \in InUse(t.mem)
    BY <1>29 DEF InUse
  <2>2. q \in InUse(s.mem) /\ s.mem.type[q] = "user"
    BY <1>2, <1>29, <2>1
  <2>3. \A i \in TablesOf(s.brk[u]) : s.pd[u][i] # q
    BY <1>9, <1>19, <2>2
  <2>4. Times(tables, q) = 0
    BY <1>13, <2>3
  <2>5. QED
    BY <1>2, <1>11, <1>16, <2>2, <2>4
<1>30. Counted(t)
  <2> SUFFICES ASSUME NEW q \in Page \ Spare, t.mem.type[q] = "user"
               PROVE  t.mem.ref[q] = Cardinality(Having(t, q))
    BY DEF Counted
  <2>1. s.mem.type[q] = "user" /\ t.mem.ref[q] = s.mem.ref[q] + Times(phys, q)
    BY <1>29
  <2>2. s.mem.ref[q] = Cardinality(Having(s, q))
    BY <2>1 DEF Core, Counted
  <2>3. QED
    BY <1>28, <2>1, <2>2
<1>31. WritableOnce(t)
  <2> SUFFICES ASSUME NEW o \in Live, NEW x \in Area(t, o), Slot(t, o, x).w
               PROVE  t.mem.ref[At(t, o, x)] = 1
    BY <1>2 DEF WritableOnce
  <2>1. o # c
    <3> SUFFICES ASSUME o = c PROVE FALSE
      OBVIOUS
    <3>1. x \in Area(s, u)
      BY <1>7
    <3>2. QED
      BY <1>1, <1>10, <3>1
  <2>2. o \in s.live /\ x \in Area(s, o) /\ x \in Addr /\ Holds(s, o, x)
    BY <1>6, <1>10, <2>1
  <2> DEFINE P == At(s, o, x)
  <2>3. At(t, o, x) = P /\ Slot(s, o, x).w /\ o # u
    BY <1>1, <2>2
  <2>4. P \in Page \ Spare /\ s.mem.type[P] = "user" /\ s.mem.ref[P] = 1 /\ P \in InUse(s.mem)
    BY <1>10, <2>2, <2>3 DEF Core, WritableOnce
  <2>5. \A v \in Area(s, u) : At(s, u, v) # P
    <3> SUFFICES ASSUME NEW v \in Area(s, u), At(s, u, v) = P PROVE FALSE
      OBVIOUS
    <3>1. v \in Addr /\ Holds(s, u, v)
      BY <1>10
    <3>2. <<u, v>> \in Having(s, P) /\ <<o, x>> \in Having(s, P)
      BY <2>2, <3>1 DEF Having
    <3>3. Cardinality(Having(s, P)) = 1 /\ IsFiniteSet(Having(s, P))
      BY <1>28, <2>4 DEF Core, Counted
    <3>4. \E y : Having(s, P) = {y}
      BY <3>3, FS_Singleton
    <3>5. <<u, v>> # <<o, x>>
      BY <2>3
    <3>6. QED
      BY <3>2, <3>4, <3>5
  <2>6. Times(phys, P) = 0
    BY <1>14, <2>5
  <2>7. Times(tables, P) = 0
    <3>1. \A i \in TablesOf(s.brk[u]) : s.pd[u][i] # P
      BY <1>9, <1>19, <2>4
    <3>2. QED
      BY <1>13, <3>1
  <2>8. t.mem.ref[P] = s.mem.ref[P] + 0 + 0
    BY <1>2, <2>4, <2>6, <2>7
  <2>9. QED
    BY <2>3, <2>4, <2>8
<1>32. QED
  BY <1>17, <1>18, <1>22, <1>24, <1>25, <1>26, <1>27, <1>30, <1>31 DEF Core

\* What free_proc does to a process p: c references of each page are gone, those to
\* the pages of p and at most one to each of its page tables, and the directory.
GaveUp(s, t, p, n, c) ==
  /\ c \in [Page -> Nat]
  /\ Lowered(s.mem, n, c) /\ Lost(n, t.mem, s.dirpage[p])
  /\ \A q \in InUse(s.mem) :
       /\ s.mem.type[q] = "user" => c[q] = Cardinality({v \in Area(s, p) : At(s, p, v) = q})
       /\ s.mem.type[q] # "user" /\ c[q] # 0 => c[q] = 1 /\ \E i \in DOMAIN s.pd[p] : s.pd[p][i] = q
  /\ t.live = s.live \ {p} /\ t.tab = s.tab
  /\ \A o \in t.live : t.pd[o] = s.pd[o] /\ t.dirpage[o] = s.dirpage[o] /\ t.brk[o] = s.brk[o]

\* The others keep what they have.
LEMMA Exited ==
  ASSUME NEW s, Core(s), NEW t, NEW p \in s.live, NEW n, NEW c, GaveUp(s, t, p, n, c)
  PROVE  Core(t)
<1> DEFINE Live == s.live \ {p}
           E == s.dirpage[p]
<1>1. /\ c \in [Page -> Nat]
      /\ MemOK(n) /\ InUse(n) \subseteq InUse(s.mem)
      /\ \A q \in InUse(s.mem) :
           IF c[q] = 0 \/ c[q] < s.mem.ref[q]
           THEN q \in InUse(n) /\ n.type[q] = s.mem.type[q] /\ n.ref[q] = s.mem.ref[q] - c[q]
           ELSE q \notin InUse(n)
      /\ MemOK(t.mem) /\ InUse(t.mem) = InUse(n) \ {E}
      /\ \A q \in InUse(t.mem) : t.mem.type[q] = n.type[q] /\ t.mem.ref[q] = n.ref[q]
      /\ \A q \in InUse(s.mem) :
           /\ s.mem.type[q] = "user" => c[q] = Cardinality({v \in Area(s, p) : At(s, p, v) = q})
           /\ s.mem.type[q] # "user" /\ c[q] # 0 => c[q] = 1 /\ \E i \in DOMAIN s.pd[p] : s.pd[p][i] = q
      /\ t.live = Live /\ t.tab = s.tab
      /\ \A o \in Live : t.pd[o] = s.pd[o] /\ t.dirpage[o] = s.dirpage[o] /\ t.brk[o] = s.brk[o]
  BY DEF GaveUp, Lowered, Lost
<1> HIDE DEF E
<1>2. /\ s.mem.ref \in [Page -> Int] /\ InUse(s.mem) \subseteq Page /\ s.live \subseteq Pid
      /\ Area(s, p) \subseteq Addr /\ IsFiniteSet(Area(s, p))
  BY RestIsNotInUse, AreaIs DEF Core, Shape
<1>3. \A o \in Live : Area(t, o) = Area(s, o)
  BY <1>1 DEF Area
<1>4. \A o \in Live : \A x : (Holds(t, o, x) <=> Holds(s, o, x)) /\ Slot(t, o, x) = Slot(s, o, x) /\ At(t, o, x) = At(s, o, x)
  BY <1>1 DEF Holds, Slot, At
<1>5. \A o \in s.live : \A x \in Area(s, o) :
         /\ At(s, o, x) \in Page \ Spare /\ At(s, o, x) \in InUse(s.mem) /\ s.mem.type[At(s, o, x)] = "user"
         /\ x \in Addr /\ Holds(s, o, x)
  <2> SUFFICES ASSUME NEW o \in s.live, NEW x \in Area(s, o)
               PROVE  /\ At(s, o, x) \in Page \ Spare /\ At(s, o, x) \in InUse(s.mem) /\ s.mem.type[At(s, o, x)] = "user"
                      /\ x \in Addr /\ Holds(s, o, x)
    OBVIOUS
  <2>1. x \in Addr
    BY AreaIs DEF Core
  <2>2. Holds(s, o, x)
    BY <2>1 DEF Core, Mapped
  <2>3. At(s, o, x) \in Page
    BY <2>1, <2>2, SlotIs DEF Core
  <2>4. s.mem.type[At(s, o, x)] = "user" /\ At(s, o, x) \notin Spare
    BY DEF Core, PagesUsed
  <2>5. QED
    BY <2>1, <2>2, <2>3, <2>4 DEF InUse
<1>6. \A x \in Addr : Holds(s, p, x) <=> x \in Area(s, p)
  BY DEF Core, Mapped
\* The places that p had.
<1>7. ASSUME NEW q \in Page
      PROVE  /\ IsFiniteSet(Having(s, q)) /\ Cardinality(Having(s, q)) \in Nat
             /\ Cardinality({v \in Area(s, p) : At(s, p, v) = q}) \in Nat
             /\ Cardinality(Having(t, q)) = Cardinality(Having(s, q)) - Cardinality({v \in Area(s, p) : At(s, p, v) = q})
             /\ IsFiniteSet(Having(t, q)) /\ Cardinality(Having(t, q)) \in Nat
  <2> DEFINE S == {v \in Area(s, p) : At(s, p, v) = q}
             H == Having(s, q)
             C == {p} \X S
  <2>1. S \subseteq Area(s, p)
    OBVIOUS
  <2>2. IsFiniteSet(S)
    BY <1>2, <2>1, FS_Subset
  <2>3. IsFiniteSet(H) /\ Cardinality(H) \in Nat
    BY <1>2, FewHave
  <2>4. Having(t, q) = H \ C
    <3>1. ASSUME NEW x \in s.live \X Addr
          PROVE  (x \in Live \X Addr /\ Holds(t, x[1], x[2]) /\ At(t, x[1], x[2]) = q) <=> (x \in H /\ x \notin C)
      <4>1. x[1] \in s.live /\ x[2] \in Addr /\ x = <<x[1], x[2]>>
        OBVIOUS
      <4>2. CASE x[1] = p
        <5>1. x \in H <=> Holds(s, p, x[2]) /\ At(s, p, x[2]) = q
          BY <4>1, <4>2 DEF Having
        <5>2. x \in C <=> x[2] \in S
          BY <4>1, <4>2
        <5>3. x[2] \in S <=> Holds(s, p, x[2]) /\ At(s, p, x[2]) = q
          BY <1>6, <4>1
        <5>4. x \notin Live \X Addr
          BY <4>1, <4>2
        <5> HIDE DEF S, H, C
        <5>5. QED
          BY <5>1, <5>2, <5>3, <5>4
      <4>3. CASE x[1] # p
        <5>1. x[1] \in Live /\ x \notin C /\ x \in Live \X Addr
          BY <4>1, <4>3
        <5>2. x \in H <=> Holds(s, x[1], x[2]) /\ At(s, x[1], x[2]) = q
          BY <4>1 DEF Having
        <5> HIDE DEF S, H, C
        <5>3. QED
          BY <1>4, <4>1, <5>1, <5>2
      <4>4. QED
        BY <4>2, <4>3
    <3>2. H \subseteq s.live \X Addr /\ Live \X Addr \subseteq s.live \X Addr
      BY DEF Having
    <3>3. Having(t, q) = {x \in Live \X Addr : Holds(t, x[1], x[2]) /\ At(t, x[1], x[2]) = q}
      BY <1>1 DEF Having
    <3> HIDE DEF S, H, C, Live
    <3>4. QED
      BY <3>1, <3>2, <3>3
  <2>5. C \subseteq H
    <3> SUFFICES ASSUME NEW x \in C PROVE x \in H
      OBVIOUS
    <3>1. x = <<p, x[2]>> /\ x[2] \in Area(s, p) /\ At(s, p, x[2]) = q /\ x[1] = p
      OBVIOUS
    <3>2. QED
      BY <1>5, <3>1 DEF Having
  <2> HIDE DEF S, H, C
  <2>6. IsFiniteSet(C) /\ Cardinality(C) = Cardinality(S) /\ Cardinality(S) \in Nat
    BY <2>2, Column DEF C
  <2>7. Cardinality(H \ C) = Cardinality(H) - Cardinality(H \cap C) /\ IsFiniteSet(H \ C)
    BY <2>3, FS_Difference
  <2>8. H \cap C = C
    BY <2>5
  <2>9. Cardinality(H \ C) \in Nat
    BY <2>7, FS_CardinalityType
  <2>10. QED
    BY <2>3, <2>4, <2>6, <2>7, <2>8, <2>9 DEF S, H
\* What somebody else has has more references than p gives up.
<1>8. ASSUME NEW o \in Live, NEW x \in Area(s, o)
      PROVE  c[At(s, o, x)] < s.mem.ref[At(s, o, x)]
  <2> DEFINE P == At(s, o, x)
  <2>1. P \in Page \ Spare /\ P \in InUse(s.mem) /\ s.mem.type[P] = "user" /\ x \in Addr /\ Holds(s, o, x)
    BY <1>5
  <2>2. <<o, x>> \in Having(t, P)
    BY <1>1, <1>4, <2>1 DEF Having
  <2> HIDE DEF P
  <2>3. Cardinality(Having(t, P)) # 0
    BY <1>7, <2>1, <2>2, FS_EmptySet
  <2>4. s.mem.ref[P] = Cardinality(Having(s, P))
    BY <2>1 DEF Core, Counted
  <2> DEFINE k == Cardinality({v \in Area(s, p) : At(s, p, v) = P})
  <2>5. c[P] = k
    BY <1>1, <2>1
  <2>6. /\ Cardinality(Having(s, P)) \in Nat /\ k \in Nat /\ Cardinality(Having(t, P)) \in Nat
        /\ Cardinality(Having(t, P)) = Cardinality(Having(s, P)) - k
    BY <1>7, <2>1
  <2> HIDE DEF k
  <2>7. c[P] < s.mem.ref[P]
    BY <2>3, <2>4, <2>5, <2>6
  <2>8. QED
    BY <2>7 DEF P
<1>9. ASSUME NEW o \in Live, NEW j \in DOMAIN s.pd[o]
      PROVE  /\ s.pd[o][j] \in InUse(s.mem) /\ s.mem.type[s.pd[o][j]] = "pgtbl" /\ s.pd[o][j] # E
             /\ s.mem.ref[s.pd[o][j]] \in Int /\ c[s.pd[o][j]] \in {0, 1}
             /\ s.mem.ref[s.pd[o][j]] - c[s.pd[o][j]] >= Cardinality(Sharers(t, s.pd[o][j], j))
             /\ s.mem.ref[s.pd[o][j]] - c[s.pd[o][j]] >= 1
  <2> DEFINE T == s.pd[o][j]
  <2>1. T \in Page /\ s.mem.type[T] = "pgtbl" /\ T # E /\ s.mem.ref[T] >= Cardinality(Sharers(s, T, j))
    BY DEF Core, Shape, IsDir, TablesUsed, DirsOwn, E
  <2>2. T \in InUse(s.mem) /\ s.mem.ref[T] \in Int
    BY <1>2, <2>1 DEF InUse
  <2>3. o \in Sharers(s, T, j) /\ Sharers(t, T, j) = Sharers(s, T, j) \ {p}
    BY <1>1 DEF Sharers
  <2> HIDE DEF T
  <2>4. /\ IsFiniteSet(Sharers(s, T, j)) /\ Cardinality(Sharers(s, T, j)) \in Nat
        /\ IsFiniteSet(Sharers(t, T, j)) /\ Cardinality(Sharers(t, T, j)) \in Nat
    BY <1>1, <1>2, FewHave
  <2>5. o \in Sharers(t, T, j) /\ Cardinality(Sharers(t, T, j)) # 0
    BY <2>3, <2>4, FS_EmptySet
  <2>6. CASE c[T] = 0
    <3>1. Cardinality(Sharers(t, T, j)) <= Cardinality(Sharers(s, T, j))
      BY <2>3, <2>4, FS_Subset
    <3>2. QED
      BY <2>1, <2>2, <2>4, <2>5, <2>6, <3>1 DEF T
  <2>7. CASE c[T] # 0
    <3>1. c[T] = 1 /\ \E i \in DOMAIN s.pd[p] : s.pd[p][i] = T
      BY <1>1, <2>1, <2>2, <2>7
    <3>2. PICK i \in DOMAIN s.pd[p] : s.pd[p][i] = T
      BY <3>1
    <3>3. i = j
      BY <3>2 DEF Core, TablesApart, T
    <3>4. p \in Sharers(s, T, j)
      BY <3>2, <3>3 DEF Sharers
    <3>5. Cardinality(Sharers(t, T, j)) = Cardinality(Sharers(s, T, j)) - 1
      BY <2>3, <2>4, <3>4, FS_RemoveElement
    <3>6. QED
      BY <2>1, <2>2, <2>4, <2>5, <3>1, <3>5 DEF T
  <2>8. QED
    BY <2>6, <2>7
\* So it stays.
<1>10. ASSUME NEW q \in InUse(s.mem), q # E, c[q] = 0 \/ c[q] < s.mem.ref[q]
       PROVE  q \in InUse(t.mem) /\ t.mem.type[q] = s.mem.type[q] /\ t.mem.ref[q] = s.mem.ref[q] - c[q]
  BY <1>1, <1>10
<1>11. s.mem.type[E] = "pgtbl"
  BY DEF Core, DirsOwn, E
<1>12. Shape(t)
  BY <1>1 DEF Core, Shape
<1>13. Mapped(t)
  BY <1>1, <1>3, <1>4 DEF Core, Mapped
<1>14. DirsOwn(t)
  <2> SUFFICES ASSUME NEW o \in Live
               PROVE  /\ t.mem.type[s.dirpage[o]] = "pgtbl" /\ t.mem.ref[s.dirpage[o]] = 1
                      /\ \A x \in Live : /\ s.dirpage[x] = s.dirpage[o] => x = o
                                         /\ \A j \in DOMAIN s.pd[x] : s.pd[x][j] # s.dirpage[o]
    BY <1>1 DEF DirsOwn
  <2>1. /\ s.mem.type[s.dirpage[o]] = "pgtbl" /\ s.mem.ref[s.dirpage[o]] = 1 /\ s.dirpage[o] \in Page
        /\ s.dirpage[o] # E
        /\ \A x \in s.live : /\ s.dirpage[x] = s.dirpage[o] => x = o
                             /\ \A j \in DOMAIN s.pd[x] : s.pd[x][j] # s.dirpage[o]
    BY DEF Core, Shape, DirsOwn, E
  <2>2. s.dirpage[o] \in InUse(s.mem)
    BY <2>1 DEF InUse
  <2>3. c[s.dirpage[o]] = 0
    <3> DEFINE q == s.dirpage[o]
    <3>1. \A i \in DOMAIN s.pd[p] : s.pd[p][i] # q
      BY <2>1
    <3>2. s.mem.type[q] # "user" /\ c[q] # 0 => \E i \in DOMAIN s.pd[p] : s.pd[p][i] = q
      BY <1>1, <2>2
    <3> HIDE DEF q
    <3>3. c[q] = 0
      BY <2>1, <3>1, <3>2 DEF q
    <3>4. QED
      BY <3>3 DEF q
  <2>4. QED
    BY <1>10, <2>1, <2>2, <2>3
<1>15. TablesUsed(t)
  <2> SUFFICES ASSUME NEW o \in Live, NEW j \in DOMAIN s.pd[o]
               PROVE  /\ t.mem.type[s.pd[o][j]] = "pgtbl"
                      /\ t.mem.ref[s.pd[o][j]] >= Cardinality(Sharers(t, s.pd[o][j], j))
    BY <1>1 DEF TablesUsed
  <2> DEFINE T == s.pd[o][j]
  <2>1. /\ T \in InUse(s.mem) /\ s.mem.type[T] = "pgtbl" /\ T # E
        /\ s.mem.ref[T] \in Int /\ c[T] \in {0, 1}
        /\ s.mem.ref[T] - c[T] >= Cardinality(Sharers(t, T, j))
        /\ s.mem.ref[T] - c[T] >= 1
    BY <1>9
  <2> HIDE DEF T
  <2>2. c[T] = 0 \/ c[T] < s.mem.ref[T]
    BY <2>1
  <2>3. t.mem.type[T] = s.mem.type[T] /\ t.mem.ref[T] = s.mem.ref[T] - c[T]
    BY <1>10, <2>1, <2>2
  <2>4. QED
    BY <2>1, <2>3 DEF T
<1>16. TablesApart(t)
  BY <1>1 DEF Core, TablesApart
<1>17. ASSUME NEW o \in Live, NEW x \in Area(s, o)
       PROVE  /\ t.mem.type[At(s, o, x)] = "user"
              /\ t.mem.ref[At(s, o, x)] = s.mem.ref[At(s, o, x)] - c[At(s, o, x)]
  BY <1>5, <1>8, <1>10, <1>11
<1>18. PagesUsed(t)
  BY <1>1, <1>3, <1>4, <1>5, <1>17 DEF PagesUsed
<1>19. SpareKept(t)
  <2> SUFFICES ASSUME NEW q \in Spare PROVE t.mem.type[q] = "user"
    BY DEF SpareKept
  <2>1. q \in Page /\ s.mem.type[q] = "user" /\ q \in InUse(s.mem)
    BY DEF Core, SpareKept, Spare, InUse
  <2>2. {v \in Area(s, p) : At(s, p, v) = q} = {}
    BY <1>5
  <2>3. c[q] = 0
    BY <1>1, <2>1, <2>2, FS_EmptySet
  <2>4. QED
    BY <1>10, <1>11, <2>1, <2>3
<1>20. Counted(t)
  <2> SUFFICES ASSUME NEW q \in Page \ Spare, t.mem.type[q] = "user"
               PROVE  t.mem.ref[q] = Cardinality(Having(t, q))
    BY DEF Counted
  <2>1. q \in InUse(t.mem)
    BY DEF InUse
  <2>2. q \in InUse(s.mem) /\ n.type[q] = s.mem.type[q] /\ n.ref[q] = s.mem.ref[q] - c[q]
        /\ t.mem.type[q] = n.type[q] /\ t.mem.ref[q] = n.ref[q]
    BY <1>1, <2>1
  <2>3. s.mem.ref[q] = Cardinality(Having(s, q)) /\ c[q] = Cardinality({v \in Area(s, p) : At(s, p, v) = q})
    BY <1>1, <2>2 DEF Core, Counted
  <2>4. QED
    BY <1>7, <2>2, <2>3
<1>21. WritableOnce(t)
  <2> SUFFICES ASSUME NEW o \in Live, NEW x \in Area(s, o), Slot(s, o, x).w
               PROVE  t.mem.ref[At(s, o, x)] = 1
    BY <1>1, <1>3, <1>4 DEF WritableOnce
  <2>1. s.mem.ref[At(s, o, x)] = 1 /\ At(s, o, x) \in Page
    BY <1>5 DEF Core, WritableOnce
  <2>2. c[At(s, o, x)] < 1 /\ c[At(s, o, x)] \in Nat
    BY <1>1, <1>8, <2>1
  <2>3. QED
    BY <1>17, <2>1, <2>2
<1>22. QED
  BY <1>12, <1>13, <1>14, <1>15, <1>16, <1>18, <1>19, <1>20, <1>21 DEF Core

\* Nobody else has the page tables of p's program.
Alone(s, p) ==
  \A o \in s.live \ {p}, i \in 0 .. LastTable(s.brk[p]) :
    ~(i \in DOMAIN s.pd[o] /\ i \in DOMAIN s.pd[p] /\ s.pd[o][i] = s.pd[p][i])

\* Only the break of p differs.
Rebroken(s, t, p, b) ==
  /\ t.live = s.live
  /\ \A o \in s.live : /\ t.dirpage[o] = s.dirpage[o]
                       /\ o # p => t.pd[o] = s.pd[o] /\ t.brk[o] = s.brk[o]
  /\ t.brk[p] = b /\ Break(b)

\* Then it does not matter who else has the same tables.
LEMMA ApartAnyway ==
  ASSUME NEW s, Core(s), NEW p \in s.live, Alone(s, p),
         NEW o \in s.live \ {p}, NEW i \in DOMAIN s.pd[o], NEW j \in DOMAIN s.pd[p], s.pd[o][i] = s.pd[p][j]
  PROVE  i = j /\ i >= StackTable
<1>1. i = j /\ (i >= StackTable \/ (s.brk[o] = s.brk[p] /\ i <= LastTable(s.brk[p])))
  BY DEF Core, TablesApart
<1>2. i \in Nat
  BY DEF Core, Shape, IsDir, Index
<1>3. LastTable(s.brk[p]) \in Nat
  BY ProgramPlace DEF Core, Shape
<1>4. CASE ~(i >= StackTable)
  <2>1. i \in 0 .. LastTable(s.brk[p])
    BY <1>1, <1>2, <1>3, <1>4
  <2>2. QED
    BY <1>1, <2>1 DEF Alone
<1>5. QED
  BY <1>1, <1>4

\* The break moves within its page.
LEMMA BreakMoved ==
  ASSUME NEW s, Core(s), NEW t, NEW p \in s.live, NEW b, Alone(s, p), Rebroken(s, t, p, b),
         AddressesOf(b) = Area(s, p), t.mem = s.mem, t.tab = s.tab, t.pd[p] = s.pd[p]
  PROVE  Core(t)
<1>1. \A o \in s.live : t.pd[o] = s.pd[o] /\ t.dirpage[o] = s.dirpage[o] /\ Area(t, o) = Area(s, o)
  BY DEF Rebroken, Area
<1>2. t.live = s.live /\ (\A o \in s.live : o # p => t.brk[o] = s.brk[o]) /\ t.brk[p] = b /\ Break(b)
  BY DEF Rebroken
<1>3. \A o \in s.live : \A x : (Holds(t, o, x) <=> Holds(s, o, x)) /\ Slot(t, o, x) = Slot(s, o, x) /\ At(t, o, x) = At(s, o, x)
  BY <1>1 DEF Holds, Slot, At
<1>4. \A q : Having(t, q) = Having(s, q)
  <2> SUFFICES ASSUME NEW q, NEW u \in s.live \X Addr
               PROVE  (Holds(t, u[1], u[2]) /\ At(t, u[1], u[2]) = q) <=> (Holds(s, u[1], u[2]) /\ At(s, u[1], u[2]) = q)
    BY <1>2 DEF Having
  <2>1. u[1] \in s.live
    OBVIOUS
  <2>2. QED
    BY <1>3, <2>1
<1>5. \A q, i : Sharers(t, q, i) = Sharers(s, q, i)
  BY <1>1, <1>2 DEF Sharers
<1>6. Shape(t)
  BY <1>1, <1>2 DEF Core, Shape
<1>7. Mapped(t)
  BY <1>1, <1>2, <1>3 DEF Core, Mapped
<1>8. DirsOwn(t)
  BY <1>1, <1>2 DEF Core, DirsOwn
<1>9. TablesUsed(t)
  BY <1>1, <1>2, <1>5 DEF Core, TablesUsed
<1>10. TablesApart(t)
  <2> SUFFICES ASSUME NEW o \in s.live, NEW x \in s.live, NEW i \in DOMAIN s.pd[o], NEW j \in DOMAIN s.pd[x],
                      s.pd[o][i] = s.pd[x][j]
               PROVE  i = j /\ (o # x => i >= StackTable \/ (t.brk[x] = t.brk[o] /\ i <= LastTable(t.brk[o])))
    BY <1>1, <1>2 DEF TablesApart
  <2>1. CASE o # p /\ x # p
    BY <1>2, <2>1 DEF Core, TablesApart
  <2>2. CASE o = x
    BY <2>2 DEF Core, TablesApart
  <2>3. CASE o # x /\ x = p
    BY <2>3, ApartAnyway
  <2>4. CASE o # x /\ o = p
    BY <2>4, ApartAnyway
  <2>5. QED
    BY <2>1, <2>2, <2>3, <2>4
<1>11. PagesUsed(t)
  BY <1>1, <1>2, <1>3 DEF Core, PagesUsed
<1>12. SpareKept(t)
  BY DEF Core, SpareKept
<1>13. Counted(t)
  BY <1>4 DEF Core, Counted
<1>14. WritableOnce(t)
  BY <1>1, <1>2, <1>3 DEF Core, WritableOnce
<1>15. QED
  BY <1>6, <1>7, <1>8, <1>9, <1>10, <1>11, <1>12, <1>13, <1>14 DEF Core

\* p loses its page at v.
Shrunk(s, t, p, v, b) ==
  LET T == s.pd[p][v \div Pte] IN
  /\ Rebroken(s, t, p, b) /\ t.pd[p] = s.pd[p]
  /\ AddressesOf(b) = Area(s, p) \ {v}
  /\ Lowered(s.mem, t.mem, [q \in Page |-> IF q = At(s, p, v) THEN 1 ELSE 0])
  /\ \A q \in Page \ {T} : t.tab[q] = s.tab[q]
  /\ t.tab[T] = [k \in DOMAIN s.tab[T] \ {v % Pte} |-> s.tab[T][k]]

\* What that changes for the processes.
ShrinkView(s, t, p, v) ==
  /\ \A o \in s.live, x \in Addr : Holds(t, o, x) <=> Holds(s, o, x) /\ ~(o = p /\ x = v)
  /\ \A o \in s.live, x \in Addr : Holds(t, o, x) => Slot(t, o, x) = Slot(s, o, x) /\ At(t, o, x) = At(s, o, x)

\* What the loss of a page changes for the processes.
LEMMA ShrunkView ==
  ASSUME NEW s, Core(s), NEW t, NEW p \in s.live, NEW v \in Area(s, p), NEW b, Alone(s, p),
         v \div Pte < StackTable, Shrunk(s, t, p, v, b)
  PROVE  ShrinkView(s, t, p, v)
<1> DEFINE i == v \div Pte
           k == v % Pte
           T == s.pd[p][i]
<1>1. /\ \A o \in s.live : t.pd[o] = s.pd[o]
      /\ \A q \in Page \ {T} : t.tab[q] = s.tab[q]
      /\ t.tab[T] = [l \in DOMAIN s.tab[T] \ {k} |-> s.tab[T][l]]
  BY Zenon DEF Shrunk, Rebroken
<1>2. v \in Addr /\ Holds(s, p, v)
  <2>1. v \in Addr
    BY AreaIs DEF Core
  <2>2. QED
    BY <2>1 DEF Core, Mapped
<1>3. i \in DOMAIN s.pd[p] /\ i \in Nat /\ ~(i >= StackTable)
  BY <1>2, Parts, StackPlace DEF Holds, Index
<1> HIDE DEF i, k, T
<1>4. ASSUME NEW o \in s.live, NEW x \in Addr
      PROVE  /\ Holds(t, o, x) <=> Holds(s, o, x) /\ ~(o = p /\ x = v)
             /\ Holds(t, o, x) => Slot(t, o, x) = Slot(s, o, x)
  <2> DEFINE j == x \div Pte
             l == x % Pte
             S == s.pd[o][j]
  <2>1. (Holds(s, o, x) <=> j \in DOMAIN s.pd[o] /\ l \in DOMAIN s.tab[S]) /\ Slot(s, o, x) = s.tab[S][l]
    BY DEF Holds, Slot
  <2>2. (Holds(t, o, x) <=> j \in DOMAIN s.pd[o] /\ l \in DOMAIN t.tab[S]) /\ Slot(t, o, x) = t.tab[S][l]
    BY <1>1 DEF Holds, Slot
  <2>3. j \in DOMAIN s.pd[o] => S \in Page
    BY DEF Core, Shape, IsDir
  <2>4. j \in DOMAIN s.pd[o] /\ S = T => o = p /\ j = i
    <3> SUFFICES ASSUME j \in DOMAIN s.pd[o], S = T PROVE o = p /\ j = i
      OBVIOUS
    <3>1. CASE o = p
      BY <1>3, <3>1 DEF Core, TablesApart, T
    <3>2. CASE o # p
      BY <1>3, <3>2, ApartAnyway DEF T
    <3>3. QED
      BY <3>1, <3>2
  <2>5. (j = i /\ l = k) <=> x = v
    BY <1>2, SameParts DEF i, k
  <2>6. o = p /\ j = i => S = T
    BY DEF T
  <2> HIDE DEF j, l, S
  <2>7. CASE j \in DOMAIN s.pd[o] /\ S = T
    BY <1>1, <2>1, <2>2, <2>4, <2>5, <2>7
  <2>8. CASE j \in DOMAIN s.pd[o] /\ S # T
    BY <1>1, <2>1, <2>2, <2>3, <2>5, <2>6, <2>8
  <2>9. CASE j \notin DOMAIN s.pd[o]
    BY <2>1, <2>2, <2>9
  <2>10. QED
    BY <2>7, <2>8, <2>9
<1>5. QED
  BY <1>4 DEF ShrinkView, At

\* The invariant survives a smaller heap.
LEMMA HeapShrunk ==
  ASSUME NEW s, Core(s), NEW t, NEW p \in s.live, NEW v \in Area(s, p), NEW b, Alone(s, p),
         v \div Pte < StackTable, Shrunk(s, t, p, v, b)
  PROVE  Core(t)
<1> DEFINE Q == At(s, p, v)
           T == s.pd[p][v \div Pte]
           one == [q \in Page |-> IF q = Q THEN 1 ELSE 0]
<1>1. /\ \A o \in s.live, x \in Addr : Holds(t, o, x) <=> Holds(s, o, x) /\ ~(o = p /\ x = v)
      /\ \A o \in s.live, x \in Addr : Holds(t, o, x) => Slot(t, o, x) = Slot(s, o, x) /\ At(t, o, x) = At(s, o, x)
  <2>1. ShrinkView(s, t, p, v)
    BY ShrunkView
  <2>2. QED
    BY <2>1 DEF ShrinkView
<1>2. /\ t.live = s.live /\ t.brk[p] = b /\ Break(b)
      /\ \A o \in s.live : t.dirpage[o] = s.dirpage[o] /\ t.pd[o] = s.pd[o]
      /\ \A o \in s.live : o # p => t.brk[o] = s.brk[o]
      /\ Area(t, p) = Area(s, p) \ {v}
  BY Zenon DEF Shrunk, Rebroken, Area
<1>3. /\ Lowered(s.mem, t.mem, one)
      /\ \A q \in Page \ {T} : t.tab[q] = s.tab[q]
      /\ t.tab[T] = [k \in DOMAIN s.tab[T] \ {v % Pte} |-> s.tab[T][k]]
  BY Zenon DEF Shrunk
<1>4. \A o \in s.live : \A x \in Area(s, o) :
         /\ At(s, o, x) \in Page \ Spare /\ At(s, o, x) \in InUse(s.mem) /\ s.mem.type[At(s, o, x)] = "user"
         /\ x \in Addr /\ Holds(s, o, x)
  <2> SUFFICES ASSUME NEW o \in s.live, NEW x \in Area(s, o)
               PROVE  /\ At(s, o, x) \in Page \ Spare /\ At(s, o, x) \in InUse(s.mem) /\ s.mem.type[At(s, o, x)] = "user"
                      /\ x \in Addr /\ Holds(s, o, x)
    OBVIOUS
  <2>1. x \in Addr
    BY AreaIs DEF Core
  <2>2. Holds(s, o, x)
    BY <2>1 DEF Core, Mapped
  <2>3. At(s, o, x) \in Page
    BY <2>1, <2>2, SlotIs DEF Core
  <2>4. s.mem.type[At(s, o, x)] = "user" /\ At(s, o, x) \notin Spare
    BY DEF Core, PagesUsed
  <2>5. QED
    BY <2>1, <2>2, <2>3, <2>4 DEF InUse
<1>5. \A o \in s.live : Area(t, o) = IF o = p THEN Area(s, p) \ {v} ELSE Area(s, o)
  BY <1>2 DEF Area
<1>6. Q \in Page \ Spare /\ Q \in InUse(s.mem) /\ s.mem.type[Q] = "user" /\ v \in Addr /\ Holds(s, p, v)
  BY <1>4
<1>7. /\ s.mem.ref \in [Page -> Int] /\ InUse(s.mem) \subseteq Page /\ s.live \subseteq Pid
  BY RestIsNotInUse DEF Core, Shape
<1> HIDE DEF T, Q
<1>8. /\ MemOK(t.mem) /\ InUse(t.mem) \subseteq InUse(s.mem)
      /\ \A q \in InUse(s.mem) : q # Q => t.mem.type[q] = s.mem.type[q] /\ t.mem.ref[q] = s.mem.ref[q]
      /\ 1 < s.mem.ref[Q] => t.mem.type[Q] = s.mem.type[Q] /\ t.mem.ref[Q] = s.mem.ref[Q] - 1
      /\ ~(1 < s.mem.ref[Q]) => Q \notin InUse(t.mem)
  <2>1. one[Q] = 1 /\ \A q \in InUse(s.mem) : q # Q => one[q] = 0
    BY <1>6, <1>7
  <2> HIDE DEF one
  <2>2. /\ MemOK(t.mem) /\ InUse(t.mem) \subseteq InUse(s.mem)
        /\ \A q \in InUse(s.mem) :
             IF one[q] = 0 \/ one[q] < s.mem.ref[q]
             THEN q \in InUse(t.mem) /\ t.mem.type[q] = s.mem.type[q] /\ t.mem.ref[q] = s.mem.ref[q] - one[q]
             ELSE q \notin InUse(t.mem)
    BY <1>3 DEF Lowered
  <2>3. ASSUME NEW q \in InUse(s.mem), q # Q PROVE t.mem.type[q] = s.mem.type[q] /\ t.mem.ref[q] = s.mem.ref[q]
    <3>1. s.mem.ref[q] \in Int /\ one[q] = 0
      BY <1>7, <2>1, <2>3
    <3>2. QED
      BY <2>2, <3>1
  <2>4. QED
    BY <1>6, <2>1, <2>2, <2>3
<1>9. \A q \in Page : Having(t, q) = IF q = Q THEN Having(s, q) \ {<<p, v>>} ELSE Having(s, q)
  <2> SUFFICES ASSUME NEW q \in Page, NEW u \in s.live \X Addr
               PROVE  (Holds(t, u[1], u[2]) /\ At(t, u[1], u[2]) = q) <=>
                      (Holds(s, u[1], u[2]) /\ At(s, u[1], u[2]) = q /\ (q = Q => u # <<p, v>>))
    BY <1>2 DEF Having
  <2>1. u[1] \in s.live /\ u[2] \in Addr /\ u = <<u[1], u[2]>>
    OBVIOUS
  <2>2. QED
    BY <1>1, <1>6, <2>1 DEF Q
<1>10. /\ IsFiniteSet(Having(s, Q)) /\ Cardinality(Having(s, Q)) \in Nat
       /\ Cardinality(Having(s, Q) \ {<<p, v>>}) = Cardinality(Having(s, Q)) - 1
       /\ s.mem.ref[Q] = Cardinality(Having(s, Q))
  <2>1. <<p, v>> \in Having(s, Q)
    BY <1>6 DEF Having, Q
  <2>2. IsFiniteSet(Having(s, Q)) /\ Cardinality(Having(s, Q)) \in Nat
    BY <1>7, FewHave
  <2>3. Cardinality(Having(s, Q) \ {<<p, v>>}) = Cardinality(Having(s, Q)) - 1
    BY <2>1, <2>2, FS_RemoveElement
  <2>4. QED
    BY <1>6, <2>2, <2>3 DEF Core, Counted
\* Somebody else's page is still there.
<1>11. ASSUME NEW o \in s.live, NEW x \in Area(t, o)
       PROVE  /\ x \in Area(s, o) /\ At(t, o, x) = At(s, o, x) /\ Slot(t, o, x) = Slot(s, o, x)
              /\ t.mem.type[At(s, o, x)] = "user"
              /\ s.mem.ref[At(s, o, x)] = 1 => t.mem.ref[At(s, o, x)] = 1
  <2> DEFINE P == At(s, o, x)
  <2>1. x \in Area(s, o) /\ <<o, x>> # <<p, v>>
    BY <1>5
  <2>2. P \in Page \ Spare /\ P \in InUse(s.mem) /\ s.mem.type[P] = "user" /\ x \in Addr /\ Holds(s, o, x)
    BY <1>4, <2>1
  <2>3. At(t, o, x) = P /\ Slot(t, o, x) = Slot(s, o, x)
    BY <1>1, <2>1, <2>2
  <2>4. P = Q => 1 < s.mem.ref[Q]
    <3> SUFFICES ASSUME P = Q, ~(1 < s.mem.ref[Q]) PROVE FALSE
      OBVIOUS
    <3>1. <<o, x>> \in Having(s, Q) \ {<<p, v>>}
      BY <2>1, <2>2 DEF Having
    <3> DEFINE H == Having(s, Q) \ {<<p, v>>}
    <3>2. IsFiniteSet(H)
      BY <1>10, FS_Subset
    <3>3. H # {}
      BY <3>1
    <3> HIDE DEF H
    <3>4. Cardinality(H) \in Nat /\ Cardinality(H) # 0
      BY <3>2, <3>3, FS_EmptySet, FS_CardinalityType
    <3>5. QED
      BY <1>10, <3>4 DEF H
  <2> HIDE DEF P
  <2>5. t.mem.type[P] = "user" /\ (s.mem.ref[P] = 1 => t.mem.ref[P] = 1)
    BY <1>8, <2>2, <2>4
  <2>6. QED
    BY <2>1, <2>3, <2>5 DEF P
<1>12. Shape(t)
  <2>1. ASSUME NEW q \in Page PROVE IsTable(t.tab[q])
    <3>1. IsTable(s.tab[q])
      BY DEF Core, Shape
    <3>2. CASE q = T
      BY <1>3, <3>1, <3>2 DEF IsTable
    <3>3. CASE q # T
      BY <1>3, <3>1, <3>3
    <3>4. QED
      BY <3>2, <3>3
  <2>2. \A o \in s.live : IsDir(t.pd[o]) /\ t.dirpage[o] \in Page /\ Break(t.brk[o])
    BY <1>2 DEF Core, Shape
  <2>3. QED
    BY <1>2, <1>7, <1>8, <2>1, <2>2 DEF Shape
<1>13. Mapped(t)
  <2> SUFFICES ASSUME NEW o \in s.live, NEW x \in Addr PROVE Holds(t, o, x) <=> x \in Area(t, o)
    BY <1>2 DEF Mapped
  <2>1. Holds(s, o, x) <=> x \in Area(s, o)
    BY DEF Core, Mapped
  <2>2. QED
    BY <1>1, <1>5, <2>1
<1>14. DirsOwn(t)
  <2> SUFFICES ASSUME NEW o \in s.live
               PROVE  /\ t.mem.type[s.dirpage[o]] = "pgtbl" /\ t.mem.ref[s.dirpage[o]] = 1
                      /\ \A x \in s.live : /\ s.dirpage[x] = s.dirpage[o] => x = o
                                           /\ \A j \in DOMAIN s.pd[x] : s.pd[x][j] # s.dirpage[o]
    BY <1>2 DEF DirsOwn
  <2>1. /\ s.mem.type[s.dirpage[o]] = "pgtbl" /\ s.mem.ref[s.dirpage[o]] = 1 /\ s.dirpage[o] \in Page
        /\ \A x \in s.live : /\ s.dirpage[x] = s.dirpage[o] => x = o
                             /\ \A j \in DOMAIN s.pd[x] : s.pd[x][j] # s.dirpage[o]
    BY DEF Core, Shape, DirsOwn
  <2>2. s.dirpage[o] \in InUse(s.mem) /\ s.dirpage[o] # Q
    BY <1>6, <2>1 DEF InUse
  <2>3. QED
    BY <1>8, <2>1, <2>2
<1>15. TablesUsed(t)
  <2> SUFFICES ASSUME NEW o \in s.live, NEW j \in DOMAIN s.pd[o]
               PROVE  /\ t.mem.type[s.pd[o][j]] = "pgtbl"
                      /\ t.mem.ref[s.pd[o][j]] >= Cardinality(Sharers(t, s.pd[o][j], j))
    BY <1>2 DEF TablesUsed
  <2>1. /\ s.mem.type[s.pd[o][j]] = "pgtbl" /\ s.pd[o][j] \in Page
        /\ s.mem.ref[s.pd[o][j]] >= Cardinality(Sharers(s, s.pd[o][j], j))
    BY DEF Core, TablesUsed, Shape, IsDir
  <2>2. s.pd[o][j] \in InUse(s.mem) /\ s.pd[o][j] # Q
    BY <1>6, <2>1 DEF InUse
  <2>3. Sharers(t, s.pd[o][j], j) = Sharers(s, s.pd[o][j], j)
    BY <1>2 DEF Sharers
  <2>4. QED
    BY <1>8, <2>1, <2>2, <2>3
<1>16. TablesApart(t)
  <2> SUFFICES ASSUME NEW o \in s.live, NEW x \in s.live, NEW i \in DOMAIN s.pd[o], NEW j \in DOMAIN s.pd[x],
                      s.pd[o][i] = s.pd[x][j]
               PROVE  i = j /\ (o # x => i >= StackTable \/ (t.brk[x] = t.brk[o] /\ i <= LastTable(t.brk[o])))
    BY <1>2 DEF TablesApart
  <2>1. CASE o # p /\ x # p
    BY <1>2, <2>1 DEF Core, TablesApart
  <2>2. CASE o = x
    BY <2>2 DEF Core, TablesApart
  <2>3. CASE o # x /\ x = p
    BY <2>3, ApartAnyway
  <2>4. CASE o # x /\ o = p
    BY <2>4, ApartAnyway
  <2>5. QED
    BY <2>1, <2>2, <2>3, <2>4
<1>17. PagesUsed(t)
  BY <1>2, <1>4, <1>11 DEF PagesUsed
<1>18. SpareKept(t)
  <2> SUFFICES ASSUME NEW q \in Spare PROVE t.mem.type[q] = "user"
    BY DEF SpareKept
  <2>1. q \in InUse(s.mem) /\ s.mem.type[q] = "user" /\ q # Q
    BY <1>6 DEF Core, SpareKept, Spare, InUse
  <2>2. QED
    BY <1>8, <2>1
<1>19. Counted(t)
  <2> SUFFICES ASSUME NEW q \in Page \ Spare, t.mem.type[q] = "user"
               PROVE  t.mem.ref[q] = Cardinality(Having(t, q))
    BY DEF Counted
  <2>1. q \in InUse(t.mem) /\ q \in InUse(s.mem)
    BY <1>8 DEF InUse
  <2>2. CASE q = Q
    BY <1>8, <1>9, <1>10, <2>1, <2>2
  <2>3. CASE q # Q
    <3>1. s.mem.type[q] = "user" /\ t.mem.ref[q] = s.mem.ref[q]
      BY <1>8, <2>1, <2>3
    <3>2. QED
      BY <1>9, <2>3, <3>1 DEF Core, Counted
  <2>4. QED
    BY <2>2, <2>3
<1>20. WritableOnce(t)
  <2> SUFFICES ASSUME NEW o \in s.live, NEW x \in Area(t, o), Slot(t, o, x).w
               PROVE  t.mem.ref[At(t, o, x)] = 1
    BY <1>2 DEF WritableOnce
  <2>1. x \in Area(s, o) /\ Slot(s, o, x).w
    BY <1>11
  <2>2. s.mem.ref[At(s, o, x)] = 1
    BY <2>1 DEF Core, WritableOnce
  <2>3. QED
    BY <1>11, <2>2
<1>21. QED
  BY <1>12, <1>13, <1>14, <1>15, <1>16, <1>17, <1>18, <1>19, <1>20 DEF Core

\* p gets the page A at v, in the table N, its own or a new one.
Grown(s, t, p, v, b, A, N) ==
  LET i == v \div Pte IN
  /\ Rebroken(s, t, p, b)
  /\ v \in Addr /\ v \notin Area(s, p) /\ AddressesOf(b) = Area(s, p) \cup {v}
  /\ MemOK(t.mem)
  /\ A \in Page \ InUse(s.mem) /\ t.mem.type[A] = "user" /\ t.mem.ref[A] = 1
  /\ N \in Page /\ N # A
  /\ \/ /\ i \in DOMAIN s.pd[p] /\ s.pd[p][i] = N /\ t.pd[p] = s.pd[p]
        /\ Entered(s.tab[N], v % Pte, [page |-> A, w |-> TRUE], t.tab[N])
     \/ /\ i \notin DOMAIN s.pd[p] /\ N \notin InUse(s.mem)
        /\ t.mem.type[N] = "pgtbl" /\ t.mem.ref[N] = 1
        /\ DOMAIN t.pd[p] = DOMAIN s.pd[p] \cup {i} /\ t.pd[p][i] = N
        /\ \A j \in DOMAIN s.pd[p] : t.pd[p][j] = s.pd[p][j]
        /\ DOMAIN t.tab[N] = {v % Pte} /\ t.tab[N][v % Pte] = [page |-> A, w |-> TRUE]
  /\ InUse(t.mem) = InUse(s.mem) \cup {A, N}
  /\ \A q \in InUse(s.mem) : t.mem.type[q] = s.mem.type[q] /\ t.mem.ref[q] = s.mem.ref[q]
  /\ \A q \in Page \ {N} : t.tab[q] = s.tab[q]

GrowView(s, t, p, v, A) ==
  /\ \A o \in s.live, x \in Addr : Holds(t, o, x) <=> Holds(s, o, x) \/ (o = p /\ x = v)
  /\ \A o \in s.live, x \in Addr : Holds(t, o, x) =>
       Slot(t, o, x) = IF o = p /\ x = v THEN [page |-> A, w |-> TRUE] ELSE Slot(s, o, x)

\* What a new page changes for the processes.
LEMMA GrownView ==
  ASSUME NEW s, Core(s), NEW t, NEW p \in s.live, NEW v, NEW b, Alone(s, p), NEW A, NEW N,
         v \div Pte < StackTable, Grown(s, t, p, v, b, A, N)
  PROVE  GrowView(s, t, p, v, A)
<1> DEFINE i == v \div Pte
           k == v % Pte
           new == [page |-> A, w |-> TRUE]
<1>1. /\ v \in Addr /\ N \in Page
      /\ \A o \in s.live : o # p => t.pd[o] = s.pd[o]
      /\ \A q \in Page \ {N} : t.tab[q] = s.tab[q]
      /\ i \in DOMAIN t.pd[p] /\ t.pd[p][i] = N /\ k \in DOMAIN t.tab[N] /\ t.tab[N][k] = new
      /\ DOMAIN t.pd[p] = DOMAIN s.pd[p] \cup {i}
      /\ \A j \in DOMAIN s.pd[p] : t.pd[p][j] = s.pd[p][j]
      /\ i \in DOMAIN s.pd[p] => /\ s.pd[p][i] = N /\ DOMAIN t.tab[N] = DOMAIN s.tab[N] \cup {k}
                                 /\ \A l \in DOMAIN s.tab[N] \ {k} : t.tab[N][l] = s.tab[N][l]
      /\ i \notin DOMAIN s.pd[p] => N \notin InUse(s.mem) /\ DOMAIN t.tab[N] = {k}
  BY DEF Grown, Rebroken, Entered
<1>2. i \in Nat /\ ~(i >= StackTable)
  BY <1>1, Parts, StackPlace DEF Index
<1>3. ASSUME NEW o \in s.live, NEW j \in DOMAIN s.pd[o] PROVE s.pd[o][j] \in InUse(s.mem) /\ s.pd[o][j] \in Page
  <2>1. s.pd[o][j] \in Page /\ s.mem.type[s.pd[o][j]] = "pgtbl"
    BY DEF Core, Shape, IsDir, TablesUsed
  <2>2. QED
    BY <2>1 DEF InUse
<1>4. ASSUME NEW o \in s.live, NEW j \in DOMAIN s.pd[o], s.pd[o][j] = N PROVE o = p /\ j = i
  <2>1. i \in DOMAIN s.pd[p] /\ s.pd[p][i] = N
    BY <1>1, <1>3, <1>4
  <2>2. CASE o = p
    BY <1>4, <2>1, <2>2 DEF Core, TablesApart
  <2>3. CASE o # p
    BY <1>2, <1>4, <2>1, <2>3, ApartAnyway
  <2>4. QED
    BY <2>2, <2>3
<1> HIDE DEF i, k, new
<1>5. ASSUME NEW o \in s.live, NEW x \in Addr
      PROVE  /\ Holds(t, o, x) <=> Holds(s, o, x) \/ (o = p /\ x = v)
             /\ Holds(t, o, x) => Slot(t, o, x) = IF o = p /\ x = v THEN new ELSE Slot(s, o, x)
  <2> DEFINE j == x \div Pte
             l == x % Pte
             S == s.pd[o][j]
             R == t.pd[o][j]
  <2>1. (Holds(s, o, x) <=> j \in DOMAIN s.pd[o] /\ l \in DOMAIN s.tab[S]) /\ Slot(s, o, x) = s.tab[S][l]
    BY DEF Holds, Slot
  <2>2. (Holds(t, o, x) <=> j \in DOMAIN t.pd[o] /\ l \in DOMAIN t.tab[R]) /\ Slot(t, o, x) = t.tab[R][l]
    BY DEF Holds, Slot
  <2>3. (j = i /\ l = k) <=> x = v
    BY <1>1, SameParts DEF i, k
  <2>4. j \in DOMAIN s.pd[o] => S \in Page /\ R = S
    BY <1>1, <1>3
  <2>5. j \in DOMAIN s.pd[o] /\ S = N => o = p /\ j = i
    BY <1>4
  <2>6. CASE o = p /\ j = i
    <3>1. R = N /\ j \in DOMAIN t.pd[o] /\ (j \in DOMAIN s.pd[o] => S = N)
      BY <1>1, <2>6
    <3> HIDE DEF j, l, S, R
    <3>2. QED
      BY <1>1, <2>1, <2>2, <2>3, <2>6, <3>1
  <2>7. CASE ~(o = p /\ j = i)
    <3>1. j \in DOMAIN t.pd[o] <=> j \in DOMAIN s.pd[o]
      BY <1>1, <2>7
    <3>2. ~(o = p /\ x = v)
      BY <2>3, <2>7
    <3> HIDE DEF j, l, S, R
    <3>3. QED
      BY <1>1, <2>1, <2>2, <2>4, <2>5, <2>7, <3>1, <3>2
  <2>8. QED
    BY <2>6, <2>7
<1>6. QED
  BY <1>5 DEF GrowView, new

\* The invariant survives a larger heap.
LEMMA HeapGrown ==
  ASSUME NEW s, Core(s), NEW t, NEW p \in s.live, NEW v, NEW b, Alone(s, p), NEW A, NEW N,
         v \div Pte < StackTable, Grown(s, t, p, v, b, A, N)
  PROVE  Core(t)
<1> DEFINE i == v \div Pte
           k == v % Pte
           new == [page |-> A, w |-> TRUE]
<1>1. /\ \A o \in s.live, x \in Addr : Holds(t, o, x) <=> Holds(s, o, x) \/ (o = p /\ x = v)
      /\ \A o \in s.live, x \in Addr : Holds(t, o, x) =>
           Slot(t, o, x) = IF o = p /\ x = v THEN new ELSE Slot(s, o, x)
  <2>1. GrowView(s, t, p, v, A)
    BY GrownView
  <2>2. QED
    BY <2>1 DEF GrowView
<1>2. /\ v \in Addr /\ v \notin Area(s, p) /\ AddressesOf(b) = Area(s, p) \cup {v}
      /\ MemOK(t.mem)
      /\ A \in Page /\ A \notin InUse(s.mem) /\ t.mem.type[A] = "user" /\ t.mem.ref[A] = 1
      /\ N \in Page /\ N # A
      /\ InUse(t.mem) = InUse(s.mem) \cup {A, N}
      /\ \A q \in InUse(s.mem) : t.mem.type[q] = s.mem.type[q] /\ t.mem.ref[q] = s.mem.ref[q]
      /\ \A q \in Page \ {N} : t.tab[q] = s.tab[q]
      /\ t.live = s.live /\ t.brk[p] = b /\ Break(b)
      /\ \A o \in s.live : t.dirpage[o] = s.dirpage[o]
      /\ \A o \in s.live : o # p => t.pd[o] = s.pd[o] /\ t.brk[o] = s.brk[o]
  BY DEF Grown, Rebroken
<1>3. /\ i \in DOMAIN t.pd[p] /\ t.pd[p][i] = N /\ k \in DOMAIN t.tab[N] /\ t.tab[N][k] = new
      /\ DOMAIN t.pd[p] = DOMAIN s.pd[p] \cup {i}
      /\ \A j \in DOMAIN s.pd[p] : t.pd[p][j] = s.pd[p][j]
      /\ i \in DOMAIN s.pd[p] => /\ s.pd[p][i] = N /\ DOMAIN t.tab[N] = DOMAIN s.tab[N] \cup {k}
                                 /\ \A l \in DOMAIN s.tab[N] \ {k} : t.tab[N][l] = s.tab[N][l]
      /\ i \notin DOMAIN s.pd[p] => /\ N \notin InUse(s.mem) /\ DOMAIN t.tab[N] = {k}
                                    /\ t.mem.type[N] = "pgtbl" /\ t.mem.ref[N] = 1
  BY DEF Grown, Entered
<1>4. i \in Index /\ i \in Nat /\ ~(i >= StackTable) /\ k \in 0 .. Pte - 1
  <2>1. v \in Addr
    BY <1>2
  <2>2. QED
    BY <2>1, Parts, StackPlace DEF Index
<1>5. new \in [page : Page, w : BOOLEAN] /\ new.page = A /\ new.w = TRUE
  BY <1>2
<1> HIDE DEF i, k, new
<1>6. ASSUME NEW o \in s.live, NEW j \in DOMAIN s.pd[o]
      PROVE  s.pd[o][j] \in InUse(s.mem) /\ s.pd[o][j] \in Page /\ s.mem.type[s.pd[o][j]] = "pgtbl"
  <2>1. s.pd[o][j] \in Page /\ s.mem.type[s.pd[o][j]] = "pgtbl"
    BY DEF Core, Shape, IsDir, TablesUsed
  <2>2. QED
    BY <2>1 DEF InUse
<1>7. \A o \in s.live : \A x \in Area(s, o) :
         /\ At(s, o, x) \in Page \ Spare /\ At(s, o, x) \in InUse(s.mem) /\ s.mem.type[At(s, o, x)] = "user"
         /\ x \in Addr /\ Holds(s, o, x)
  <2> SUFFICES ASSUME NEW o \in s.live, NEW x \in Area(s, o)
               PROVE  /\ At(s, o, x) \in Page \ Spare /\ At(s, o, x) \in InUse(s.mem) /\ s.mem.type[At(s, o, x)] = "user"
                      /\ x \in Addr /\ Holds(s, o, x)
    OBVIOUS
  <2>1. x \in Addr
    BY AreaIs DEF Core
  <2>2. Holds(s, o, x)
    BY <2>1 DEF Core, Mapped
  <2>3. At(s, o, x) \in Page
    BY <2>1, <2>2, SlotIs DEF Core
  <2>4. s.mem.type[At(s, o, x)] = "user" /\ At(s, o, x) \notin Spare
    BY DEF Core, PagesUsed
  <2>5. QED
    BY <2>1, <2>2, <2>3, <2>4 DEF InUse
<1>8. \A o \in s.live : Area(t, o) = IF o = p THEN Area(s, p) \cup {v} ELSE Area(s, o)
  BY <1>2 DEF Area
<1>9. \A o \in s.live, x \in Addr : Holds(s, o, x) <=> x \in Area(s, o)
  BY DEF Core, Mapped
<1>10. s.live \subseteq Pid /\ InUse(s.mem) \subseteq Page
  BY RestIsNotInUse DEF Core, Shape
<1>11. ASSUME NEW o \in s.live, NEW x \in Area(t, o)
       PROVE  /\ x \in Addr /\ Holds(t, o, x)
              /\ At(t, o, x) = IF o = p /\ x = v THEN A ELSE At(s, o, x)
              /\ ~(o = p /\ x = v) => x \in Area(s, o) /\ Slot(t, o, x) = Slot(s, o, x)
  <2>1. x \in Addr
    BY <1>2, <1>7, <1>8
  <2>2. Holds(t, o, x) /\ (~(o = p /\ x = v) => x \in Area(s, o))
    BY <1>1, <1>8, <1>9, <2>1
  <2>3. QED
    BY <1>1, <1>5, <2>1, <2>2 DEF At
\* The new pages are nobody else's.
<1>12. A \notin Spare
  BY <1>2 DEF Core, SpareKept, Spare, InUse
<1>13. Shape(t)
  <2>1. ASSUME NEW q \in Page PROVE IsTable(t.tab[q])
    <3>1. IsTable(s.tab[q])
      BY DEF Core, Shape
    <3>2. CASE q # N
      BY <1>2, <3>1, <3>2
    <3>3. CASE q = N /\ i \in DOMAIN s.pd[p]
      BY <1>3, <1>4, <1>5, <3>1, <3>3 DEF IsTable
    <3>4. CASE q = N /\ i \notin DOMAIN s.pd[p]
      BY <1>3, <1>4, <1>5, <3>4 DEF IsTable
    <3>5. QED
      BY <3>2, <3>3, <3>4
  <2>2. ASSUME NEW o \in s.live PROVE IsDir(t.pd[o]) /\ t.dirpage[o] \in Page /\ Break(t.brk[o])
    <3>1. IsDir(s.pd[o]) /\ s.dirpage[o] \in Page /\ Break(s.brk[o])
      BY DEF Core, Shape
    <3>2. CASE o = p
      BY <1>2, <1>3, <1>4, <3>1, <3>2 DEF IsDir
    <3>3. CASE o # p
      BY <1>2, <3>1, <3>3
    <3>4. QED
      BY <3>2, <3>3
  <2>3. QED
    BY <1>2, <1>10, <2>1, <2>2 DEF Shape
<1>14. Mapped(t)
  <2> SUFFICES ASSUME NEW o \in s.live, NEW x \in Addr PROVE Holds(t, o, x) <=> x \in Area(t, o)
    BY <1>2 DEF Mapped
  <2>1. QED
    BY <1>1, <1>8, <1>9
\* The tables in t are those in s and N.
<1>15. ASSUME NEW o \in s.live, NEW j \in DOMAIN t.pd[o]
       PROVE  /\ (o = p /\ j = i /\ t.pd[o][j] = N) \/ j \in DOMAIN s.pd[o]
              /\ j \in DOMAIN s.pd[o] => t.pd[o][j] = s.pd[o][j]
  BY <1>2, <1>3
<1>16. ASSUME NEW o \in s.live PROVE s.dirpage[o] \in InUse(s.mem) /\ s.dirpage[o] # N
  <2>1. /\ s.mem.type[s.dirpage[o]] = "pgtbl" /\ s.dirpage[o] \in Page
        /\ \A j \in DOMAIN s.pd[p] : s.pd[p][j] # s.dirpage[o]
    BY DEF Core, Shape, DirsOwn
  <2>2. s.dirpage[o] \in InUse(s.mem)
    BY <2>1 DEF InUse
  <2>3. QED
    BY <1>3, <2>1, <2>2
<1>17. DirsOwn(t)
  <2> SUFFICES ASSUME NEW o \in s.live
               PROVE  /\ t.mem.type[s.dirpage[o]] = "pgtbl" /\ t.mem.ref[s.dirpage[o]] = 1
                      /\ \A x \in s.live : /\ s.dirpage[x] = s.dirpage[o] => x = o
                                           /\ \A j \in DOMAIN t.pd[x] : t.pd[x][j] # s.dirpage[o]
    BY <1>2 DEF DirsOwn
  <2>1. /\ s.mem.type[s.dirpage[o]] = "pgtbl" /\ s.mem.ref[s.dirpage[o]] = 1
        /\ \A x \in s.live : /\ s.dirpage[x] = s.dirpage[o] => x = o
                             /\ \A j \in DOMAIN s.pd[x] : s.pd[x][j] # s.dirpage[o]
    BY DEF Core, DirsOwn
  <2>2. \A x \in s.live : \A j \in DOMAIN t.pd[x] : t.pd[x][j] # s.dirpage[o]
    BY <1>15, <1>16, <2>1
  <2>3. QED
    BY <1>2, <1>16, <2>1, <2>2
\* Who uses a table in t.
<1>18. ASSUME NEW o \in s.live, NEW j \in DOMAIN s.pd[o], s.pd[o][j] = N PROVE o = p /\ j = i
  <2>1. i \in DOMAIN s.pd[p] /\ s.pd[p][i] = N
    BY <1>3, <1>6, <1>18
  <2>2. CASE o = p
    BY <1>18, <2>1, <2>2 DEF Core, TablesApart
  <2>3. CASE o # p
    BY <1>4, <1>18, <2>1, <2>3, ApartAnyway
  <2>4. QED
    BY <2>2, <2>3
<1>19. TablesUsed(t)
  <2> SUFFICES ASSUME NEW o \in s.live, NEW j \in DOMAIN t.pd[o]
               PROVE  /\ t.mem.type[t.pd[o][j]] = "pgtbl"
                      /\ t.mem.ref[t.pd[o][j]] >= Cardinality(Sharers(t, t.pd[o][j], j))
    BY <1>2 DEF TablesUsed
  <2>1. CASE j \in DOMAIN s.pd[o] /\ t.pd[o][j] = s.pd[o][j]
    <3> DEFINE S == s.pd[o][j]
    <3>1. S \in InUse(s.mem) /\ s.mem.type[S] = "pgtbl" /\ s.mem.ref[S] >= Cardinality(Sharers(s, S, j))
      BY <1>6, <2>1 DEF Core, TablesUsed
    <3>2. S = N => o = p /\ j = i
      BY <1>18, <2>1
    <3>3. j \in DOMAIN s.pd[o]
      BY <2>1
    <3> HIDE DEF S
    <3>4. Sharers(t, S, j) = Sharers(s, S, j)
      <4> SUFFICES ASSUME NEW x \in s.live
                   PROVE  (j \in DOMAIN t.pd[x] /\ t.pd[x][j] = S) <=> (j \in DOMAIN s.pd[x] /\ s.pd[x][j] = S)
        BY <1>2 DEF Sharers
      <4>1. CASE x # p
        BY <1>2, <4>1
      <4>2. CASE x = p /\ j # i
        BY <1>3, <4>2
      <4>3. CASE x = p /\ j = i
        <5>1. S = N => i \in DOMAIN s.pd[p]
          BY <3>2, <3>3, <4>3
        <5>2. QED
          BY <1>3, <4>3, <5>1
      <4>4. QED
        BY <4>1, <4>2, <4>3
    <3>5. t.mem.type[S] = "pgtbl" /\ t.mem.ref[S] = s.mem.ref[S]
      BY <1>2, <3>1
    <3>6. QED
      BY <2>1, <3>1, <3>4, <3>5 DEF S
  <2>2. CASE ~(j \in DOMAIN s.pd[o])
    <3>1. o = p /\ j = i /\ t.pd[o][j] = N /\ i \notin DOMAIN s.pd[p]
      BY <1>15, <2>2
    <3>2. t.mem.type[N] = "pgtbl" /\ t.mem.ref[N] = 1 /\ N \notin InUse(s.mem)
      BY <1>3, <3>1
    <3>3. Sharers(t, N, i) = {p}
      <4> SUFFICES ASSUME NEW x \in s.live PROVE (i \in DOMAIN t.pd[x] /\ t.pd[x][i] = N) <=> x = p
        BY <1>2 DEF Sharers
      <4>1. CASE x = p
        BY <1>3, <4>1
      <4>2. CASE x # p
        BY <1>2, <1>6, <3>2, <4>2
      <4>3. QED
        BY <4>1, <4>2
    <3>4. Cardinality({p}) = 1
      BY FS_Singleton
    <3>5. QED
      BY <3>1, <3>2, <3>3, <3>4
  <2>3. QED
    BY <1>15, <2>1, <2>2
<1>20. TablesApart(t)
  <2> SUFFICES ASSUME NEW o \in s.live, NEW x \in s.live, NEW j \in DOMAIN t.pd[o], NEW l \in DOMAIN t.pd[x],
                      t.pd[o][j] = t.pd[x][l]
               PROVE  j = l /\ (o # x => j >= StackTable \/ (t.brk[x] = t.brk[o] /\ j <= LastTable(t.brk[o])))
    BY <1>2 DEF TablesApart
  <2>1. CASE t.pd[o][j] = N
    <3>1. o = p /\ j = i
      BY <1>15, <1>18, <2>1
    <3>2. x = p /\ l = i
      <4>1. t.pd[x][l] = N
        BY <2>1
      <4>2. QED
        BY <1>15, <1>18, <4>1
    <3>3. QED
      BY <3>1, <3>2
  <2>2. CASE t.pd[o][j] # N
    <3>1. j \in DOMAIN s.pd[o] /\ t.pd[o][j] = s.pd[o][j] /\ l \in DOMAIN s.pd[x] /\ t.pd[x][l] = s.pd[x][l]
      BY <1>15, <2>2
    <3>2. s.pd[o][j] = s.pd[x][l]
      BY <3>1
    <3>3. CASE o # p /\ x # p
      BY <1>2, <3>1, <3>2, <3>3 DEF Core, TablesApart
    <3>4. CASE o = x
      BY <3>1, <3>2, <3>4 DEF Core, TablesApart
    <3>5. CASE o # x /\ x = p
      BY <3>1, <3>2, <3>5, ApartAnyway
    <3>6. CASE o # x /\ o = p
      BY <3>1, <3>2, <3>6, ApartAnyway
    <3>7. QED
      BY <3>3, <3>4, <3>5, <3>6
  <2>3. QED
    BY <2>1, <2>2
<1>21. PagesUsed(t)
  <2> SUFFICES ASSUME NEW o \in s.live, NEW x \in Area(t, o)
               PROVE  t.mem.type[At(t, o, x)] = "user" /\ At(t, o, x) \notin Spare
    BY <1>2 DEF PagesUsed
  <2>1. CASE o = p /\ x = v
    BY <1>2, <1>11, <1>12, <2>1
  <2>2. CASE ~(o = p /\ x = v)
    BY <1>2, <1>7, <1>11, <2>2
  <2>3. QED
    BY <2>1, <2>2
<1>22. SpareKept(t)
  BY <1>2 DEF Core, SpareKept, Spare, InUse
<1>23. ASSUME NEW u \in s.live \X Addr
       PROVE  \A q \in Page : (Holds(t, u[1], u[2]) /\ At(t, u[1], u[2]) = q) <=>
                (Holds(s, u[1], u[2]) /\ At(s, u[1], u[2]) = q) \/ (q = A /\ u = <<p, v>>)
  <2>1. u[1] \in s.live /\ u[2] \in Addr /\ u = <<u[1], u[2]>>
    OBVIOUS
  <2>2. CASE u = <<p, v>>
    <3>1. ~Holds(s, p, v) /\ Holds(t, p, v) /\ At(t, p, v) = A
      BY <1>1, <1>2, <1>5, <1>9 DEF At
    <3>2. u[1] = p /\ u[2] = v
      BY <2>2
    <3>3. QED
      BY <2>2, <3>1, <3>2
  <2>3. CASE u # <<p, v>>
    <3>1. ~(u[1] = p /\ u[2] = v)
      BY <2>1, <2>3
    <3>2. (Holds(t, u[1], u[2]) <=> Holds(s, u[1], u[2])) /\ (Holds(t, u[1], u[2]) => At(t, u[1], u[2]) = At(s, u[1], u[2]))
      BY <1>1, <2>1, <3>1 DEF At
    <3>3. QED
      BY <2>3, <3>2
  <2>4. QED
    BY <2>2, <2>3
<1>24. Having(t, A) = {<<p, v>>}
  <2>1. ASSUME NEW u \in s.live \X Addr PROVE ~(Holds(s, u[1], u[2]) /\ At(s, u[1], u[2]) = A)
    <3>1. u[1] \in s.live /\ u[2] \in Addr
      OBVIOUS
    <3>2. QED
      BY <1>2, <1>7, <1>9, <3>1
  <2>2. <<p, v>> \in s.live \X Addr
    BY <1>2
  <2>3. \A u \in s.live \X Addr : (Holds(t, u[1], u[2]) /\ At(t, u[1], u[2]) = A) <=> u = <<p, v>>
    BY <1>2, <1>23, <2>1
  <2>4. QED
    BY <1>2, <2>2, <2>3 DEF Having
<1>25. \A q \in Page \ {A} : Having(t, q) = Having(s, q)
  BY <1>2, <1>23 DEF Having
<1>26. Counted(t)
  <2> SUFFICES ASSUME NEW q \in Page \ Spare, t.mem.type[q] = "user"
               PROVE  t.mem.ref[q] = Cardinality(Having(t, q))
    BY DEF Counted
  <2>1. q \in InUse(t.mem)
    BY DEF InUse
  <2>2. CASE q = A
    <3>1. Cardinality({<<p, v>>}) = 1
      BY FS_Singleton
    <3>2. QED
      BY <1>2, <1>24, <2>2, <3>1
  <2>3. CASE q # A
    <3>1. q \in InUse(s.mem)
      <4>1. N \in InUse(s.mem) \/ t.mem.type[N] = "pgtbl"
        BY <1>3, <1>6
      <4>2. QED
        BY <1>2, <2>1, <2>3, <4>1
    <3>2. s.mem.type[q] = "user" /\ t.mem.ref[q] = s.mem.ref[q]
      BY <1>2, <3>1
    <3>3. QED
      BY <1>25, <2>3, <3>2 DEF Core, Counted
  <2>4. QED
    BY <2>2, <2>3
<1>27. WritableOnce(t)
  <2> SUFFICES ASSUME NEW o \in s.live, NEW x \in Area(t, o), Slot(t, o, x).w
               PROVE  t.mem.ref[At(t, o, x)] = 1
    BY <1>2 DEF WritableOnce
  <2>1. CASE o = p /\ x = v
    BY <1>2, <1>11, <2>1
  <2>2. CASE ~(o = p /\ x = v)
    <3>1. x \in Area(s, o) /\ Slot(s, o, x).w /\ At(t, o, x) = At(s, o, x)
      BY <1>11, <2>2
    <3>2. s.mem.ref[At(s, o, x)] = 1
      BY <3>1 DEF Core, WritableOnce
    <3>3. QED
      BY <1>2, <1>7, <3>1, <3>2
  <2>3. QED
    BY <2>1, <2>2
<1>28. QED
  BY <1>13, <1>14, <1>17, <1>19, <1>20, <1>21, <1>22, <1>26, <1>27 DEF Core

-----------------------------------------------------------------------------
(* What paging.c and pagefault.c do, as such steps *)

IsView(r) == r = [mem |-> r.mem, tab |-> r.tab, data |-> r.data, dir |-> r.dir] /\ DOMAIN r.tab = Page /\ DOMAIN r.data = Page

\* r is the part of s that p uses.
ViewOf(r, s, p) == IsView(r) /\ r.mem = s.mem /\ r.tab = s.tab /\ r.dir = s.pd[p]

\* t is s with that part replaced.
Replaced(s, t, p, r) ==
  /\ t.mem = r.mem /\ t.tab = r.tab /\ t.pd[p] = r.dir
  /\ t.live = s.live
  /\ \A o \in s.live : /\ t.dirpage[o] = s.dirpage[o] /\ t.brk[o] = s.brk[o]
                       /\ o # p => t.pd[o] = s.pd[o]

\* With puts an entry.
LEMMA Put ==
  ASSUME NEW d, NEW k, NEW e
  PROVE  Entered(d, k, e, With(d, k, e))
BY DEF Entered, With

\* n is r with the entry e for v.
EntryPut(r, n, v, e) ==
  /\ IsView(n) /\ n.mem = r.mem /\ n.data = r.data /\ n.dir = r.dir
  /\ \A q \in Page \ {r.dir[v \div Pte]} : n.tab[q] = r.tab[q]
  /\ Entered(r.tab[r.dir[v \div Pte]], v % Pte, e, n.tab[r.dir[v \div Pte]])

\* SetEntry does so.
LEMMA EntrySet ==
  ASSUME NEW r, IsView(r), NEW v, NEW e, r.dir[v \div Pte] \in Page
  PROVE  EntryPut(r, SetEntry(r, v, e), v, e)
<1> DEFINE T == r.dir[v \div Pte]
           new == With(r.tab[T], v % Pte, e)
           n == SetEntry(r, v, e)
<1>1. r = [mem |-> r.mem, tab |-> r.tab, data |-> r.data, dir |-> r.dir] /\ DOMAIN r.tab = Page /\ DOMAIN r.data = Page
  BY DEF IsView
<1>2. n = [r EXCEPT !.tab = [r.tab EXCEPT ![T] = new]]
  BY DEF SetEntry
<1> HIDE DEF new, T, n
<1>3. n = [mem |-> r.mem, tab |-> [r.tab EXCEPT ![T] = new], data |-> r.data, dir |-> r.dir]
  BY <1>1, <1>2
<1>4. T \in Page
  BY DEF T
<1>5. n.tab[T] = new /\ (\A q \in Page \ {T} : n.tab[q] = r.tab[q]) /\ DOMAIN n.tab = Page
  BY <1>1, <1>3, <1>4
<1>6. Entered(r.tab[T], v % Pte, e, new)
  BY Put DEF new
<1>7. n.mem = r.mem /\ n.data = r.data /\ n.dir = r.dir
  BY <1>3
<1>8. IsView(n)
  BY <1>1, <1>3, <1>5, <1>7 DEF IsView
<1>9. EntryPut(r, n, v, e)
  BY <1>5, <1>6, <1>7, <1>8 DEF T, EntryPut
<1>10. QED
  BY <1>9 DEF n

\* New memory, and a page with new contents.
LEMMA DataSet ==
  ASSUME NEW r, IsView(r), NEW m, NEW q \in Page, NEW x
  PROVE  [r EXCEPT !.mem = m, !.data[q] = x]
           = [mem |-> m, tab |-> r.tab, data |-> [r.data EXCEPT ![q] = x], dir |-> r.dir]
<1>1. r = [mem |-> r.mem, tab |-> r.tab, data |-> r.data, dir |-> r.dir]
  BY DEF IsView
<1> DEFINE d == [r.data EXCEPT ![q] = x]
<1>2. [r EXCEPT !.mem = m, !.data[q] = x] = [r EXCEPT !.mem = m, !.data = d]
  OBVIOUS
<1> HIDE DEF d
<1>3. [r EXCEPT !.mem = m, !.data = d] = [mem |-> m, tab |-> r.tab, data |-> d, dir |-> r.dir]
  <2> DEFINE a == [r EXCEPT !.mem = m, !.data = d]
             b == [mem |-> m, tab |-> r.tab, data |-> d, dir |-> r.dir]
  <2>1. DOMAIN r = {"mem", "tab", "data", "dir"}
    BY ONLY <1>1
  <2>2. a = [k \in DOMAIN r |-> IF k = "mem" THEN m ELSE IF k = "data" THEN d ELSE r[k]]
    BY Zenon
  <2>3. b = [k \in {"mem", "tab", "data", "dir"} |-> b[k]]
    BY ONLY TRUE
  <2>4. b.mem = m /\ b.tab = r.tab /\ b.data = d /\ b.dir = r.dir
    BY ONLY TRUE
  <2>5. \A k \in {"mem", "tab", "data", "dir"} :
          b[k] = IF k = "mem" THEN m ELSE IF k = "data" THEN d ELSE r[k]
    BY ONLY <2>1, <2>4
  <2> HIDE DEF a, b
  <2>6. a = b
    BY ONLY <2>1, <2>2, <2>3, <2>5
  <2>7. QED
    BY ONLY <2>6 DEF a, b
<1>4. QED
  BY <1>2, <1>3 DEF d

\* A page is copied into a new one and a table as well.
MemCopied(m, n, Q, T, A, N) ==
  /\ MemOK(n)
  /\ A \in Page \ InUse(m) /\ n.type[A] = "user" /\ n.ref[A] = 1
  /\ N \in Page \ InUse(m) /\ n.type[N] = "pgtbl" /\ n.ref[N] = 1 /\ N # A
  /\ InUse(n) = InUse(m) \cup {A, N}
  /\ \A q \in InUse(m) : n.type[q] = m.type[q]
  /\ n.ref[Q] = m.ref[Q] - 1 /\ n.ref[T] = m.ref[T] - 1
  /\ \A q \in InUse(m) \ {Q, T} : n.ref[q] = m.ref[q]

\* A page, a reference, a page, another reference, ...
LEMMA CopyChain ==
  ASSUME NEW m, MemOK(m), NEW Q \in InUse(m), NEW T \in InUse(m), Q # T,
         NEW a, Got(m, a, "user"), NEW l, Dropped(a.mem, l, Q),
         NEW b, Got(l, b, "pgtbl"), NEW n, Dropped(b.mem, n, T)
  PROVE  MemCopied(m, n, Q, T, a.page, b.page)
<1>1. InUse(m) \subseteq Page
  BY RestIsNotInUse
<1>2. /\ MemOK(a.mem) /\ Q \in Page /\ T \in Page
      /\ a.page \in Page /\ a.page \notin InUse(m) /\ InUse(a.mem) = InUse(m) \cup {a.page}
      /\ a.mem.type[a.page] = "user" /\ a.mem.ref[a.page] = 1
      /\ \A q \in InUse(m) : a.mem.type[q] = m.type[q] /\ a.mem.ref[q] = m.ref[q]
  BY <1>1 DEF Got
<1>3. /\ InUse(l) = InUse(a.mem) /\ l.type = a.mem.type
      /\ l.ref[Q] = a.mem.ref[Q] - 1 /\ \A x \in Page \ {Q} : l.ref[x] = a.mem.ref[x]
  BY DEF Dropped
<1>4. /\ b.page \in Page /\ b.page \notin InUse(l) /\ InUse(b.mem) = InUse(l) \cup {b.page}
      /\ b.mem.type[b.page] = "pgtbl" /\ b.mem.ref[b.page] = 1
      /\ \A q \in InUse(l) : b.mem.type[q] = l.type[q] /\ b.mem.ref[q] = l.ref[q]
  BY DEF Got
<1>5. /\ MemOK(n) /\ InUse(n) = InUse(b.mem) /\ n.type = b.mem.type
      /\ n.ref[T] = b.mem.ref[T] - 1 /\ \A x \in Page \ {T} : n.ref[x] = b.mem.ref[x]
  BY DEF Dropped
<1>6. InUse(n) = InUse(m) \cup {a.page, b.page}
  BY <1>2, <1>3, <1>4, <1>5
<1>7. n.type[a.page] = "user" /\ n.ref[a.page] = 1 /\ n.type[b.page] = "pgtbl" /\ n.ref[b.page] = 1
  BY <1>2, <1>3, <1>4, <1>5
<1>8. \A q \in InUse(m) : n.type[q] = m.type[q]
  BY <1>2, <1>3, <1>4, <1>5
<1>9. n.ref[Q] = m.ref[Q] - 1 /\ n.ref[T] = m.ref[T] - 1
  BY <1>2, <1>3, <1>4, <1>5
<1>10. \A q \in InUse(m) \ {Q, T} : n.ref[q] = m.ref[q]
  BY <1>1, <1>2, <1>3, <1>4, <1>5
<1>11. QED
  BY <1>2, <1>3, <1>4, <1>5, <1>6, <1>7, <1>8, <1>9, <1>10 DEF MemCopied

\* ... or a page, both references, and a page.
LEMMA ForkChain ==
  ASSUME NEW m, MemOK(m), NEW Q \in InUse(m), NEW T \in InUse(m), Q # T,
         NEW a, Got(m, a, "user"), NEW h, Dropped(a.mem, h, Q), NEW l, Dropped(h, l, T),
         NEW b, Got(l, b, "pgtbl")
  PROVE  MemCopied(m, b.mem, Q, T, a.page, b.page)
<1>1. InUse(m) \subseteq Page
  BY RestIsNotInUse
<1>2. /\ MemOK(a.mem) /\ Q \in Page /\ T \in Page
      /\ a.page \in Page /\ a.page \notin InUse(m) /\ InUse(a.mem) = InUse(m) \cup {a.page}
      /\ a.mem.type[a.page] = "user" /\ a.mem.ref[a.page] = 1
      /\ \A q \in InUse(m) : a.mem.type[q] = m.type[q] /\ a.mem.ref[q] = m.ref[q]
  BY <1>1 DEF Got
<1>3. /\ InUse(h) = InUse(a.mem) /\ h.type = a.mem.type
      /\ h.ref[Q] = a.mem.ref[Q] - 1 /\ \A x \in Page \ {Q} : h.ref[x] = a.mem.ref[x]
  BY DEF Dropped
<1>4. /\ InUse(l) = InUse(h) /\ l.type = h.type
      /\ l.ref[T] = h.ref[T] - 1 /\ \A x \in Page \ {T} : l.ref[x] = h.ref[x]
  BY DEF Dropped
<1>5. /\ MemOK(b.mem)
      /\ b.page \in Page /\ b.page \notin InUse(l) /\ InUse(b.mem) = InUse(l) \cup {b.page}
      /\ b.mem.type[b.page] = "pgtbl" /\ b.mem.ref[b.page] = 1
      /\ \A q \in InUse(l) : b.mem.type[q] = l.type[q] /\ b.mem.ref[q] = l.ref[q]
  BY DEF Got
<1>6. InUse(b.mem) = InUse(m) \cup {a.page, b.page}
  BY <1>2, <1>3, <1>4, <1>5
<1>7. b.mem.type[a.page] = "user" /\ b.mem.ref[a.page] = 1
  BY <1>2, <1>3, <1>4, <1>5
<1>8. \A q \in InUse(m) : b.mem.type[q] = m.type[q]
  BY <1>2, <1>3, <1>4, <1>5
<1>9. b.mem.ref[Q] = m.ref[Q] - 1 /\ b.mem.ref[T] = m.ref[T] - 1
  BY <1>2, <1>3, <1>4, <1>5
<1>10. \A q \in InUse(m) \ {Q, T} : b.mem.ref[q] = m.ref[q]
  BY <1>1, <1>2, <1>3, <1>4, <1>5
<1>11. QED
  BY <1>2, <1>3, <1>4, <1>5, <1>6, <1>7, <1>8, <1>9, <1>10 DEF MemCopied

\* There is a page as long as there is room.
LEMMA PageGot ==
  ASSUME BitsFit, NEW m, MemOK(m), NEW k \in Nat, Cardinality(Rest(m)) >= k + 1,
         NEW type \in {"user", "pgtbl", "pool"}
  PROVE  Got(m, PageAlloc(m, 1, type), type) /\ Cardinality(Rest(PageAlloc(m, 1, type).mem)) >= k
<1>1. Cardinality(Rest(m)) \in Nat
  BY RestIsNotInUse
<1>2. Rest(m) # {}
  BY <1>1, FS_EmptySet
<1>3. Got(m, PageAlloc(m, 1, type), type)
  BY <1>2, PageGiven
<1>4. QED
  BY <1>3, RoomLess

\* What a process has at an address of its own.
LEMMA PlaceIs ==
  ASSUME NEW s, Core(s), NEW p \in s.live, NEW v \in Area(s, p)
  PROVE  /\ v \in Addr /\ Holds(s, p, v) /\ v \div Pte \in DOMAIN s.pd[p] /\ v % Pte \in DOMAIN s.tab[s.pd[p][v \div Pte]]
         /\ At(s, p, v) \in InUse(s.mem) /\ At(s, p, v) \in Page \ Spare /\ s.mem.type[At(s, p, v)] = "user"
         /\ s.pd[p][v \div Pte] \in InUse(s.mem) /\ s.pd[p][v \div Pte] \in Page
         /\ s.mem.type[s.pd[p][v \div Pte]] = "pgtbl"
         /\ Sharers(s, s.pd[p][v \div Pte], v \div Pte) \subseteq s.live
         /\ p \in Sharers(s, s.pd[p][v \div Pte], v \div Pte)
         /\ s.mem.ref[s.pd[p][v \div Pte]] >= Cardinality(Sharers(s, s.pd[p][v \div Pte], v \div Pte))
<1>1. v \in Addr
  BY AreaIs DEF Core
<1>2. Holds(s, p, v)
  BY <1>1 DEF Core, Mapped
<1>3. v \div Pte \in DOMAIN s.pd[p] /\ v % Pte \in DOMAIN s.tab[s.pd[p][v \div Pte]]
  BY <1>2 DEF Holds
<1>4. At(s, p, v) \in Page /\ s.pd[p][v \div Pte] \in Page
  BY <1>1, <1>2, SlotIs DEF Core
<1>5. s.mem.type[At(s, p, v)] = "user" /\ At(s, p, v) \notin Spare
  BY DEF Core, PagesUsed
<1>6. /\ s.mem.type[s.pd[p][v \div Pte]] = "pgtbl"
      /\ s.mem.ref[s.pd[p][v \div Pte]] >= Cardinality(Sharers(s, s.pd[p][v \div Pte], v \div Pte))
  BY <1>3 DEF Core, TablesUsed
<1>7. /\ Sharers(s, s.pd[p][v \div Pte], v \div Pte) \subseteq s.live
      /\ p \in Sharers(s, s.pd[p][v \div Pte], v \div Pte)
  BY <1>3 DEF Sharers
<1>8. QED
  BY <1>1, <1>2, <1>3, <1>4, <1>5, <1>6, <1>7 DEF InUse

\* p has a page of its own at v, with the contents of the one it had.
Copied(s, t, p, v, r, n) ==
  \E A \in Page, N \in Page :
    /\ OwnCopy(s, t, p, v, A, N)
    /\ IsView(n) /\ n.data[A] = r.data[At(s, p, v)] /\ \A x \in Page \ {A} : n.data[x] = r.data[x]

\* All is there for a copy A of p's page at v but the entry in the table N.
CopyReady(s, p, v, r, A, N, o) ==
  LET T == s.pd[p][v \div Pte]
      Q == At(s, p, v) IN
  /\ A \in Page /\ A \notin InUse(s.mem) /\ N \in Page /\ N # A
  /\ IsView(o) /\ MemOK(o.mem) /\ o.mem.type[A] = "user" /\ o.mem.ref[A] = 1 /\ o.mem.type[N] = "pgtbl"
  /\ \/ N = T /\ o.mem.ref[T] = s.mem.ref[T] /\ Sharers(s, T, v \div Pte) \subseteq {p}
     \/ N \notin InUse(s.mem) /\ o.mem.ref[N] = 1 /\ o.mem.ref[T] = s.mem.ref[T] - 1
  /\ InUse(o.mem) = InUse(s.mem) \cup {A, N}
  /\ \A q \in InUse(s.mem) : o.mem.type[q] = s.mem.type[q]
  /\ o.mem.ref[Q] = s.mem.ref[Q] - 1
  /\ \A q \in InUse(s.mem) \ {Q, T} : o.mem.ref[q] = s.mem.ref[q]
  /\ (\A q \in Page \ {N} : o.tab[q] = s.tab[q]) /\ o.tab[N] = s.tab[T]
  /\ DOMAIN o.dir = DOMAIN s.pd[p] /\ o.dir[v \div Pte] = N
  /\ \A j \in DOMAIN s.pd[p] \ {v \div Pte} : o.dir[j] = s.pd[p][j]
  /\ o.data[A] = r.data[Q] /\ \A x \in Page \ {A} : o.data[x] = r.data[x]

\* The entry for the copy completes it.
LEMMA CopySet ==
  ASSUME NEW s, NEW p, NEW v, NEW r, NEW A, NEW N, NEW o, CopyReady(s, p, v, r, A, N, o),
         NEW t, Replaced(s, t, p, SetEntry(o, v, [page |-> A, w |-> TRUE]))
  PROVE  Copied(s, t, p, v, r, SetEntry(o, v, [page |-> A, w |-> TRUE]))
<1> DEFINE i == v \div Pte
           T == s.pd[p][i]
           Q == At(s, p, v)
           new == [page |-> A, w |-> TRUE]
           n == SetEntry(o, v, new)
<1>1. /\ A \in Page /\ A \notin InUse(s.mem) /\ N \in Page /\ N # A
      /\ IsView(o) /\ MemOK(o.mem) /\ o.mem.type[A] = "user" /\ o.mem.ref[A] = 1 /\ o.mem.type[N] = "pgtbl"
      /\ \/ N = T /\ o.mem.ref[T] = s.mem.ref[T] /\ Sharers(s, T, i) \subseteq {p}
         \/ N \notin InUse(s.mem) /\ o.mem.ref[N] = 1 /\ o.mem.ref[T] = s.mem.ref[T] - 1
      /\ InUse(o.mem) = InUse(s.mem) \cup {A, N}
      /\ \A q \in InUse(s.mem) : o.mem.type[q] = s.mem.type[q]
      /\ o.mem.ref[Q] = s.mem.ref[Q] - 1
      /\ \A q \in InUse(s.mem) \ {Q, T} : o.mem.ref[q] = s.mem.ref[q]
      /\ (\A q \in Page \ {N} : o.tab[q] = s.tab[q]) /\ o.tab[N] = s.tab[T]
      /\ DOMAIN o.dir = DOMAIN s.pd[p] /\ o.dir[i] = N
      /\ \A j \in DOMAIN s.pd[p] \ {i} : o.dir[j] = s.pd[p][j]
      /\ o.data[A] = r.data[Q] /\ \A x \in Page \ {A} : o.data[x] = r.data[x]
  BY DEF CopyReady
<1>2. EntryPut(o, n, v, new)
  BY <1>1, EntrySet
<1>3. Replaced(s, t, p, n)
  OBVIOUS
<1> HIDE DEF n, new
<1>4. /\ IsView(n) /\ n.mem = o.mem /\ n.data = o.data /\ n.dir = o.dir
      /\ \A q \in Page \ {N} : n.tab[q] = o.tab[q]
      /\ Entered(s.tab[T], v % Pte, new, n.tab[N])
  BY <1>1, <1>2 DEF EntryPut
<1>5. /\ t.mem = n.mem /\ t.tab = n.tab /\ t.pd[p] = n.dir
      /\ t.live = s.live
      /\ \A x \in s.live : /\ t.dirpage[x] = s.dirpage[x] /\ t.brk[x] = s.brk[x]
                           /\ x # p => t.pd[x] = s.pd[x]
  BY <1>3 DEF Replaced
<1>6. OwnCopy(s, t, p, v, A, N)
  <2> HIDE DEF T, Q, i
  <2>1. /\ MemOK(t.mem)
        /\ A \in Page \ InUse(s.mem) /\ t.mem.type[A] = "user" /\ t.mem.ref[A] = 1
        /\ N \in Page /\ N # A /\ t.mem.type[N] = "pgtbl"
        /\ \/ N = T /\ t.mem.ref[T] = s.mem.ref[T] /\ Sharers(s, T, i) \subseteq {p}
           \/ N \notin InUse(s.mem) /\ t.mem.ref[N] = 1 /\ t.mem.ref[T] = s.mem.ref[T] - 1
        /\ InUse(t.mem) = InUse(s.mem) \cup {A, N}
        /\ \A q \in InUse(s.mem) : t.mem.type[q] = s.mem.type[q]
        /\ t.mem.ref[Q] = s.mem.ref[Q] - 1
        /\ \A q \in InUse(s.mem) \ {Q, T} : t.mem.ref[q] = s.mem.ref[q]
    BY <1>1, <1>4, <1>5
  <2>2. /\ \A q \in Page \ {N} : t.tab[q] = s.tab[q]
        /\ Entered(s.tab[T], v % Pte, new, t.tab[N])
        /\ DOMAIN t.pd[p] = DOMAIN s.pd[p] /\ t.pd[p][i] = N
        /\ \A j \in DOMAIN s.pd[p] \ {i} : t.pd[p][j] = s.pd[p][j]
    BY <1>1, <1>4, <1>5
  <2>3. QED
    BY <1>5, <2>1, <2>2 DEF OwnCopy, T, Q, i, new
<1>7. Copied(s, t, p, v, r, n)
  <2>1. n.data[A] = r.data[At(s, p, v)] /\ \A x \in Page \ {A} : n.data[x] = r.data[x]
    BY <1>1, <1>4
  <2>2. A \in Page /\ N \in Page /\ IsView(n)
    BY <1>1, <1>4
  <2>3. QED
    BY ONLY <1>6, <2>1, <2>2 DEF Copied
<1>8. QED
  BY <1>7 DEF n, new

\* do_page_fault with more than one reference.
LEMMA CopyOnWriteIs ==
  ASSUME BitsFit, NEW s, Core(s), NEW p \in s.live, NEW v \in Area(s, p), NEW r, ViewOf(r, s, p),
         Cardinality(Rest(s.mem)) >= 2, NEW n, n = CopyOnWrite(r, v), NEW t, Replaced(s, t, p, n)
  PROVE  Copied(s, t, p, v, r, n)
<1> DEFINE i == v \div Pte
           T == s.pd[p][i]
           Q == At(s, p, v)
           m == s.mem
           a == PageAlloc(m, 1, "user")
           A == a.page
           l == Unref(a.mem, Q)
           d == [r.data EXCEPT ![A] = r.data[Q]]
           h == [mem |-> l, tab |-> s.tab, data |-> d, dir |-> s.pd[p]]
           o == OwnTable(h, v)
           b == PageAlloc(l, 1, "pgtbl")
           N == b.page
           k == Unref(b.mem, T)
           e == [page |-> A, w |-> TRUE]
<1>1. /\ v \in Addr /\ Holds(s, p, v) /\ i \in DOMAIN s.pd[p]
      /\ Q \in InUse(m) /\ Q \in Page /\ m.type[Q] = "user"
      /\ T \in InUse(m) /\ T \in Page /\ m.type[T] = "pgtbl"
      /\ Sharers(s, T, i) \subseteq s.live /\ p \in Sharers(s, T, i) /\ m.ref[T] >= Cardinality(Sharers(s, T, i))
  BY PlaceIs
<1>2. /\ r = [mem |-> m, tab |-> s.tab, data |-> r.data, dir |-> s.pd[p]]
      /\ DOMAIN s.tab = Page /\ DOMAIN r.data = Page
  BY DEF ViewOf, IsView
<1>3. Phys(r, v) = Q
  BY <1>2 DEF Phys, Entry, At, Slot
<1>5. MemOK(m) /\ InUse(m) \subseteq Page /\ m.ref \in [Page -> Int] /\ s.live \subseteq Pid
  BY RestIsNotInUse DEF Core, Shape
<1>6. Got(m, a, "user") /\ Cardinality(Rest(a.mem)) >= 1
  BY <1>5, PageGot
<1>0. A \in Page /\ IsView(r)
  BY <1>6 DEF Got, ViewOf
<1>4. n = SetEntry(o, v, e)
  <2>1. [r EXCEPT !.mem = l, !.data[A] = r.data[Q]]
           = [mem |-> l, tab |-> r.tab, data |-> [r.data EXCEPT ![A] = r.data[Q]], dir |-> r.dir]
    <3> HIDE DEF l, A, Q
    <3>1. A \in Page /\ IsView(r)
      BY <1>0
    <3>2. QED
      BY ONLY <3>1, DataSet, Zenon
  <2>2. r.mem = m /\ r.tab = s.tab /\ r.dir = s.pd[p]
    BY DEF ViewOf
  <2>3. QED
    BY <1>3, <2>1, <2>2 DEF CopyOnWrite
<1> HIDE DEF a, m
<1>7. /\ MemOK(a.mem) /\ A \in Page /\ A \notin InUse(m) /\ InUse(a.mem) = InUse(m) \cup {A}
      /\ a.mem.type[A] = "user" /\ a.mem.ref[A] = 1
      /\ \A q \in InUse(m) : a.mem.type[q] = m.type[q] /\ a.mem.ref[q] = m.ref[q]
  BY <1>6 DEF Got
<1>8. Dropped(a.mem, l, Q)
  BY <1>1, <1>7, DropIs
<1>9. /\ l = h.mem /\ h.tab = s.tab /\ h.data = d /\ h.dir = s.pd[p] /\ IsView(h)
      /\ d[A] = r.data[Q] /\ (\A x \in Page \ {A} : d[x] = r.data[x])
  BY <1>2, <1>7 DEF IsView
<1> HIDE DEF l, d
<1>10. /\ MemOK(l) /\ InUse(l) = InUse(m) \cup {A} /\ l.type = a.mem.type /\ Rest(l) = Rest(a.mem)
       /\ l.ref[Q] = m.ref[Q] - 1 /\ l.ref[A] = 1 /\ \A q \in InUse(m) \ {Q} : l.ref[q] = m.ref[q]
  BY <1>1, <1>5, <1>7, <1>8 DEF Dropped
<1>11. Q # T
  BY <1>1
<1>12. CASE l.ref[T] <= 1
  <2>1. o = h
    BY <1>9, <1>12 DEF OwnTable
  <2>2. Sharers(s, T, i) \subseteq {p}
    <3> DEFINE S == Sharers(s, T, i)
    <3>1. IsFiniteSet(S) /\ Cardinality(S) \in Nat
      BY <1>5, FewHave
    <3>2. p \in S /\ m.ref[T] >= Cardinality(S) /\ m.ref[T] \in Int /\ m.ref[T] <= 1
      BY <1>1, <1>5, <1>10, <1>11, <1>12
    <3> HIDE DEF S
    <3>3. Cardinality(S) # 0
      BY <3>1, <3>2, FS_EmptySet
    <3>4. Cardinality(S) = 1
      BY <3>1, <3>2, <3>3
    <3>5. \E x : S = {x}
      BY <3>1, <3>4, FS_Singleton
    <3>6. QED
      BY <3>2, <3>5 DEF S
  <2>3. /\ MemOK(l) /\ l.type[A] = "user" /\ l.ref[A] = 1 /\ l.type[T] = "pgtbl" /\ T # A
        /\ InUse(l) = InUse(m) \cup {A, T} /\ \A q \in InUse(m) : l.type[q] = m.type[q]
        /\ l.ref[T] = m.ref[T]
    BY <1>1, <1>7, <1>10, <1>11
  <2> HIDE DEF h, o
  <2>4. n = SetEntry(h, v, e)
    BY <1>4, <2>1
  <2>5. /\ h.mem = l /\ h.tab = s.tab /\ h.data = d /\ h.dir = s.pd[p] /\ IsView(h)
    BY <1>9
  <2> HIDE DEF T, Q, A, i
  <2>6. CopyReady(s, p, v, r, A, T, h)
    <3>1. /\ A \in Page /\ A \notin InUse(m) /\ T \in Page /\ T # A
          /\ MemOK(l) /\ l.type[A] = "user" /\ l.ref[A] = 1 /\ l.type[T] = "pgtbl"
          /\ l.ref[T] = m.ref[T] /\ Sharers(s, T, i) \subseteq {p}
          /\ InUse(l) = InUse(m) \cup {A, T}
          /\ \A q \in InUse(m) : l.type[q] = m.type[q]
          /\ l.ref[Q] = m.ref[Q] - 1
          /\ \A q \in InUse(m) \ {Q, T} : l.ref[q] = m.ref[q]
      BY <1>1, <1>7, <1>10, <2>2, <2>3, Zenon
    <3>2. /\ h.mem = l /\ IsView(h)
          /\ (\A q \in Page \ {T} : h.tab[q] = s.tab[q]) /\ h.tab[T] = s.tab[T]
          /\ DOMAIN h.dir = DOMAIN s.pd[p] /\ h.dir[i] = T
          /\ \A j \in DOMAIN s.pd[p] \ {i} : h.dir[j] = s.pd[p][j]
          /\ h.data[A] = r.data[Q] /\ \A x \in Page \ {A} : h.data[x] = r.data[x]
      <4>1. h.dir[i] = T
        BY <2>5 DEF T
      <4>2. QED
        BY <1>9, <2>5, <4>1, Zenon
    <3>3. QED
      BY <3>1, <3>2, Zenon DEF CopyReady, m, T, Q, i
  <2>7. Replaced(s, t, p, SetEntry(h, v, e))
    BY <2>4
  <2>8. QED
    BY <2>4, <2>6, <2>7, CopySet
<1>13. CASE ~(l.ref[T] <= 1)
  <2> DEFINE g == [mem |-> k, tab |-> [s.tab EXCEPT ![N] = s.tab[T]], data |-> d, dir |-> [s.pd[p] EXCEPT ![i] = N]]
  <2>1. o = g
    BY <1>9, <1>13 DEF OwnTable
  <2>2. Got(l, b, "pgtbl")
    <3>1. 0 \in Nat /\ Cardinality(Rest(l)) >= 0 + 1
      BY <1>6, <1>10
    <3>2. QED
      BY <1>10, <3>1, PageGot
  <2> HIDE DEF b
  <2>3. Dropped(b.mem, k, T)
    BY <1>1, <2>2, DropIs DEF Got
  <2> HIDE DEF k
  <2>4. MemCopied(m, k, Q, T, A, N)
    BY <1>1, <1>5, <1>6, <1>8, <1>11, <2>2, <2>3, CopyChain
  <2>5. /\ MemOK(k)
        /\ A \in Page \ InUse(m) /\ k.type[A] = "user" /\ k.ref[A] = 1
        /\ N \in Page /\ N \notin InUse(m) /\ k.type[N] = "pgtbl" /\ k.ref[N] = 1 /\ N # A
        /\ InUse(k) = InUse(m) \cup {A, N}
        /\ \A q \in InUse(m) : k.type[q] = m.type[q]
        /\ k.ref[Q] = m.ref[Q] - 1 /\ k.ref[T] = m.ref[T] - 1
        /\ \A q \in InUse(m) \ {Q, T} : k.ref[q] = m.ref[q]
    BY <2>4 DEF MemCopied
  <2>6. /\ g.mem = k /\ g.data = d /\ IsView(g)
        /\ g.tab[N] = s.tab[T] /\ (\A q \in Page \ {N} : g.tab[q] = s.tab[q])
        /\ DOMAIN g.dir = DOMAIN s.pd[p] /\ g.dir[i] = N
        /\ \A j \in DOMAIN s.pd[p] \ {i} : g.dir[j] = s.pd[p][j]
    BY <1>1, <1>2, <1>9, <2>5 DEF IsView
  <2> HIDE DEF g, o
  <2>7. n = SetEntry(g, v, e)
    BY <1>4, <2>1
  <2> HIDE DEF T, Q, A, N, i
  <2>8. CopyReady(s, p, v, r, A, N, g)
    BY <1>1, <1>9, <2>5, <2>6 DEF CopyReady, m, T, Q, i
  <2>9. Replaced(s, t, p, SetEntry(g, v, e))
    BY <2>7
  <2>10. QED
    BY <2>7, <2>8, <2>9, CopySet
<1>14. QED
  BY <1>12, <1>13

-----------------------------------------------------------------------------
(* fork *)

\* The child gets a page of the message buffer of its own.
LEMMA OwnPageIs ==
  ASSUME BitsFit, NEW s, Core(s), NEW p \in s.live, NEW v \in Area(s, p), NEW r, ViewOf(r, s, p),
         NEW k \in Nat, Cardinality(Rest(s.mem)) >= k + 2,
         NEW n, n = OwnPage(r, v), NEW t, Replaced(s, t, p, n)
  PROVE  Copied(s, t, p, v, r, n) /\ Cardinality(Rest(n.mem)) >= k
<1> DEFINE i == v \div Pte
           T == s.pd[p][i]
           Q == At(s, p, v)
           m == s.mem
           a == PageAlloc(m, 1, "user")
           A == a.page
           h == Unref(a.mem, Q)
           l == Unref(h, T)
           b == PageAlloc(l, 1, "pgtbl")
           N == b.page
           d == [r.data EXCEPT ![A] = r.data[Q]]
           g == [mem |-> b.mem, tab |-> [s.tab EXCEPT ![N] = s.tab[T]], data |-> d,
                 dir |-> [s.pd[p] EXCEPT ![i] = N]]
           e == [page |-> A, w |-> TRUE]
<1>1. /\ v \in Addr /\ Holds(s, p, v) /\ i \in DOMAIN s.pd[p]
      /\ Q \in InUse(m) /\ Q \in Page /\ m.type[Q] = "user"
      /\ T \in InUse(m) /\ T \in Page /\ m.type[T] = "pgtbl"
  BY PlaceIs
<1>2. /\ r = [mem |-> m, tab |-> s.tab, data |-> r.data, dir |-> s.pd[p]]
      /\ DOMAIN s.tab = Page /\ DOMAIN r.data = Page
  BY DEF ViewOf, IsView
<1>3. Phys(r, v) = Q
  BY <1>2 DEF Phys, Entry, At, Slot
<1>4. r.mem = m /\ r.tab = s.tab /\ r.dir = s.pd[p] /\ IsView(r)
  BY DEF ViewOf
<1>5. MemOK(m) /\ InUse(m) \subseteq Page /\ m.ref \in [Page -> Int]
  BY RestIsNotInUse DEF Core, Shape
<1>7. n = SetEntry(g, v, e)
  BY <1>3, <1>4 DEF OwnPage
<1>8. Got(m, a, "user") /\ Cardinality(Rest(a.mem)) >= k + 1
  <2>1. k + 1 \in Nat /\ Cardinality(Rest(m)) >= (k + 1) + 1
    BY RestIsNotInUse, <1>5
  <2> HIDE DEF a, m
  <2>2. QED
    BY <1>5, <2>1, PageGot DEF a
<1> HIDE DEF a, m
<1>9. MemOK(a.mem) /\ A \in Page /\ A \notin InUse(m)
  BY <1>8 DEF Got
<1>10. Dropped(a.mem, h, Q)
  BY <1>1, <1>9, DropIs
<1> HIDE DEF h
<1>11. Dropped(h, l, T)
  <2>1. MemOK(h)
    BY <1>10 DEF Dropped
  <2>2. QED
    BY <1>1, <2>1, DropIs
<1> HIDE DEF l
<1>12. MemOK(l) /\ Rest(l) = Rest(a.mem)
  BY <1>10, <1>11 DEF Dropped
<1>13. Got(l, b, "pgtbl") /\ Cardinality(Rest(b.mem)) >= k
  BY <1>8, <1>12, PageGot
<1> HIDE DEF b
<1>14. Q # T
  BY <1>1
<1>15. MemCopied(m, b.mem, Q, T, A, N)
  BY <1>1, <1>5, <1>8, <1>10, <1>11, <1>13, <1>14, ForkChain
<1>16. /\ MemOK(b.mem)
       /\ A \in Page \ InUse(m) /\ b.mem.type[A] = "user" /\ b.mem.ref[A] = 1
       /\ N \in Page /\ N \notin InUse(m) /\ b.mem.type[N] = "pgtbl" /\ b.mem.ref[N] = 1 /\ N # A
       /\ InUse(b.mem) = InUse(m) \cup {A, N}
       /\ \A q \in InUse(m) : b.mem.type[q] = m.type[q]
       /\ b.mem.ref[Q] = m.ref[Q] - 1 /\ b.mem.ref[T] = m.ref[T] - 1
       /\ \A q \in InUse(m) \ {Q, T} : b.mem.ref[q] = m.ref[q]
  BY <1>15 DEF MemCopied
<1>17. d[A] = r.data[Q] /\ (\A x \in Page \ {A} : d[x] = r.data[x]) /\ DOMAIN d = Page
  BY <1>2, <1>9
<1> HIDE DEF d
<1>18. /\ g.mem = b.mem /\ g.data = d /\ IsView(g)
       /\ g.tab[N] = s.tab[T] /\ (\A q \in Page \ {N} : g.tab[q] = s.tab[q])
       /\ DOMAIN g.dir = DOMAIN s.pd[p] /\ g.dir[i] = N
       /\ \A j \in DOMAIN s.pd[p] \ {i} : g.dir[j] = s.pd[p][j]
  BY <1>1, <1>2, <1>16, <1>17 DEF IsView
<1> HIDE DEF g
<1> HIDE DEF T, Q, A, N, i
<1>19. CopyReady(s, p, v, r, A, N, g)
  <2>1. /\ A \in Page /\ A \notin InUse(m) /\ N \in Page /\ N # A
        /\ IsView(g) /\ MemOK(g.mem) /\ g.mem.type[A] = "user" /\ g.mem.ref[A] = 1 /\ g.mem.type[N] = "pgtbl"
        /\ N \notin InUse(m) /\ g.mem.ref[N] = 1 /\ g.mem.ref[T] = m.ref[T] - 1
        /\ InUse(g.mem) = InUse(m) \cup {A, N}
        /\ \A q \in InUse(m) : g.mem.type[q] = m.type[q]
        /\ g.mem.ref[Q] = m.ref[Q] - 1
        /\ \A q \in InUse(m) \ {Q, T} : g.mem.ref[q] = m.ref[q]
        /\ (\A q \in Page \ {N} : g.tab[q] = s.tab[q]) /\ g.tab[N] = s.tab[T]
        /\ DOMAIN g.dir = DOMAIN s.pd[p] /\ g.dir[i] = N
        /\ \A j \in DOMAIN s.pd[p] \ {i} : g.dir[j] = s.pd[p][j]
        /\ g.data[A] = r.data[Q] /\ \A x \in Page \ {A} : g.data[x] = r.data[x]
    BY <1>1, <1>16, <1>17, <1>18 DEF IsView
  <2>2. QED
    BY <2>1, Zenon DEF CopyReady, m, T, Q, i
<1>20. Replaced(s, t, p, SetEntry(g, v, e))
  BY <1>7
<1>21. Copied(s, t, p, v, r, n)
  BY <1>7, <1>19, <1>20, CopySet
<1>22. n.mem = g.mem
  <2>1. g.dir[v \div Pte] \in Page
    BY <1>16, <1>18 DEF i
  <2>2. EntryPut(g, n, v, e)
    BY <1>7, <1>18, <2>1, EntrySet
  <2>3. QED
    BY <2>2 DEF EntryPut
<1>23. QED
  BY <1>13, <1>18, <1>21, <1>22

-----------------------------------------------------------------------------
(* The model's variables as such a state *)

State == [mem |-> mem, tab |-> tab, pd |-> pd, dirpage |-> dirpage, brk |-> brk, live |-> live]

Domains == /\ DOMAIN tab = Page /\ DOMAIN data = Page
           /\ DOMAIN pd = Pid /\ DOMAIN dirpage = Pid /\ DOMAIN brk = Pid /\ DOMAIN trap = Pid

\* The parts of the state.
LEMMA StateIs ==
  /\ State.mem = mem /\ State.tab = tab /\ State.pd = pd
  /\ State.dirpage = dirpage /\ State.brk = brk /\ State.live = live
BY DEF State

\* What is there at an address of p.
LEMMA ViewIs ==
  ASSUME NEW p
  PROVE  /\ Domains => ViewOf(View(p), State, p)
         /\ Pages(p) = Area(State, p)
         /\ \A v : /\ Has(View(p), v) <=> Holds(State, p, v)
                   /\ Entry(View(p), v) = Slot(State, p, v)
                   /\ Phys(View(p), v) = At(State, p, v)
<1>1. /\ View(p).mem = mem /\ View(p).tab = tab /\ View(p).data = data /\ View(p).dir = pd[p]
      /\ View(p) = [mem |-> mem, tab |-> tab, data |-> data, dir |-> pd[p]]
  BY DEF View
<1> HIDE DEF View
<1>2. Domains => IsView(View(p))
  BY <1>1 DEF IsView, Domains
<1>3. Domains => ViewOf(View(p), State, p)
  BY <1>1, <1>2, StateIs DEF ViewOf
<1>4. Pages(p) = Area(State, p)
  BY StateIs DEF Pages, Area
<1>5. \A v : /\ Has(View(p), v) <=> Holds(State, p, v)
             /\ Entry(View(p), v) = Slot(State, p, v)
  BY <1>1, StateIs DEF Has, Holds, Entry, Slot
<1>6. \A v : Phys(View(p), v) = At(State, p, v)
  BY <1>5 DEF Phys, At
<1>7. QED
  BY <1>3, <1>4, <1>5, <1>6

\* What is left in pages that are no tables does not matter.
LEMMA TablesCleared ==
  ASSUME NEW s, Core(s), NEW t, SameView(s, t), t.tab = Cleared(s.tab, s.mem, "pgtbl", <<>>)
  PROVE  Core(t)
<1>1. \A q \in Page : IsTable(s.tab[q])
  BY DEF Core, Shape
<1>2. ASSUME NEW q \in Page
      PROVE  IsTable(t.tab[q]) /\ (s.mem.type[q] = "pgtbl" => t.tab[q] = s.tab[q])
  <2>1. t.tab[q] = IF s.mem.type[q] = "pgtbl" THEN s.tab[q] ELSE <<>>
    BY DEF Cleared
  <2>2. IsTable(<<>>)
    BY DEF IsTable
  <2>3. QED
    BY <1>1, <2>1, <2>2
<1>3. QED
  BY <1>2, CoreCleared

\* fork: parent and child share everything.
LEMMA SharedIs ==
  ASSUME BitsFit, Core(State), Domains, NEW u \in live, NEW c \in Pid \ live,
         NEW k \in Nat, Cardinality(Rest(mem)) >= k + 1,
         NEW t, t = [mem |-> Shared(u).mem, tab |-> Shared(u).tab, pd |-> [pd EXCEPT ![c] = Shared(u).dir],
                     dirpage |-> [dirpage EXCEPT ![c] = NewDir.page],
                     brk |-> [brk EXCEPT ![c] = brk[u]], live |-> live \cup {c}]
  PROVE  /\ ShareAll(State, t, u, c, NewDir.page)
         /\ Cardinality(Rest(t.mem)) >= k /\ ViewOf(Shared(u), t, c) /\ Shared(u).data = data
<1> DEFINE tables == [i \in TablesOf(brk[u]) |-> pd[u][i]]
           phys   == [v \in Pages(u) |-> Phys(View(u), v)]
           a == NewDir
           D == NewDir.page
           m == Retain(a.mem, tables)
           n == Retain(m, phys)
           W(q, j) == tab[q][j].w /\ \A v \in Pages(u) : tables[v \div Pte] = q => v % Pte # j
           new == [q \in Page |-> [j \in DOMAIN tab[q] |-> [page |-> tab[q][j].page, w |-> W(q, j)]]]
<1>1. Shared(u) = [mem |-> n, tab |-> new, data |-> data, dir |-> tables]
  BY Zenon DEF Shared, ReadOnly
<1>2. MemOK(mem) /\ InUse(mem) \subseteq Page /\ u \in Pid /\ c \in Pid /\ c \notin live /\ c # u
      /\ Break(brk[u]) /\ mem.ref \in [Page -> Int]
  BY StateIs, RestIsNotInUse DEF Core, Shape
<1>3. phys = [v \in Area(State, u) |-> At(State, u, v)]
  BY ViewIs
<1>4. IsFiniteSet(DOMAIN tables) /\ IsFiniteSet(DOMAIN phys)
  BY <1>2, AreaPlace DEF Pages
<1>5. Got(mem, a, "pgtbl") /\ Cardinality(Rest(a.mem)) >= k
  BY <1>2, PageGot DEF NewDir
<1> HIDE DEF a
<1>6. /\ MemOK(a.mem) /\ D \in Page /\ D \notin InUse(mem) /\ InUse(a.mem) = InUse(mem) \cup {D}
      /\ a.mem.type[D] = "pgtbl" /\ a.mem.ref[D] = 1
      /\ \A q \in InUse(mem) : a.mem.type[q] = mem.type[q] /\ a.mem.ref[q] = mem.ref[q]
  BY <1>5 DEF Got, a
<1> HIDE DEF tables, phys
<1>7. /\ MemOK(m) /\ InUse(m) = InUse(a.mem) /\ Rest(m) = Rest(a.mem) /\ m.type = a.mem.type
      /\ \A q \in Page : Times(tables, q) \in Nat /\ m.ref[q] = a.mem.ref[q] + Times(tables, q)
  BY <1>4, <1>6, Retained
<1> HIDE DEF m
<1>8. /\ MemOK(n) /\ InUse(n) = InUse(m) /\ Rest(n) = Rest(m) /\ n.type = m.type
      /\ \A q \in Page : Times(phys, q) \in Nat /\ n.ref[q] = m.ref[q] + Times(phys, q)
  BY <1>4, <1>7, Retained
<1> HIDE DEF n
<1>9. ASSUME NEW q \in Page, NEW j \in DOMAIN tab[q]
      PROVE  W(q, j) = (tab[q][j].w /\ \A v \in Area(State, u) : pd[u][v \div Pte] = q => v % Pte # j)
  <2>1. \A v \in Pages(u) : tables[v \div Pte] = pd[u][v \div Pte]
    BY <1>2, AreaPlace DEF Pages, tables
  <2>2. QED
    BY <2>1, ViewIs
<1>10. /\ DOMAIN new = Page
       /\ \A q \in Page : DOMAIN new[q] = DOMAIN tab[q]
       /\ \A q \in Page : \A j \in DOMAIN tab[q] :
            new[q][j] = [page |-> tab[q][j].page,
                         w |-> tab[q][j].w /\ \A v \in Area(State, u) : pd[u][v \div Pte] = q => v % Pte # j]
  <2>1. \A q \in Page : \A j \in DOMAIN tab[q] : new[q][j] = [page |-> tab[q][j].page, w |-> W(q, j)]
    OBVIOUS
  <2>2. DOMAIN new = Page /\ \A q \in Page : DOMAIN new[q] = DOMAIN tab[q]
    OBVIOUS
  <2> DEFINE X(q, j) == tab[q][j].w /\ \A v \in Area(State, u) : pd[u][v \div Pte] = q => v % Pte # j
  <2>3. \A q \in Page : \A j \in DOMAIN tab[q] : W(q, j) = X(q, j)
    BY <1>9
  <2> HIDE DEF new, W, X
  <2>4. \A q \in Page : \A j \in DOMAIN tab[q] : new[q][j] = [page |-> tab[q][j].page, w |-> X(q, j)]
    BY <2>1, <2>3, Zenon
  <2>5. QED
    BY <2>2, <2>4, Zenon DEF X
<1> HIDE DEF new
<1>11. /\ Shared(u).mem = n /\ Shared(u).tab = new /\ Shared(u).data = data /\ Shared(u).dir = tables
       /\ IsView(Shared(u))
  BY <1>1, <1>10 DEF IsView, Domains
<1>12. /\ t.mem = n /\ t.tab = new /\ t.live = live \cup {c}
       /\ t.pd[c] = tables /\ t.dirpage[c] = D /\ t.brk[c] = brk[u]
       /\ \A o \in live : t.pd[o] = pd[o] /\ t.dirpage[o] = dirpage[o] /\ t.brk[o] = brk[o]
  <2> HIDE DEF D
  <2>1. QED
    BY <1>2, <1>11 DEF Domains, D
<1>13. Cardinality(Rest(t.mem)) >= k /\ ViewOf(Shared(u), t, c)
  BY <1>5, <1>7, <1>8, <1>11, <1>12 DEF ViewOf
<1>14. /\ MemOK(t.mem) /\ InUse(t.mem) = InUse(mem) \cup {D} /\ t.mem.type[D] = "pgtbl"
       /\ t.mem.ref[D] = 1 + Times(tables, D) + Times(phys, D)
       /\ \A q \in InUse(mem) : /\ t.mem.type[q] = mem.type[q]
                                /\ t.mem.ref[q] = mem.ref[q] + Times(tables, q) + Times(phys, q)
  BY <1>2, <1>6, <1>7, <1>8, <1>12
<1>15. tables = [i \in TablesOf(State.brk[u]) |-> State.pd[u][i]]
  BY StateIs DEF tables
<1>16. ShareAll(State, t, u, c, D)
  <2>1. /\ State.mem = mem /\ State.tab = tab /\ State.pd = pd
        /\ State.dirpage = dirpage /\ State.brk = brk /\ State.live = live
    BY StateIs
  <2>2. phys = [v \in Area(State, u) |-> At(State, u, v)]
    BY <1>3 DEF phys
  <2> HIDE DEF State, D
  <2>3. /\ c \in Pid \ State.live /\ D \in Page \ InUse(State.mem)
        /\ MemOK(t.mem) /\ InUse(t.mem) = InUse(State.mem) \cup {D} /\ t.mem.type[D] = "pgtbl"
        /\ t.mem.ref[D] = 1 + Times(tables, D) + Times(phys, D)
        /\ \A q \in InUse(State.mem) : /\ t.mem.type[q] = State.mem.type[q]
                                       /\ t.mem.ref[q] = State.mem.ref[q] + Times(tables, q) + Times(phys, q)
    BY <1>2, <1>6, <1>14, <2>1
  <2>4. /\ t.live = State.live \cup {c}
        /\ t.pd[c] = tables /\ t.dirpage[c] = D /\ t.brk[c] = State.brk[u]
        /\ \A o \in State.live : t.pd[o] = State.pd[o] /\ t.dirpage[o] = State.dirpage[o] /\ t.brk[o] = State.brk[o]
    BY <1>12, <2>1
  <2>5. \A q \in Page : DOMAIN t.tab[q] = DOMAIN State.tab[q]
    BY <1>10, <1>12, <2>1
  <2>6. \A q \in Page : \A j \in DOMAIN State.tab[q] :
          t.tab[q][j] = [page |-> State.tab[q][j].page,
                         w |-> State.tab[q][j].w /\ \A v \in Area(State, u) : State.pd[u][v \div Pte] = q => v % Pte # j]
    <3>1. t.tab = new
      BY <1>12
    <3> DEFINE X(q, j) == tab[q][j].w /\ \A v \in Area(State, u) : pd[u][v \div Pte] = q => v % Pte # j
               Y(q, j) == State.tab[q][j].w /\ \A v \in Area(State, u) : State.pd[u][v \div Pte] = q => v % Pte # j
    <3>2. \A q, j : X(q, j) = Y(q, j)
      BY <2>1
    <3>3. \A q \in Page : \A j \in DOMAIN tab[q] : t.tab[q][j] = [page |-> tab[q][j].page, w |-> X(q, j)]
      BY <1>10, <3>1, Zenon
    <3> HIDE DEF X, Y
    <3>4. \A q \in Page : \A j \in DOMAIN State.tab[q] : t.tab[q][j] = [page |-> State.tab[q][j].page, w |-> Y(q, j)]
      BY <2>1, <3>2, <3>3
    <3>5. QED
      BY <3>4, Zenon DEF Y
  <2>7. QED
    BY <1>15, <2>2, <2>3, <2>4, <2>5, <2>6, ZenonT(40) DEF ShareAll
<1>17. QED
  BY <1>11, <1>13, <1>16
\* s with the part that p uses replaced.
Replace(s, p, r) ==
  [mem |-> r.mem, tab |-> r.tab, pd |-> [s.pd EXCEPT ![p] = r.dir],
   dirpage |-> s.dirpage, brk |-> s.brk, live |-> s.live]

\* What that is.
LEMMA ReplaceIs ==
  ASSUME NEW s, s.live \subseteq DOMAIN s.pd, NEW p \in s.live, NEW r
  PROVE  /\ Replaced(s, Replace(s, p, r), p, r)
         /\ DOMAIN Replace(s, p, r).pd = DOMAIN s.pd
         /\ Replace(s, p, r).brk = s.brk /\ Replace(s, p, r).live = s.live
         /\ Area(Replace(s, p, r), p) = Area(s, p)
         /\ IsView(r) => ViewOf(r, Replace(s, p, r), p)
<1> DEFINE t == Replace(s, p, r)
<1>1. /\ t.mem = r.mem /\ t.tab = r.tab /\ t.pd = [s.pd EXCEPT ![p] = r.dir]
      /\ t.dirpage = s.dirpage /\ t.brk = s.brk /\ t.live = s.live
  BY DEF Replace
<1> HIDE DEF t
<1>2. t.pd[p] = r.dir /\ (\A o \in s.live : o # p => t.pd[o] = s.pd[o]) /\ DOMAIN t.pd = DOMAIN s.pd
  BY <1>1
<1>3. Replaced(s, t, p, r)
  BY <1>1, <1>2 DEF Replaced
<1>4. Area(t, p) = Area(s, p)
  BY <1>1 DEF Area
<1>5. IsView(r) => ViewOf(r, t, p)
  BY <1>1, <1>2 DEF ViewOf
<1>6. QED
  BY <1>1, <1>2, <1>3, <1>4, <1>5 DEF t

\* The child gets one page of its own.
LEMMA OwnPageStep ==
  ASSUME BitsFit, NEW s, Core(s), NEW p \in s.live, s.live \subseteq DOMAIN s.pd, NEW v \in Area(s, p),
         NEW r, ViewOf(r, s, p), NEW k \in Nat, Cardinality(Rest(s.mem)) >= k + 2,
         NEW n, n = OwnPage(r, v), NEW t, t = Replace(s, p, n)
  PROVE  /\ Core(t) /\ Copied(s, t, p, v, r, n) /\ ViewOf(n, t, p)
         /\ Cardinality(Rest(t.mem)) >= k
         /\ t.live = s.live /\ DOMAIN t.pd = DOMAIN s.pd /\ Area(t, p) = Area(s, p)
<1>1. /\ Replaced(s, t, p, n) /\ t.live = s.live /\ DOMAIN t.pd = DOMAIN s.pd /\ Area(t, p) = Area(s, p)
      /\ IsView(n) => ViewOf(n, t, p)
  BY ReplaceIs
<1>2. Copied(s, t, p, v, r, n) /\ Cardinality(Rest(n.mem)) >= k
  BY <1>1, OwnPageIs
<1>3. PICK A \in Page, N \in Page : OwnCopy(s, t, p, v, A, N) /\ IsView(n)
  BY <1>2 DEF Copied
<1>4. Core(t)
  BY <1>3, OwnCopied
<1>5. t.mem = n.mem
  BY <1>1 DEF Replaced
<1>6. QED
  BY <1>1, <1>2, <1>3, <1>4, <1>5

\* In t with the contents e everybody finds what he found in s with the contents d.
SameSeen(s, d, t, e) ==
  /\ t.live = s.live
  /\ \A o \in s.live, x \in Addr : Holds(t, o, x) <=> Holds(s, o, x)
  /\ \A o \in s.live, x \in Addr : Holds(s, o, x) => e[At(t, o, x)] = d[At(s, o, x)]

\* The copy at v has one reference, the page it is a copy of one less than before.
CopyRefs(s, t, p, v) ==
  /\ t.mem.ref[At(t, p, v)] = 1
  /\ \A o \in s.live : \A x \in Area(s, o) : (o # p \/ x # v) =>
       /\ At(t, o, x) = At(s, o, x)
       /\ t.mem.ref[At(t, o, x)] =
            IF At(s, o, x) = At(s, p, v) THEN s.mem.ref[At(s, o, x)] - 1 ELSE s.mem.ref[At(s, o, x)]

\* A copy keeps the state right, and nobody sees it.
LEMMA CopiedSeen ==
  ASSUME NEW s, Core(s), NEW t, NEW p \in s.live, NEW v \in Area(s, p), NEW r, NEW n, Copied(s, t, p, v, r, n)
  PROVE  Core(t) /\ SameSeen(s, r.data, t, n.data) /\ CopyRefs(s, t, p, v)
<1>1. PICK A \in Page, N \in Page :
        /\ OwnCopy(s, t, p, v, A, N)
        /\ IsView(n) /\ n.data[A] = r.data[At(s, p, v)] /\ \A x \in Page \ {A} : n.data[x] = r.data[x]
  BY DEF Copied
<1>2. Core(t)
  BY <1>1, OwnCopied
<1> DEFINE new == [page |-> A, w |-> TRUE]
<1>3. /\ v \in Addr /\ Holds(s, p, v)
      /\ \A o \in s.live, x \in Addr : Holds(t, o, x) <=> Holds(s, o, x)
      /\ \A o \in s.live, x \in Addr : Holds(s, o, x) =>
            Slot(t, o, x) = IF o = p /\ x = v THEN new ELSE Slot(s, o, x)
      /\ A \notin InUse(s.mem)
  <2>1. CopyView(s, t, p, v, A, N)
    BY <1>1, OwnCopyView
  <2>2. QED
    BY <2>1 DEF CopyView
<1>4. new.page = A
  OBVIOUS
<1> HIDE DEF new
<1>5. \A o \in s.live, x \in Addr : Holds(s, o, x) =>
        At(t, o, x) = IF o = p /\ x = v THEN A ELSE At(s, o, x)
  BY <1>3, <1>4 DEF At
<1>6. \A o \in s.live, x \in Addr : Holds(s, o, x) => x \in Area(s, o)
  BY DEF Core, Mapped
<1>7. \A o \in s.live : \A x \in Area(s, o) :
        /\ x \in Addr /\ Holds(s, o, x) /\ At(s, o, x) \in Page /\ At(s, o, x) \in InUse(s.mem)
        /\ s.mem.type[At(s, o, x)] = "user"
  BY PlaceIs
<1>8. t.live = s.live
  BY <1>1 DEF OwnCopy
<1>9. SameSeen(s, r.data, t, n.data)
  BY <1>1, <1>3, <1>5, <1>6, <1>7, <1>8 DEF SameSeen
<1> DEFINE Q == At(s, p, v)
           T == s.pd[p][v \div Pte]
<1>10. /\ t.mem.ref[A] = 1 /\ t.mem.ref[Q] = s.mem.ref[Q] - 1
       /\ \A q \in InUse(s.mem) \ {Q, T} : t.mem.ref[q] = s.mem.ref[q]
  BY <1>1 DEF OwnCopy
<1>11. s.mem.type[T] = "pgtbl"
  BY PlaceIs
<1> HIDE DEF Q, T
<1>12. CopyRefs(s, t, p, v)
  <2>1. t.mem.ref[At(t, p, v)] = 1
    BY <1>3, <1>5, <1>10
  <2>2. ASSUME NEW o \in s.live, NEW x \in Area(s, o), o # p \/ x # v
        PROVE  /\ At(t, o, x) = At(s, o, x)
               /\ t.mem.ref[At(t, o, x)] = IF At(s, o, x) = Q THEN s.mem.ref[At(s, o, x)] - 1 ELSE s.mem.ref[At(s, o, x)]
    <3>1. At(t, o, x) = At(s, o, x)
      BY <1>5, <1>7, <2>2
    <3>2. At(s, o, x) # T
      BY <1>7, <1>11
    <3>3. QED
      BY <1>7, <1>10, <3>1, <3>2
  <2>3. QED
    BY <2>1, <2>2 DEF CopyRefs, Q
<1>13. QED
  BY <1>2, <1>9, <1>12

\* Only one place has a page with one reference.
LEMMA LoneIs ==
  ASSUME NEW s, Core(s), NEW o \in s.live, NEW x \in Area(s, o), NEW p \in s.live, NEW v \in Area(s, p),
         At(s, o, x) = At(s, p, v), s.mem.ref[At(s, p, v)] = 1
  PROVE  o = p /\ x = v
<1> DEFINE Q == At(s, p, v)
           H == Having(s, Q)
<1>1. Q \in Page \ Spare /\ s.mem.type[Q] = "user" /\ x \in Addr /\ v \in Addr /\ Holds(s, o, x) /\ Holds(s, p, v)
  BY PlaceIs
<1>2. Cardinality(H) = 1
  BY <1>1 DEF Core, Counted
<1>3. IsFiniteSet(H)
  BY FewHave DEF Core, Shape
<1>4. <<o, x>> \in H /\ <<p, v>> \in H
  BY <1>1 DEF Having
<1> HIDE DEF H
<1>5. \E z : H = {z}
  BY <1>2, <1>3, FS_Singleton
<1>6. <<o, x>> = <<p, v>>
  BY <1>4, <1>5
<1>7. QED
  BY <1>6

\* Sharing leaves everybody his contents, and a page of the parent's own gets a second
\* reference.
ShareSeen(s, t, u, c) ==
  /\ \A o \in t.live, x \in Addr : Holds(t, o, x) <=> Holds(s, IF o = c THEN u ELSE o, x)
  /\ \A o \in t.live, x \in Addr : Holds(t, o, x) => At(t, o, x) = At(s, IF o = c THEN u ELSE o, x)
  /\ \A x \in Area(s, u) : s.mem.ref[At(s, u, x)] = 1 => t.mem.ref[At(s, u, x)] = 2

\* Sharing keeps the state right, and the child sees what its parent sees.
LEMMA SharedSeen ==
  ASSUME NEW s, Core(s), NEW t, NEW u \in s.live, NEW c, NEW D, ShareAll(s, t, u, c, D)
  PROVE  Core(t) /\ ShareSeen(s, t, u, c)
<1>1. Core(t)
  BY AllShared
<1>2. /\ \A o \in s.live, x \in Addr : Holds(t, o, x) <=> Holds(s, o, x)
      /\ \A x \in Addr : Holds(t, c, x) <=> Holds(s, u, x)
      /\ \A o \in s.live, x \in Addr : Holds(s, o, x) => At(t, o, x) = At(s, o, x)
      /\ \A x \in Addr : Holds(s, u, x) => At(t, c, x) = At(s, u, x)
  <2>1. ShareView(s, t, u, c)
    BY SharedView
  <2>2. QED
    BY <2>1 DEF ShareView
<1>3. t.live = s.live \cup {c} /\ c \notin s.live
  BY DEF ShareAll
<1> DEFINE tables == [i \in TablesOf(s.brk[u]) |-> s.pd[u][i]]
           phys   == [v \in Area(s, u) |-> At(s, u, v)]
<1>4. \A q \in InUse(s.mem) : t.mem.ref[q] = s.mem.ref[q] + Times(tables, q) + Times(phys, q)
  BY DEF ShareAll
<1>5. ASSUME NEW v \in Area(s, u), s.mem.ref[At(s, u, v)] = 1
      PROVE  t.mem.ref[At(s, u, v)] = 2
  <2> DEFINE Q == At(s, u, v)
  <2>1. Q \in InUse(s.mem) /\ s.mem.type[Q] = "user"
    BY PlaceIs
  <2>2. {x \in DOMAIN phys : phys[x] = Q} = {v}
    BY <1>5, LoneIs
  <2>3. Times(phys, Q) = 1
    <3> HIDE DEF phys, Q
    <3>1. QED
      BY <2>2, FS_Singleton DEF Times
  <2>4. \A i \in DOMAIN tables : s.mem.type[tables[i]] = "pgtbl"
    BY AreaIs DEF Core, TablesUsed
  <2>5. {x \in DOMAIN tables : tables[x] = Q} = {}
    <3> HIDE DEF tables, Q
    <3>1. QED
      BY <2>1, <2>4
  <2>6. Times(tables, Q) = 0
    <3> HIDE DEF tables, Q
    <3>1. QED
      BY <2>5, FS_EmptySet DEF Times
  <2>7. s.mem.ref[Q] = 1
    BY <1>5
  <2> HIDE DEF tables, phys, Q
  <2>8. t.mem.ref[Q] = 2
    BY <1>4, <2>1, <2>3, <2>6, <2>7
  <2>9. QED
    BY <2>8 DEF Q
<1>6. QED
  BY <1>1, <1>2, <1>3, <1>5 DEF ShareSeen
\* The child c of u is there; t is the state as seen through its directory n.
Forking(u, c, t, n) ==
  /\ Core(t) /\ ViewOf(n, t, c) /\ t.live = live \cup {c} /\ DOMAIN t.pd = Pid
  /\ t.dirpage = [dirpage EXCEPT ![c] = NewDir.page] /\ t.brk = [brk EXCEPT ![c] = brk[u]]
  /\ \A o \in live : t.pd[o] = pd[o]
  /\ \A o \in t.live, x \in Addr : Holds(t, o, x) <=> Holds(State, IF o = c THEN u ELSE o, x)
  /\ \A o \in t.live, x \in Addr : Holds(t, o, x) => n.data[At(t, o, x)] = data[At(State, IF o = c THEN u ELSE o, x)]

\* It has the addresses of its parent.
LEMMA ForkArea ==
  ASSUME Domains, NEW u \in live, NEW c \in Pid \ live, NEW t, NEW n, Forking(u, c, t, n), live \subseteq Pid
  PROVE  c \in t.live /\ u \in t.live /\ Area(t, c) = Area(State, u) /\ Area(t, u) = Area(State, u)
<1>1. t.live = live \cup {c} /\ t.brk = [brk EXCEPT ![c] = brk[u]]
  BY DEF Forking
<1>2. t.brk[c] = brk[u] /\ t.brk[u] = brk[u]
  BY <1>1 DEF Domains
<1>3. QED
  BY <1>1, <1>2, StateIs DEF Area

\* One page of the message buffer after the other becomes the child's own, ...
LEMMA ForkingStep ==
  ASSUME BitsFit, Core(State), Domains, NEW u \in live, NEW c \in Pid \ live,
         NEW s, NEW r, Forking(u, c, s, r), NEW v \in Area(State, u),
         NEW k \in Nat, Cardinality(Rest(s.mem)) >= k + 2,
         NEW n, n = OwnPage(r, v), NEW t, t = Replace(s, c, n)
  PROVE  Forking(u, c, t, n) /\ Cardinality(Rest(t.mem)) >= k /\ CopyRefs(s, t, c, v)
<1>1. /\ Core(s) /\ ViewOf(r, s, c) /\ s.live = live \cup {c} /\ DOMAIN s.pd = Pid
      /\ s.dirpage = [dirpage EXCEPT ![c] = NewDir.page] /\ s.brk = [brk EXCEPT ![c] = brk[u]]
      /\ \A o \in live : s.pd[o] = pd[o]
      /\ \A o \in s.live, x \in Addr : Holds(s, o, x) <=> Holds(State, IF o = c THEN u ELSE o, x)
      /\ \A o \in s.live, x \in Addr : Holds(s, o, x) => r.data[At(s, o, x)] = data[At(State, IF o = c THEN u ELSE o, x)]
  BY DEF Forking
<1>2. live \subseteq Pid
  BY StateIs DEF Core, Shape
<1>3. c \in s.live /\ v \in Area(s, c) /\ s.live \subseteq DOMAIN s.pd
  BY <1>1, <1>2, ForkArea
<1>4. /\ Core(t) /\ Copied(s, t, c, v, r, n) /\ ViewOf(n, t, c)
      /\ Cardinality(Rest(t.mem)) >= k
      /\ t.live = s.live /\ DOMAIN t.pd = DOMAIN s.pd /\ Area(t, c) = Area(s, c)
  BY <1>1, <1>3, OwnPageStep
<1>5. SameSeen(s, r.data, t, n.data) /\ CopyRefs(s, t, c, v)
  BY <1>1, <1>3, <1>4, CopiedSeen
<1>6. /\ t.dirpage = s.dirpage /\ t.brk = s.brk /\ \A o \in s.live : o # c => t.pd[o] = s.pd[o]
  <2>1. t.dirpage = s.dirpage /\ t.brk = s.brk
    BY DEF Replace
  <2>2. Replaced(s, t, c, n)
    BY <1>3, ReplaceIs
  <2>3. QED
    BY <2>1, <2>2 DEF Replaced
<1>7. /\ \A o \in t.live, x \in Addr : Holds(t, o, x) <=> Holds(State, IF o = c THEN u ELSE o, x)
      /\ \A o \in t.live, x \in Addr : Holds(t, o, x) => n.data[At(t, o, x)] = data[At(State, IF o = c THEN u ELSE o, x)]
  BY <1>1, <1>4, <1>5 DEF SameSeen
<1>8. \A o \in live : t.pd[o] = pd[o]
  BY <1>1, <1>6
<1>9. Forking(u, c, t, n)
  BY <1>1, <1>4, <1>6, <1>7, <1>8 DEF Forking
<1>10. QED
  BY <1>4, <1>5, <1>9

\* Parent and child have the pages of the buffer to themselves.
BufferOwn(t, o, vs) == \A k \in DOMAIN vs : vs[k] \in Area(t, o) /\ t.mem.ref[At(t, o, vs[k])] = 1

\* ... until both have all of them to themselves.
LEMMA ForkPages ==
  ASSUME BitsFit, Core(State), Domains, NEW u \in live, NEW c \in Pid \ live,
         NEW vs \in Seq(Nat), Len(vs) \in 1 .. 2, Len(vs) = 2 => vs[2] = vs[1] + 1,
         BufferOwn(State, u, vs), Cardinality(Rest(mem)) >= 1 + 2 * Len(vs)
  PROVE  \E t : Forking(u, c, t, OwnPages(Shared(u), vs)) /\ BufferOwn(t, u, vs) /\ BufferOwn(t, c, vs)
<1> DEFINE l == Len(vs)
           r0 == Shared(u)
           t0 == [mem |-> r0.mem, tab |-> r0.tab, pd |-> [pd EXCEPT ![c] = r0.dir],
                  dirpage |-> [dirpage EXCEPT ![c] = NewDir.page],
                  brk |-> [brk EXCEPT ![c] = brk[u]], live |-> live \cup {c}]
           r1 == OwnPage(r0, vs[1])
           t1 == Replace(t0, c, r1)
           r2 == OwnPage(r1, vs[2])
           t2 == Replace(t1, c, r2)
<1>0. l \in {1, 2} /\ 2 * l \in Nat /\ live \subseteq Pid /\ u # c
  BY StateIs DEF Core, Shape
<1>1. ShareAll(State, t0, u, c, NewDir.page) /\ Cardinality(Rest(t0.mem)) >= 2 * l /\ ViewOf(r0, t0, c) /\ r0.data = data
  <2> HIDE DEF l
  <2>1. Cardinality(Rest(mem)) >= 2 * l + 1
    BY <1>0, RestIsNotInUse, StateIs DEF Core, Shape, l
  <2>2. QED
    BY <1>0, <2>1, SharedIs
<1>2. Core(t0) /\ ShareSeen(State, t0, u, c)
  BY <1>1, SharedSeen, StateIs
<1>3. /\ t0.dirpage = [dirpage EXCEPT ![c] = NewDir.page] /\ t0.brk = [brk EXCEPT ![c] = brk[u]]
      /\ t0.live = live \cup {c} /\ DOMAIN t0.pd = Pid /\ \A o \in live : t0.pd[o] = pd[o]
  BY DEF Domains
<1> HIDE DEF t0, r0
<1>4. Forking(u, c, t0, r0)
  <2>1. /\ \A o \in t0.live, x \in Addr : Holds(t0, o, x) <=> Holds(State, IF o = c THEN u ELSE o, x)
        /\ \A o \in t0.live, x \in Addr : Holds(t0, o, x) => At(t0, o, x) = At(State, IF o = c THEN u ELSE o, x)
    BY <1>2 DEF ShareSeen
  <2>2. QED
    BY <1>1, <1>2, <1>3, <2>1 DEF Forking
<1>5. \A k \in 1 .. l : vs[k] \in Area(State, u) /\ mem.ref[At(State, u, vs[k])] = 1
  BY StateIs DEF BufferOwn
<1>6. \A k \in 1 .. l : /\ vs[k] \in Area(t0, c) /\ vs[k] \in Area(t0, u)
                        /\ At(t0, c, vs[k]) = At(State, u, vs[k]) /\ At(t0, u, vs[k]) = At(State, u, vs[k])
                        /\ t0.mem.ref[At(State, u, vs[k])] = 2
  <2> SUFFICES ASSUME NEW k \in 1 .. l
               PROVE  /\ vs[k] \in Area(t0, c) /\ vs[k] \in Area(t0, u)
                      /\ At(t0, c, vs[k]) = At(State, u, vs[k]) /\ At(t0, u, vs[k]) = At(State, u, vs[k])
                      /\ t0.mem.ref[At(State, u, vs[k])] = 2
    OBVIOUS
  <2> DEFINE v == vs[k]
  <2>1. v \in Area(State, u) /\ mem.ref[At(State, u, v)] = 1
    BY <1>5
  <2>2. c \in t0.live /\ u \in t0.live /\ v \in Area(t0, c) /\ v \in Area(t0, u)
    BY <1>0, <1>4, <2>1, ForkArea
  <2> HIDE DEF v
  <2>3. v \in Addr /\ Holds(t0, c, v) /\ Holds(t0, u, v)
    BY <1>2, <2>2, PlaceIs
  <2>4. At(t0, c, v) = At(State, u, v) /\ At(t0, u, v) = At(State, u, v)
    BY <1>0, <1>2, <2>2, <2>3 DEF ShareSeen
  <2>5. t0.mem.ref[At(State, u, v)] = 2
    BY <1>2, <2>1, StateIs DEF ShareSeen
  <2>6. QED
    BY <2>2, <2>4, <2>5 DEF v
<1>7. Forking(u, c, t1, r1) /\ Cardinality(Rest(t1.mem)) >= 2 * l - 2 /\ CopyRefs(t0, t1, c, vs[1])
  <2>1. 2 * l - 2 \in Nat /\ Cardinality(Rest(t0.mem)) >= (2 * l - 2) + 2 /\ vs[1] \in Area(State, u)
    <3>1. 1 \in 1 .. l
      BY <1>0
    <3>2. MemOK(t0.mem)
      BY <1>2 DEF Core, Shape
    <3>3. Cardinality(Rest(t0.mem)) \in Nat
      BY <3>2, RestIsNotInUse
    <3> HIDE DEF l
    <3>4. QED
      BY <1>0, <1>1, <1>5, <3>1, <3>3
  <2> HIDE DEF l, r1, t1
  <2>2. r1 = OwnPage(r0, vs[1]) /\ t1 = Replace(t0, c, r1)
    BY DEF r1, t1
  <2>3. QED
    BY <1>4, <2>1, <2>2, ForkingStep
<1> DEFINE Q == At(State, u, vs[1])
<1>8. /\ t1.mem.ref[At(t1, c, vs[1])] = 1
      /\ \A o \in t0.live : \A x \in Area(t0, o) : (o # c \/ x # vs[1]) =>
           /\ At(t1, o, x) = At(t0, o, x)
           /\ t1.mem.ref[At(t1, o, x)] = IF At(t0, o, x) = Q THEN t0.mem.ref[At(t0, o, x)] - 1 ELSE t0.mem.ref[At(t0, o, x)]
  <2>1. At(t0, c, vs[1]) = Q
    BY <1>0, <1>6
  <2>2. QED
    BY <1>7, <2>1 DEF CopyRefs
<1>9. c \in t0.live /\ u \in t0.live /\ t1.live = t0.live
  BY <1>3, <1>7 DEF Forking
<1> HIDE DEF t1, r1
<1>10. /\ t1.mem.ref[At(t1, u, vs[1])] = 1
       /\ vs[1] \in Area(t1, u) /\ vs[1] \in Area(t1, c)
  <2>1. 1 \in 1 .. l
    BY <1>0
  <2>2. vs[1] \in Area(t1, u) /\ vs[1] \in Area(t1, c)
    BY <1>0, <1>5, <1>7, <2>1, ForkArea
  <2>3. t1.mem.ref[At(t1, u, vs[1])] = 2 - 1
    BY <1>0, <1>6, <1>8, <1>9, <2>1
  <2>4. QED
    BY <2>2, <2>3
<1>11. CASE l = 1
  <2>1. DOMAIN vs = {1}
    BY <1>11
  <2>2. BufferOwn(t1, u, vs) /\ BufferOwn(t1, c, vs)
    BY <1>8, <1>10, <2>1 DEF BufferOwn
  <2>3. OwnPages(r0, vs) = r1
    BY <1>11 DEF OwnPages, r1
  <2>4. QED
    BY <1>7, <2>2, <2>3 DEF r0
<1>12. CASE l = 2
  <2> DEFINE P == At(State, u, vs[2])
  <2>1. DOMAIN vs = {1, 2} /\ vs[1] # vs[2] /\ vs[1] \in Nat /\ vs[2] \in Nat
    BY <1>12
  <2>2. P # Q
    <3>1. vs[1] \in Area(State, u) /\ vs[2] \in Area(State, u) /\ mem.ref[At(State, u, vs[1])] = 1
      BY <1>5, <1>12
    <3>2. QED
      BY <2>1, <3>1, LoneIs, StateIs
  <2>3. /\ At(t1, c, vs[2]) = P /\ At(t1, u, vs[2]) = P /\ t1.mem.ref[P] = 2
        /\ vs[2] \in Area(State, u)
    <3>1. 2 \in 1 .. l
      BY <1>12
    <3> HIDE DEF P, Q
    <3>2. /\ vs[2] \in Area(t0, c) /\ vs[2] \in Area(t0, u)
          /\ At(t0, c, vs[2]) = P /\ At(t0, u, vs[2]) = P /\ t0.mem.ref[P] = 2 /\ vs[2] \in Area(State, u)
      BY <1>5, <1>6, <3>1 DEF P
    <3>3. QED
      BY <1>8, <1>9, <2>1, <2>2, <3>2
  <2>4. Forking(u, c, t2, r2) /\ CopyRefs(t1, t2, c, vs[2])
    <3>1. 2 * l - 2 = 0 + 2 /\ 0 \in Nat
      BY <1>12
    <3>2. r2 = OwnPage(r1, vs[2]) /\ t2 = Replace(t1, c, r2)
      OBVIOUS
    <3> HIDE DEF r2, t2
    <3>3. QED
      BY <1>7, <2>3, <3>1, <3>2, ForkingStep
  <2> HIDE DEF r2, t2, P, Q
  <2>5. /\ t2.mem.ref[At(t2, c, vs[2])] = 1
        /\ \A o \in t1.live : \A x \in Area(t1, o) : (o # c \/ x # vs[2]) =>
             /\ At(t2, o, x) = At(t1, o, x)
             /\ t2.mem.ref[At(t2, o, x)] = IF At(t1, o, x) = P THEN t1.mem.ref[At(t1, o, x)] - 1 ELSE t1.mem.ref[At(t1, o, x)]
    BY <2>3, <2>4 DEF CopyRefs
  <2>6. /\ vs[1] \in Area(t2, u) /\ vs[1] \in Area(t2, c) /\ vs[2] \in Area(t2, u) /\ vs[2] \in Area(t2, c)
        /\ vs[2] \in Area(t1, u) /\ vs[2] \in Area(t1, c)
    <3>1. vs[1] \in Area(State, u)
      BY <1>5, <1>12
    <3>2. QED
      BY <1>0, <1>7, <2>3, <2>4, <3>1, ForkArea
  <2>7. t2.mem.ref[At(t2, u, vs[2])] = 1
    <3>1. t2.mem.ref[At(t2, u, vs[2])] = 2 - 1
      BY <1>0, <1>9, <2>3, <2>5, <2>6
    <3>2. QED
      BY <3>1
  <2>8. \A o \in {u, c} : t2.mem.ref[At(t2, o, vs[1])] = 1
    <3> SUFFICES ASSUME NEW o \in {u, c} PROVE t2.mem.ref[At(t2, o, vs[1])] = 1
      OBVIOUS
    <3>1. o \in t1.live /\ vs[1] \in Area(t1, o) /\ t1.mem.ref[At(t1, o, vs[1])] = 1
      BY <1>8, <1>9, <1>10
    <3>2. At(t1, o, vs[1]) # P
      BY <2>3, <3>1
    <3>3. QED
      BY <2>1, <2>5, <3>1, <3>2
  <2>9. BufferOwn(t2, u, vs) /\ BufferOwn(t2, c, vs)
    BY <2>1, <2>5, <2>6, <2>7, <2>8 DEF BufferOwn
  <2>10. OwnPages(r0, vs) = r2
    BY <1>12 DEF OwnPages, r2, r1
  <2>11. QED
    BY <2>4, <2>9, <2>10 DEF r0
<1>13. QED
  BY <1>0, <1>11, <1>12

\* Nobody sees what is cleared.
LEMMA ClearedView ==
  ASSUME NEW s, Core(s), NEW t, SameView(s, t), t.tab = Cleared(s.tab, s.mem, "pgtbl", <<>>)
  PROVE  /\ Core(t) /\ \A o \in s.live : Area(t, o) = Area(s, o)
         /\ \A o \in s.live, x \in Addr : Holds(t, o, x) <=> Holds(s, o, x)
         /\ \A o \in s.live, x \in Addr : Holds(s, o, x) => Slot(t, o, x) = Slot(s, o, x) /\ At(t, o, x) = At(s, o, x)
<1>1. Core(t)
  BY TablesCleared
<1>2. \A q \in Page : s.mem.type[q] = "pgtbl" => t.tab[q] = s.tab[q]
  BY DEF Cleared
<1>3. \A p \in s.live : \A v : v \div Pte \in DOMAIN s.pd[p] => t.tab[s.pd[p][v \div Pte]] = s.tab[s.pd[p][v \div Pte]]
  BY <1>2 DEF Core, TablesUsed, Shape, IsDir
<1>4. \A p \in s.live : \A v : Holds(t, p, v) <=> Holds(s, p, v)
  BY <1>3 DEF Holds, SameView
<1>5. \A p \in s.live : \A v : Holds(s, p, v) => Slot(t, p, v) = Slot(s, p, v) /\ At(t, p, v) = At(s, p, v)
  BY <1>3, SMTT(30) DEF Holds, Slot, At, SameView
<1>6. \A o \in s.live : Area(t, o) = Area(s, o)
  BY DEF Area, SameView
<1>7. QED
  BY <1>1, <1>4, <1>5, <1>6

\* Nobody sees that either.
LEMMA ClearedSeen ==
  ASSUME NEW s, Core(s), NEW t, SameView(s, t), t.tab = Cleared(s.tab, s.mem, "pgtbl", <<>>),
         NEW d, NEW e, e = Cleared(d, s.mem, "user", 0)
  PROVE  SameSeen(s, d, t, e)
<1>1. /\ \A o \in s.live, x \in Addr : Holds(t, o, x) <=> Holds(s, o, x)
      /\ \A o \in s.live, x \in Addr : Holds(s, o, x) => At(t, o, x) = At(s, o, x)
  BY ClearedView
<1>2. ASSUME NEW o \in s.live, NEW x \in Addr, Holds(s, o, x) PROVE e[At(t, o, x)] = d[At(s, o, x)]
  <2>1. x \in Area(s, o)
    BY <1>2 DEF Core, Mapped
  <2>2. At(s, o, x) \in Page /\ s.mem.type[At(s, o, x)] = "user"
    BY <2>1, PlaceIs
  <2>3. e[At(s, o, x)] = d[At(s, o, x)]
    BY <2>2 DEF Cleared
  <2>4. QED
    BY <1>1, <1>2, <2>3
<1>3. t.live = s.live
  BY DEF SameView
<1>4. QED
  BY <1>1, <1>2, <1>3 DEF SameSeen

\* The state after a step.
LEMMA NextStateIs ==
  /\ State'.mem = mem' /\ State'.tab = tab' /\ State'.pd = pd'
  /\ State'.dirpage = dirpage' /\ State'.brk = brk' /\ State'.live = live'
BY DEF State

\* fork, as a whole.
ForkDone(u, c, vs) ==
  /\ c \in Pid \ live /\ u \in live /\ live' = live \cup {c}
  /\ \A o \in live', x \in Addr : Holds(State', o, x) <=> Holds(State, IF o = c THEN u ELSE o, x)
  /\ \A o \in live', x \in Addr : Holds(State', o, x) => data'[At(State', o, x)] = data[At(State, IF o = c THEN u ELSE o, x)]
  /\ BufferOwn(State', u, vs) /\ BufferOwn(State', c, vs)
  /\ reply' = <<u, c>> /\ buffer' = vs /\ fixing = 0 /\ UNCHANGED <<trying, trap, fault, fixing>>

\* fork keeps the state right.
LEMMA ForkKeeps ==
  ASSUME BitsFit, Core(State), Domains, NEW u \in Pid, NEW vs \in MessagePages, Fork(u, vs)
  PROVE  Core(State') /\ Domains' /\ (\A o \in live : brk'[o] = brk[o]) /\ \E c : ForkDone(u, c, vs)
<1> DEFINE c == CHOOSE p \in Pid \ live : \A o \in Pid \ live : p <= o
           r == OwnPages(Shared(u), vs)
<1>1. c \in Pid \ live
  <2>1. Pid \ live # {} /\ Pid \ live \subseteq Nat
    BY PagesAssumption DEF Fork
  <2>2. \E p \in Pid \ live : \A o \in Pid \ live : p <= o
    <3> DEFINE S == Pid \ live
    <3> HIDE DEF S
    <3>1. \E p \in S : \A o \in S : p <= o
      BY <2>1, LeastNumber DEF S
    <3>2. QED
      BY <3>1 DEF S
  <2>3. QED
    BY <2>2
<1>2. /\ u \in live /\ fixing = 0 /\ Left(1 + 2 * Len(vs)) /\ Become(c, r)
      /\ \A v \in ToSet(vs) : v \in Pages(u) /\ mem.ref[Phys(View(u), v)] = 1
      /\ dirpage' = [dirpage EXCEPT ![c] = NewDir.page] /\ brk' = [brk EXCEPT ![c] = brk[u]]
      /\ live' = live \cup {c} /\ reply' = <<u, c>> /\ buffer' = vs
      /\ UNCHANGED <<trying, trap, fault, fixing>>
  BY DEF Fork, Calls, Runs, Idle
<1> HIDE DEF c, r
<1>3. vs \in Seq(Nat) /\ Len(vs) \in 1 .. 2 /\ (Len(vs) = 2 => vs[2] = vs[1] + 1)
  BY PagesAssumption
<1>4. BufferOwn(State, u, vs)
  <2> SUFFICES ASSUME NEW k \in DOMAIN vs
               PROVE  vs[k] \in Area(State, u) /\ mem.ref[At(State, u, vs[k])] = 1
    BY StateIs DEF BufferOwn
  <2>1. vs[k] \in ToSet(vs)
    BY DEF ToSet
  <2>2. QED
    BY <1>2, <2>1, ViewIs
<1>5. Cardinality(Rest(mem)) >= 1 + 2 * Len(vs)
  BY <1>2 DEF Left, Rest
<1>6. PICK t : Forking(u, c, t, r) /\ BufferOwn(t, u, vs) /\ BufferOwn(t, c, vs)
  BY <1>1, <1>2, <1>3, <1>4, <1>5, ForkPages DEF r
<1>7. /\ Core(t) /\ ViewOf(r, t, c) /\ t.live = live \cup {c} /\ DOMAIN t.pd = Pid
      /\ t.dirpage = dirpage' /\ t.brk = brk'
      /\ \A o \in live : t.pd[o] = pd[o]
      /\ \A o \in t.live, x \in Addr : Holds(t, o, x) <=> Holds(State, IF o = c THEN u ELSE o, x)
      /\ \A o \in t.live, x \in Addr : Holds(t, o, x) => r.data[At(t, o, x)] = data[At(State, IF o = c THEN u ELSE o, x)]
  BY <1>2, <1>6 DEF Forking
<1>8. /\ mem' = r.mem /\ tab' = Cleared(r.tab, r.mem, "pgtbl", <<>>)
      /\ data' = Cleared(r.data, r.mem, "user", 0) /\ pd' = [pd EXCEPT ![c] = r.dir]
  BY <1>2 DEF Become
<1>9. r.mem = t.mem /\ r.tab = t.tab /\ r.dir = t.pd[c]
  BY <1>7 DEF ViewOf
<1>10. pd'[c] = t.pd[c] /\ \A o \in live : pd'[o] = t.pd[o]
  BY <1>1, <1>7, <1>8, <1>9 DEF Domains
<1>11. SameView(t, State') /\ State'.tab = Cleared(t.tab, t.mem, "pgtbl", <<>>) /\ data' = Cleared(r.data, t.mem, "user", 0)
  BY <1>2, <1>7, <1>8, <1>9, <1>10, NextStateIs DEF SameView
<1>12. /\ Core(State') /\ \A o \in t.live : Area(State', o) = Area(t, o)
       /\ \A o \in t.live, x \in Addr : Holds(State', o, x) <=> Holds(t, o, x)
       /\ \A o \in t.live, x \in Addr : Holds(t, o, x) => At(State', o, x) = At(t, o, x)
  BY <1>7, <1>11, ClearedView
<1>13. SameSeen(t, r.data, State', data')
  BY <1>7, <1>11, ClearedSeen
<1>14. Domains'
  <2>1. DOMAIN tab' = Page /\ DOMAIN data' = Page
    BY <1>8 DEF Cleared
  <2>2. DOMAIN pd' = Pid /\ DOMAIN dirpage' = Pid /\ DOMAIN brk' = Pid /\ DOMAIN trap' = Pid
    BY <1>2, <1>8 DEF Domains
  <2>3. QED
    BY <2>1, <2>2 DEF Domains
<1>15. ASSUME NEW o \in {u, c} PROVE BufferOwn(State', o, vs)
  <2> SUFFICES ASSUME NEW k \in DOMAIN vs
               PROVE  vs[k] \in Area(State', o) /\ mem'.ref[At(State', o, vs[k])] = 1
    BY NextStateIs DEF BufferOwn
  <2>1. o \in t.live
    BY <1>2, <1>7
  <2>2. vs[k] \in Area(t, o) /\ t.mem.ref[At(t, o, vs[k])] = 1
    BY <1>6 DEF BufferOwn
  <2>3. vs[k] \in Addr /\ Holds(t, o, vs[k])
    BY <1>7, <2>1, <2>2, PlaceIs
  <2>4. QED
    BY <1>8, <1>9, <1>12, <2>1, <2>2, <2>3
<1>16. /\ \A o \in live', x \in Addr : Holds(State', o, x) <=> Holds(State, IF o = c THEN u ELSE o, x)
       /\ \A o \in live', x \in Addr : Holds(State', o, x) => data'[At(State', o, x)] = data[At(State, IF o = c THEN u ELSE o, x)]
  <2> SUFFICES ASSUME NEW o \in t.live, NEW x \in Addr
               PROVE  /\ Holds(State', o, x) <=> Holds(State, IF o = c THEN u ELSE o, x)
                      /\ Holds(State', o, x) => data'[At(State', o, x)] = data[At(State, IF o = c THEN u ELSE o, x)]
    BY <1>2, <1>7
  <2>1. Holds(State', o, x) <=> Holds(t, o, x)
    BY <1>12
  <2>2. Holds(t, o, x) => data'[At(State', o, x)] = r.data[At(t, o, x)]
    BY <1>13 DEF SameSeen
  <2>3. /\ Holds(t, o, x) <=> Holds(State, IF o = c THEN u ELSE o, x)
        /\ Holds(t, o, x) => r.data[At(t, o, x)] = data[At(State, IF o = c THEN u ELSE o, x)]
    BY <1>7
  <2>4. QED
    BY <2>1, <2>2, <2>3
<1>17. ForkDone(u, c, vs)
  BY <1>1, <1>2, <1>15, <1>16 DEF ForkDone
<1>18. \A o \in live : brk'[o] = brk[o]
  BY <1>1, <1>2 DEF Domains
<1>19. QED
  BY <1>12, <1>14, <1>17, <1>18

-----------------------------------------------------------------------------
(* exit *)

\* What f gives is counted.
LEMMA GivenSome ==
  ASSUME NEW f, NEW a \in Nat, NEW b \in Nat, a <= b, NEW q
  PROVE  /\ Given(f, a, b, q) \in Nat
         /\ (\E x \in a .. b - 1 : f[x] = q) <=> Given(f, a, b, q) # 0
<1> DEFINE S == {x \in a .. b - 1 : f[x] = q}
<1>1. IsFiniteSet(S)
  <2>1. IsFiniteSet(a .. b - 1) /\ S \subseteq a .. b - 1
    BY FS_Interval
  <2>2. QED
    BY <2>1, FS_Subset
<1>2. (\E x \in a .. b - 1 : f[x] = q) <=> S # {}
  OBVIOUS
<1> HIDE DEF S
<1>3. Cardinality(S) \in Nat /\ (S = {} <=> Cardinality(S) = 0)
  BY <1>1, FS_CardinalityType, FS_EmptySet
<1>4. QED
  BY <1>2, <1>3 DEF Given, S

\* Once more, what f gives.
LEMMA ReleasedMore ==
  ASSUME BitsFit, NEW m, MemOK(m), NEW l, NEW c \in [Page -> Nat], Lowered(m, l, c),
         NEW f, NEW a \in Nat, NEW b \in Nat, a <= b,
         \A x \in a .. b - 1 : f[x] \in InUse(m),
         \A q \in Page : \/ c[q] + Given(f, a, b, q) = 0
                         \/ q \in InUse(m) /\ c[q] + Given(f, a, b, q) <= m.ref[q]
  PROVE  Lowered(m, ReleaseAll(l, f, a, b), [q \in Page |-> c[q] + Given(f, a, b, q)])
<1> DEFINE n == ReleaseAll(l, f, a, b)
           d == [q \in Page |-> Given(f, a, b, q)]
<1>1. \A q \in Page : d[q] = Given(f, a, b, q) /\ d[q] \in Nat /\ c[q] \in Nat
  BY GivenSome
<1>2. d \in [Page -> Nat]
  BY <1>1
<1>3. InUse(m) \subseteq Page /\ m.ref \in [Page -> Int]
  BY RestIsNotInUse
<1>4. MemOK(l) /\ InUse(l) \subseteq InUse(m)
  BY DEF Lowered
<1>5. \A q \in InUse(m) : IF c[q] = 0 \/ c[q] < m.ref[q]
                          THEN q \in InUse(l) /\ l.type[q] = m.type[q] /\ l.ref[q] = m.ref[q] - c[q]
                          ELSE q \notin InUse(l)
  BY DEF Lowered
<1>6. \A q \in Page : c[q] + d[q] = 0 \/ (q \in InUse(m) /\ c[q] + d[q] <= m.ref[q])
  BY <1>1
<1>7. ASSUME NEW x \in a .. b - 1 PROVE f[x] \in InUse(l)
  <2> DEFINE q == f[x]
  <2>1. q \in InUse(m) /\ q \in Page
    BY <1>3
  <2>2. d[q] # 0
    BY <1>1, <2>1, GivenSome
  <2> HIDE DEF q, d
  <2>3. c[q] < m.ref[q]
    BY <1>1, <1>3, <1>6, <2>1, <2>2
  <2>4. QED
    BY <1>5, <2>1, <2>3 DEF q
<1>8. ASSUME NEW q \in InUse(l) PROVE Given(f, a, b, q) = 0 \/ Given(f, a, b, q) <= l.ref[q]
  <2>1. q \in InUse(m) /\ q \in Page
    BY <1>3, <1>4
  <2>2. d[q] = Given(f, a, b, q)
    BY <2>1
  <2> HIDE DEF d
  <2>3. QED
    BY <1>1, <1>3, <1>5, <1>6, <2>1, <2>2
<1>9. Lowered(l, n, d)
  <2> HIDE DEF n
  <2>1. QED
    BY <1>4, <1>7, <1>8, AllReleased DEF n
<1> HIDE DEF n, d
<1>10. Lowered(m, n, [q \in Page |-> c[q] + d[q]])
  BY <1>2, <1>6, <1>9, LoweredTwice
<1>11. [q \in Page |-> c[q] + d[q]] = [q \in Page |-> c[q] + Given(f, a, b, q)]
  BY <1>1
<1>12. QED
  BY <1>10, <1>11 DEF n

\* What free_proc goes through of a process.
PagesLost(s, p, q) ==
  Given([v \in Area(s, p) |-> At(s, p, v)], StackStart, KernBase, q)
    + Given([v \in Area(s, p) |-> At(s, p, v)], 0, PageUp(s.brk[p]), q)
TablesLost(s, p, q) ==
  Given(s.pd[p], StackTable, KernBase \div Pte, q) + Given(s.pd[p], 0, LastTable(s.brk[p]), q)

\* It gives up each of its pages once for each address that has it.
LEMMA PagesLostIs ==
  ASSUME NEW s, Core(s), NEW p \in s.live, NEW q
  PROVE  /\ PagesLost(s, p, q) \in Nat
         /\ PagesLost(s, p, q) = Cardinality({v \in Area(s, p) : At(s, p, v) = q})
         /\ PagesLost(s, p, q) # 0 => q \in InUse(s.mem) /\ s.mem.type[q] = "user" /\ PagesLost(s, p, q) <= s.mem.ref[q]
<1> DEFINE f == [v \in Area(s, p) |-> At(s, p, v)]
           b == PageUp(s.brk[p])
           X == StackStart .. KernBase - 1
           Y == 0 .. b - 1
           S == {v \in X : f[v] = q}
           P == {v \in Y : f[v] = q}
           R == {v \in Area(s, p) : At(s, p, v) = q}
           H == Having(s, q)
<1>1. Break(s.brk[p]) /\ b \in Nat /\ KernBase \in Nat /\ StackStart \in Nat /\ StackStart < KernBase
  BY ProgramPlace, StackPlace DEF Core, Shape
<1>2. Area(s, p) = X \cup Y /\ X \cap Y = {}
  <2>1. \A v \in Y : v < StackStart
    BY <1>1, ProgramPlace
  <2>2. QED
    BY <1>1, <2>1 DEF Area, AddressesOf
<1>3. IsFiniteSet(S) /\ IsFiniteSet(P)
  <2>1. 0 \in Int /\ StackStart \in Int /\ KernBase - 1 \in Int /\ b - 1 \in Int
    BY <1>1
  <2>2. IsFiniteSet(X) /\ IsFiniteSet(Y)
    BY <2>1, FS_Interval
  <2>3. S \subseteq X /\ P \subseteq Y
    OBVIOUS
  <2>4. QED
    BY <2>2, <2>3, FS_Subset
<1>4. S \cap P = {} /\ R = S \cup P
  BY <1>2
<1>5. PagesLost(s, p, q) = Cardinality(S) + Cardinality(P)
  BY DEF PagesLost, Given
<1>6. IsFiniteSet(H) /\ Cardinality(H) \in Nat
  BY FewHave DEF Core, Shape
<1>7. {p} \X R \subseteq H
  <2>1. ASSUME NEW v \in R PROVE <<p, v>> \in H
    <3>1. v \in Addr /\ Holds(s, p, v) /\ At(s, p, v) = q
      BY PlaceIs
    <3>2. QED
      BY <3>1 DEF Having
  <2> HIDE DEF R, H
  <2>2. QED
    BY <2>1
<1>8. ASSUME NEW v \in R PROVE q \in Page \ Spare /\ q \in InUse(s.mem) /\ s.mem.type[q] = "user"
  BY PlaceIs
<1> HIDE DEF S, P, R, H
<1>9. IsFiniteSet(R) /\ Cardinality(R) = Cardinality(S) + Cardinality(P)
      /\ Cardinality(S) \in Nat /\ Cardinality(P) \in Nat
  <2>1. IsFiniteSet(S \cup P) /\ Cardinality(S \cup P) = Cardinality(S) + Cardinality(P) - Cardinality(S \cap P)
    BY <1>3, FS_Union
  <2>2. Cardinality(S \cap P) = 0
    BY <1>4, FS_EmptySet
  <2>3. Cardinality(S) \in Nat /\ Cardinality(P) \in Nat
    BY <1>3, FS_CardinalityType
  <2>4. QED
    BY <1>4, <2>1, <2>2, <2>3
<1>10. Cardinality(R) <= Cardinality(H)
  <2>1. Cardinality({p} \X R) = Cardinality(R)
    BY <1>9, Column
  <2>2. Cardinality({p} \X R) <= Cardinality(H)
    BY <1>6, <1>7, FS_Subset
  <2>3. QED
    BY <2>1, <2>2
<1>11. ASSUME PagesLost(s, p, q) # 0
       PROVE  q \in InUse(s.mem) /\ s.mem.type[q] = "user" /\ PagesLost(s, p, q) <= s.mem.ref[q]
  <2>1. Cardinality(R) # 0
    BY <1>5, <1>9, <1>11
  <2>2. R # {}
    BY <2>1, FS_EmptySet
  <2>3. q \in Page \ Spare /\ q \in InUse(s.mem) /\ s.mem.type[q] = "user"
    BY <1>8, <2>2
  <2>4. s.mem.ref[q] = Cardinality(H)
    BY <2>3 DEF Core, Counted, H
  <2>5. QED
    BY <1>5, <1>9, <1>10, <2>3, <2>4
<1>12. QED
  BY <1>5, <1>9, <1>11 DEF R

\* It gives up each of its tables at most once.
LEMMA TablesLostIs ==
  ASSUME NEW s, Core(s), NEW p \in s.live, NEW q
  PROVE  /\ TablesLost(s, p, q) \in Nat
         /\ TablesLost(s, p, q) # 0 => /\ TablesLost(s, p, q) = 1 /\ q \in InUse(s.mem) /\ s.mem.type[q] = "pgtbl"
                                       /\ 1 <= s.mem.ref[q] /\ \E i \in DOMAIN s.pd[p] : s.pd[p][i] = q
<1> DEFINE f == s.pd[p]
           b == LastTable(s.brk[p])
           K == KernBase \div Pte
           S == {i \in StackTable .. K - 1 : f[i] = q}
           P == {i \in 0 .. b - 1 : f[i] = q}
<1>1. /\ Break(s.brk[p]) /\ b \in Nat /\ b < StackTable /\ K \in Nat /\ StackTable \in Nat /\ StackTable < K
  BY ProgramPlace, StackPlace DEF Core, Shape
<1>2. TablesOf(s.brk[p]) \subseteq DOMAIN f
  BY AreaIs DEF Core
<1>3. S \cup P \subseteq DOMAIN f /\ S \cap P = {}
  BY <1>1, <1>2 DEF TablesOf
<1>4. \A i \in DOMAIN f, j \in DOMAIN f : f[i] = f[j] => i = j
  BY DEF Core, TablesApart
<1>5. \A i \in S \cup P, j \in S \cup P : i = j
  BY <1>3, <1>4
<1>6. IsFiniteSet(S) /\ IsFiniteSet(P)
  <2>1. 0 \in Int /\ StackTable \in Int /\ K - 1 \in Int /\ b - 1 \in Int
    BY <1>1
  <2>2. IsFiniteSet(StackTable .. K - 1) /\ IsFiniteSet(0 .. b - 1)
    BY <2>1, FS_Interval
  <2>3. S \subseteq StackTable .. K - 1 /\ P \subseteq 0 .. b - 1
    OBVIOUS
  <2>4. QED
    BY <2>2, <2>3, FS_Subset
<1>7. TablesLost(s, p, q) = Cardinality(S) + Cardinality(P)
  BY DEF TablesLost, Given
<1>8. \A i \in S \cup P : f[i] = q
  OBVIOUS
<1> HIDE DEF S, P
<1>9. Cardinality(S \cup P) = Cardinality(S) + Cardinality(P) /\ IsFiniteSet(S \cup P)
      /\ Cardinality(S) \in Nat /\ Cardinality(P) \in Nat
  <2>1. IsFiniteSet(S \cup P) /\ Cardinality(S \cup P) = Cardinality(S) + Cardinality(P) - Cardinality(S \cap P)
    BY <1>6, FS_Union
  <2>2. Cardinality(S \cap P) = 0
    BY <1>3, FS_EmptySet
  <2>3. Cardinality(S) \in Nat /\ Cardinality(P) \in Nat
    BY <1>6, FS_CardinalityType
  <2>4. QED
    BY <2>1, <2>2, <2>3
<1>10. ASSUME TablesLost(s, p, q) # 0
       PROVE  /\ TablesLost(s, p, q) = 1 /\ q \in InUse(s.mem) /\ s.mem.type[q] = "pgtbl"
              /\ 1 <= s.mem.ref[q] /\ \E i \in DOMAIN s.pd[p] : s.pd[p][i] = q
  <2>1. S \cup P # {}
    BY <1>7, <1>9, <1>10, FS_EmptySet
  <2>2. PICK i \in S \cup P : TRUE
    BY <2>1
  <2>3. S \cup P = {i}
    BY <1>5, <2>2
  <2>4. Cardinality(S \cup P) = 1
    BY <2>3, FS_Singleton
  <2>5. i \in DOMAIN f /\ f[i] = q
    BY <1>3, <1>8, <2>2
  <2>6. q \in Page /\ s.mem.type[q] = "pgtbl" /\ s.mem.ref[q] >= Cardinality(Sharers(s, q, i))
    BY <2>5 DEF Core, Shape, IsDir, TablesUsed
  <2>7. p \in Sharers(s, q, i)
    BY <2>5 DEF Sharers
  <2> DEFINE C == Sharers(s, q, i)
  <2>8. IsFiniteSet(C) /\ Cardinality(C) \in Nat
    BY FewHave DEF Core, Shape
  <2>9. s.mem.ref[q] \in Int
    BY <2>6, RestIsNotInUse DEF Core, Shape
  <2> HIDE DEF C
  <2>10. Cardinality(C) # 0
    BY <2>7, <2>8, FS_EmptySet DEF C
  <2>11. 1 <= s.mem.ref[q]
    BY <2>6, <2>8, <2>9, <2>10 DEF C
  <2>12. QED
    BY <1>7, <1>9, <2>4, <2>5, <2>6, <2>11 DEF InUse
<1>11. QED
  BY <1>7, <1>9, <1>10

\* free_proc, but for the directory.
LEMMA GivenUp ==
  ASSUME BitsFit, NEW s, Core(s), NEW p \in s.live,
         NEW f, f = [v \in Area(s, p) |-> At(s, p, v)], NEW g, g = s.pd[p],
         NEW l1, l1 = ReleaseAll(s.mem, f, StackStart, KernBase),
         NEW l2, l2 = ReleaseAll(l1, g, StackTable, KernBase \div Pte),
         NEW l3, l3 = ReleaseAll(l2, f, 0, PageUp(s.brk[p])),
         NEW n, n = ReleaseAll(l3, g, 0, LastTable(s.brk[p]))
  PROVE  Lowered(s.mem, n, [q \in Page |-> PagesLost(s, p, q) + TablesLost(s, p, q)])
<1> DEFINE m == s.mem
           K == KernBase \div Pte
           b == PageUp(s.brk[p])
           L == LastTable(s.brk[p])
           C1(q) == Given(f, StackStart, KernBase, q)
           C2(q) == Given(g, StackTable, K, q)
           C3(q) == Given(f, 0, b, q)
           C4(q) == Given(g, 0, L, q)
           c0 == [q \in Page |-> 0]
           c1 == [q \in Page |-> c0[q] + C1(q)]
           c2 == [q \in Page |-> c1[q] + C2(q)]
           c3 == [q \in Page |-> c2[q] + C3(q)]
           c4 == [q \in Page |-> c3[q] + C4(q)]
<1>1. /\ b \in Nat /\ L \in Nat /\ K \in Nat /\ KernBase \in Nat /\ StackStart \in Nat /\ StackTable \in Nat
      /\ 0 \in Nat /\ StackStart <= KernBase /\ StackTable <= K /\ 0 <= b /\ 0 <= L /\ L < StackTable
  BY ProgramPlace, StackPlace DEF Core, Shape
<1>2. MemOK(m) /\ InUse(m) \subseteq Page /\ m.ref \in [Page -> Int]
  BY RestIsNotInUse DEF Core, Shape
<1>3. \A q \in Page : C1(q) \in Nat /\ C2(q) \in Nat /\ C3(q) \in Nat /\ C4(q) \in Nat
  BY <1>1, GivenSome
<1>4. \A q \in Page : PagesLost(s, p, q) = C1(q) + C3(q) /\ TablesLost(s, p, q) = C2(q) + C4(q)
  BY DEF PagesLost, TablesLost
<1> HIDE DEF C1, C2, C3, C4
<1>5. \A q \in Page : LET c == C1(q) + C2(q) + C3(q) + C4(q) IN c = 0 \/ (q \in InUse(m) /\ c <= m.ref[q])
  <2> SUFFICES ASSUME NEW q \in Page
               PROVE  LET c == C1(q) + C2(q) + C3(q) + C4(q) IN c = 0 \/ (q \in InUse(m) /\ c <= m.ref[q])
    OBVIOUS
  <2> DEFINE x == PagesLost(s, p, q)
             y == TablesLost(s, p, q)
  <2>1. x \in Nat /\ (x # 0 => q \in InUse(m) /\ m.type[q] = "user" /\ x <= m.ref[q])
    BY PagesLostIs
  <2>2. y \in Nat /\ (y # 0 => q \in InUse(m) /\ m.type[q] = "pgtbl" /\ y <= m.ref[q])
    BY TablesLostIs
  <2>3. x = C1(q) + C3(q) /\ y = C2(q) + C4(q)
    BY <1>4
  <2> HIDE DEF x, y, m
  <2>4. QED
    BY <1>3, <2>1, <2>2, <2>3
<1>6. ASSUME NEW x \in StackStart .. KernBase - 1 PROVE f[x] \in InUse(m)
  <2>1. x \in Area(s, p)
    BY <1>6 DEF Area, AddressesOf
  <2>2. QED
    BY <2>1, PlaceIs
<1>7. ASSUME NEW x \in 0 .. b - 1 PROVE f[x] \in InUse(m)
  <2>1. x \in Area(s, p)
    BY <1>7 DEF Area, AddressesOf
  <2>2. QED
    BY <2>1, PlaceIs
<1>8. ASSUME NEW i \in TablesOf(s.brk[p]) PROVE g[i] \in InUse(m)
  <2>1. i \in DOMAIN s.pd[p]
    BY AreaIs DEF Core
  <2>2. QED
    BY <2>1 DEF Core, TablesUsed, Shape, IsDir, InUse
<1>9. \A i \in StackTable .. K - 1 : g[i] \in InUse(m)
  BY <1>8 DEF TablesOf
<1>10. \A i \in 0 .. L - 1 : g[i] \in InUse(m)
  BY <1>1, <1>8 DEF TablesOf
<1>11. /\ c0 \in [Page -> Nat] /\ c1 \in [Page -> Nat] /\ c2 \in [Page -> Nat] /\ c3 \in [Page -> Nat]
       /\ \A q \in Page : /\ c0[q] = 0 /\ c1[q] = C1(q) /\ c2[q] = C1(q) + C2(q)
                          /\ c3[q] = C1(q) + C2(q) + C3(q)
                          /\ c4[q] = C1(q) + C2(q) + C3(q) + C4(q)
  BY <1>3
<1>12. Lowered(m, m, c0)
  <2>1. \A q \in InUse(m) : c0[q] = 0
    BY <1>2, <1>11
  <2> HIDE DEF c0, m
  <2>2. QED
    BY <1>2, <2>1 DEF Lowered
<1> HIDE DEF m, K, b, L
<1>13. Lowered(m, l1, c1)
  <2>1. ASSUME NEW q \in Page
        PROVE  c0[q] + Given(f, StackStart, KernBase, q) = 0 \/ (q \in InUse(m) /\ c0[q] + Given(f, StackStart, KernBase, q) <= m.ref[q])
    <3> DEFINE w == C1(q)
               x == C2(q)
               y == C3(q)
               z == C4(q)
    <3>1. /\ w \in Nat /\ x \in Nat /\ y \in Nat /\ z \in Nat
          /\ w + x + y + z = 0 \/ (q \in InUse(m) /\ w + x + y + z <= m.ref[q])
          /\ q \in InUse(m) => m.ref[q] \in Int
      BY <1>2, <1>3, <1>5
    <3>2. c0[q] = 0
      BY <1>11
    <3>3. Given(f, StackStart, KernBase, q) = w
      BY DEF C1
    <3> HIDE DEF w, x, y, z, c0
    <3>4. QED
      BY <3>1, <3>2, <3>3
  <2>2. l1 = ReleaseAll(m, f, StackStart, KernBase)
    BY DEF m, K, b, L
  <2>3. c1 = [q \in Page |-> c0[q] + Given(f, StackStart, KernBase, q)]
    BY DEF C1
  <2>4. c0 \in [Page -> Nat]
    BY <1>11
  <2> HIDE DEF c0, c1, c2, c3, c4
  <2>5. Lowered(m, ReleaseAll(m, f, StackStart, KernBase), [q \in Page |-> c0[q] + Given(f, StackStart, KernBase, q)])
    BY <1>1, <1>2, <1>6, <1>12, <2>1, <2>4, ReleasedMore
  <2>6. QED
    BY <2>2, <2>3, <2>5
<1>14. Lowered(m, l2, c2)
  <2>1. ASSUME NEW q \in Page
        PROVE  c1[q] + Given(g, StackTable, K, q) = 0 \/ (q \in InUse(m) /\ c1[q] + Given(g, StackTable, K, q) <= m.ref[q])
    <3> DEFINE w == C1(q)
               x == C2(q)
               y == C3(q)
               z == C4(q)
    <3>1. /\ w \in Nat /\ x \in Nat /\ y \in Nat /\ z \in Nat
          /\ w + x + y + z = 0 \/ (q \in InUse(m) /\ w + x + y + z <= m.ref[q])
          /\ q \in InUse(m) => m.ref[q] \in Int
      BY <1>2, <1>3, <1>5
    <3>2. c1[q] = w
      BY <1>11
    <3>3. Given(g, StackTable, K, q) = x
      BY DEF C2
    <3> HIDE DEF w, x, y, z, c1
    <3>4. QED
      BY <3>1, <3>2, <3>3
  <2>2. l2 = ReleaseAll(l1, g, StackTable, K)
    BY DEF m, K, b, L
  <2>3. c2 = [q \in Page |-> c1[q] + Given(g, StackTable, K, q)]
    BY DEF C2
  <2>4. c1 \in [Page -> Nat]
    BY <1>11
  <2> HIDE DEF c0, c1, c2, c3, c4
  <2>5. Lowered(m, ReleaseAll(l1, g, StackTable, K), [q \in Page |-> c1[q] + Given(g, StackTable, K, q)])
    BY <1>1, <1>2, <1>9, <1>13, <2>1, <2>4, ReleasedMore
  <2>6. QED
    BY <2>2, <2>3, <2>5
<1>15. Lowered(m, l3, c3)
  <2>1. ASSUME NEW q \in Page
        PROVE  c2[q] + Given(f, 0, b, q) = 0 \/ (q \in InUse(m) /\ c2[q] + Given(f, 0, b, q) <= m.ref[q])
    <3> DEFINE w == C1(q)
               x == C2(q)
               y == C3(q)
               z == C4(q)
    <3>1. /\ w \in Nat /\ x \in Nat /\ y \in Nat /\ z \in Nat
          /\ w + x + y + z = 0 \/ (q \in InUse(m) /\ w + x + y + z <= m.ref[q])
          /\ q \in InUse(m) => m.ref[q] \in Int
      BY <1>2, <1>3, <1>5
    <3>2. c2[q] = w + x
      BY <1>11
    <3>3. Given(f, 0, b, q) = y
      BY DEF C3
    <3> HIDE DEF w, x, y, z, c2
    <3>4. QED
      BY <3>1, <3>2, <3>3
  <2>2. l3 = ReleaseAll(l2, f, 0, b)
    BY DEF m, K, b, L
  <2>3. c3 = [q \in Page |-> c2[q] + Given(f, 0, b, q)]
    BY DEF C3
  <2>4. c2 \in [Page -> Nat]
    BY <1>11
  <2> HIDE DEF c0, c1, c2, c3, c4
  <2>5. Lowered(m, ReleaseAll(l2, f, 0, b), [q \in Page |-> c2[q] + Given(f, 0, b, q)])
    BY <1>1, <1>2, <1>7, <1>14, <2>1, <2>4, ReleasedMore
  <2>6. QED
    BY <2>2, <2>3, <2>5
<1>16. Lowered(m, n, c4)
  <2>1. ASSUME NEW q \in Page
        PROVE  c3[q] + Given(g, 0, L, q) = 0 \/ (q \in InUse(m) /\ c3[q] + Given(g, 0, L, q) <= m.ref[q])
    <3> DEFINE w == C1(q)
               x == C2(q)
               y == C3(q)
               z == C4(q)
    <3>1. /\ w \in Nat /\ x \in Nat /\ y \in Nat /\ z \in Nat
          /\ w + x + y + z = 0 \/ (q \in InUse(m) /\ w + x + y + z <= m.ref[q])
          /\ q \in InUse(m) => m.ref[q] \in Int
      BY <1>2, <1>3, <1>5
    <3>2. c3[q] = w + x + y
      BY <1>11
    <3>3. Given(g, 0, L, q) = z
      BY DEF C4
    <3> HIDE DEF w, x, y, z, c3
    <3>4. QED
      BY <3>1, <3>2, <3>3
  <2>2. n = ReleaseAll(l3, g, 0, L)
    BY DEF m, K, b, L
  <2>3. c4 = [q \in Page |-> c3[q] + Given(g, 0, L, q)]
    BY DEF C4
  <2>4. c3 \in [Page -> Nat]
    BY <1>11
  <2> HIDE DEF c0, c1, c2, c3, c4
  <2>5. Lowered(m, ReleaseAll(l3, g, 0, L), [q \in Page |-> c3[q] + Given(g, 0, L, q)])
    BY <1>1, <1>2, <1>10, <1>15, <2>1, <2>4, ReleasedMore
  <2>6. QED
    BY <2>2, <2>3, <2>5
<1>17. c4 = [q \in Page |-> PagesLost(s, p, q) + TablesLost(s, p, q)]
  <2> SUFFICES ASSUME NEW q \in Page PROVE c4[q] = PagesLost(s, p, q) + TablesLost(s, p, q)
    BY DEF c4
  <2>1. c4[q] = C1(q) + C2(q) + C3(q) + C4(q)
    BY <1>11
  <2> HIDE DEF c4
  <2>2. QED
    BY <1>3, <1>4, <2>1
<1>18. QED
  BY <1>16, <1>17 DEF m

\* exit, as a whole.
ExitDone(p) ==
  /\ p \in live /\ live' = live \ {p} /\ fault = 0 /\ fixing = 0 /\ reply = <<>>
  /\ \A o \in live', x \in Addr : Holds(State', o, x) <=> Holds(State, o, x)
  /\ \A o \in live', x \in Addr : Holds(State', o, x) => data'[At(State', o, x)] = data[At(State, o, x)]
  /\ UNCHANGED <<trying, fault, fixing, reply, buffer>>

\* exit keeps the state right.
LEMMA ExitKeeps ==
  ASSUME BitsFit, Core(State), Domains, NEW p \in Pid, Exit(p)
  PROVE  Core(State') /\ Domains' /\ ExitDone(p)
<1> DEFINE f  == [v \in Pages(p) |-> Phys(View(p), v)]
           l2 == ReleaseAll(ReleaseAll(mem, f, StackStart, KernBase), pd[p], StackTable, KernBase \div Pte)
           n  == ReleaseAll(ReleaseAll(l2, f, 0, PageUp(brk[p])), pd[p], 0, LastTable(brk[p]))
           E  == dirpage[p]
           c  == [q \in Page |-> PagesLost(State, p, q) + TablesLost(State, p, q)]
           t  == [mem |-> mem', tab |-> tab, pd |-> pd', dirpage |-> dirpage', brk |-> brk', live |-> live']
<1>1. /\ p \in live /\ fixing = 0 /\ fault = 0 /\ reply = <<>>
      /\ mem' = PageFree(n, E, 1)
      /\ tab' = Cleared(tab, mem', "pgtbl", <<>>)
      /\ data' = Cleared(data, mem', "user", 0)
      /\ pd' = [pd EXCEPT ![p] = <<>>]
      /\ dirpage' = [dirpage EXCEPT ![p] = Nowhere]
      /\ brk' = [brk EXCEPT ![p] = Image]
      /\ live' = live \ {p}
      /\ trap' = [trap EXCEPT ![p] = Nowhere]
      /\ UNCHANGED <<trying, fault, fixing, reply, buffer>>
  BY DEF Exit, Calls, Runs, Idle
<1>2. Lowered(mem, n, c)
  <2>1. f = [v \in Area(State, p) |-> At(State, p, v)]
    BY ViewIs
  <2> HIDE DEF f
  <2>2. Lowered(State.mem, ReleaseAll(ReleaseAll(ReleaseAll(ReleaseAll(State.mem, f, StackStart, KernBase),
                State.pd[p], StackTable, KernBase \div Pte), f, 0, PageUp(State.brk[p])), State.pd[p], 0, LastTable(State.brk[p])),
                c)
    BY <1>1, <2>1, StateIs, GivenUp
  <2>3. QED
    BY <2>2, StateIs
<1> HIDE DEF n, f, l2
<1>3. /\ MemOK(mem) /\ InUse(mem) \subseteq Page /\ live \subseteq Pid
      /\ MemOK(n) /\ InUse(n) \subseteq InUse(mem)
  BY <1>2, StateIs, RestIsNotInUse DEF Core, Shape, Lowered
<1>4. \A q \in Page : /\ PagesLost(State, p, q) \in Nat /\ TablesLost(State, p, q) \in Nat
                      /\ PagesLost(State, p, q) # 0 => q \in InUse(mem) /\ mem.type[q] = "user"
                      /\ TablesLost(State, p, q) # 0 => /\ TablesLost(State, p, q) = 1 /\ mem.type[q] = "pgtbl"
                                                        /\ \E i \in DOMAIN pd[p] : pd[p][i] = q
                      /\ PagesLost(State, p, q) = Cardinality({v \in Area(State, p) : At(State, p, v) = q})
  <2> SUFFICES ASSUME NEW q \in Page
               PROVE  /\ PagesLost(State, p, q) \in Nat /\ TablesLost(State, p, q) \in Nat
                      /\ PagesLost(State, p, q) # 0 => q \in InUse(mem) /\ mem.type[q] = "user"
                      /\ TablesLost(State, p, q) # 0 => /\ TablesLost(State, p, q) = 1 /\ mem.type[q] = "pgtbl"
                                                        /\ \E i \in DOMAIN pd[p] : pd[p][i] = q
                      /\ PagesLost(State, p, q) = Cardinality({v \in Area(State, p) : At(State, p, v) = q})
    OBVIOUS
  <2>1. p \in State.live
    BY <1>1, StateIs
  <2>2. /\ PagesLost(State, p, q) \in Nat
        /\ PagesLost(State, p, q) = Cardinality({v \in Area(State, p) : At(State, p, v) = q})
        /\ PagesLost(State, p, q) # 0 => q \in InUse(State.mem) /\ State.mem.type[q] = "user"
    BY <2>1, PagesLostIs
  <2>3. /\ TablesLost(State, p, q) \in Nat
        /\ TablesLost(State, p, q) # 0 => /\ TablesLost(State, p, q) = 1 /\ State.mem.type[q] = "pgtbl"
                                          /\ \E i \in DOMAIN State.pd[p] : State.pd[p][i] = q
    BY <2>1, TablesLostIs
  <2>4. QED
    BY <2>2, <2>3, StateIs
<1>5. /\ c \in [Page -> Nat]
      /\ \A q \in Page : c[q] = PagesLost(State, p, q) + TablesLost(State, p, q)
  <2>1. \A q \in Page : c[q] = PagesLost(State, p, q) + TablesLost(State, p, q)
    OBVIOUS
  <2>2. \A q \in Page : PagesLost(State, p, q) + TablesLost(State, p, q) \in Nat
    <3> SUFFICES ASSUME NEW q \in Page
                 PROVE  PagesLost(State, p, q) + TablesLost(State, p, q) \in Nat
      OBVIOUS
    <3> DEFINE x == PagesLost(State, p, q)
               y == TablesLost(State, p, q)
    <3>1. x \in Nat /\ y \in Nat
      BY <1>4
    <3> HIDE DEF x, y
    <3>2. x + y \in Nat
      BY <3>1
    <3>3. QED
      BY <3>2 DEF x, y
  <2>3. QED
    BY <2>1, <2>2
<1> HIDE DEF c
<1>6. E \in Page /\ E \in InUse(mem) /\ c[E] = 0
  <2>1. E \in Page /\ mem.type[E] = "pgtbl" /\ \A i \in DOMAIN pd[p] : pd[p][i] # E
    BY <1>1, StateIs DEF Core, Shape, DirsOwn
  <2>2. PagesLost(State, p, E) = 0 /\ TablesLost(State, p, E) = 0
    BY <1>4, <2>1
  <2>3. QED
    BY <1>5, <2>1, <2>2 DEF InUse
<1>7. E \in InUse(n)
  BY <1>2, <1>6 DEF Lowered
<1>8. Lost(n, mem', E)
  BY <1>1, <1>3, <1>7, PageFreed
<1>9. /\ t.mem = mem' /\ t.tab = tab /\ t.pd = pd' /\ t.dirpage = dirpage' /\ t.brk = brk' /\ t.live = live'
  OBVIOUS
<1> HIDE DEF t
<1>10. \A o \in live' : pd'[o] = pd[o] /\ dirpage'[o] = dirpage[o] /\ brk'[o] = brk[o]
  BY <1>1, <1>3 DEF Domains
<1>11. GaveUp(State, t, p, n, c)
  <2>1. \A q \in InUse(mem) :
          /\ mem.type[q] = "user" => c[q] = Cardinality({v \in Area(State, p) : At(State, p, v) = q})
          /\ mem.type[q] # "user" /\ c[q] # 0 => c[q] = 1 /\ \E i \in DOMAIN pd[p] : pd[p][i] = q
    <3> SUFFICES ASSUME NEW q \in InUse(mem)
                 PROVE  /\ mem.type[q] = "user" => c[q] = Cardinality({v \in Area(State, p) : At(State, p, v) = q})
                        /\ mem.type[q] # "user" /\ c[q] # 0 => c[q] = 1 /\ \E i \in DOMAIN pd[p] : pd[p][i] = q
      OBVIOUS
    <3> DEFINE x == PagesLost(State, p, q)
               y == TablesLost(State, p, q)
               z == Cardinality({v \in Area(State, p) : At(State, p, v) = q})
    <3>1. q \in Page /\ x \in Nat /\ y \in Nat /\ x = z /\ c[q] = x + y
      BY <1>3, <1>4, <1>5
    <3>2. (x # 0 => mem.type[q] = "user") /\ (y # 0 => y = 1 /\ mem.type[q] = "pgtbl" /\ \E i \in DOMAIN pd[p] : pd[p][i] = q)
      BY <1>3, <1>4
    <3> HIDE DEF x, y, z
    <3>3. QED
      BY <3>1, <3>2 DEF z
  <2>2. /\ Lowered(State.mem, n, c) /\ Lost(n, t.mem, State.dirpage[p])
        /\ t.live = State.live \ {p} /\ t.tab = State.tab
        /\ \A o \in t.live : t.pd[o] = State.pd[o] /\ t.dirpage[o] = State.dirpage[o] /\ t.brk[o] = State.brk[o]
    BY <1>1, <1>2, <1>8, <1>9, <1>10, StateIs
  <2>3. \A q \in InUse(State.mem) :
          /\ State.mem.type[q] = "user" => c[q] = Cardinality({v \in Area(State, p) : At(State, p, v) = q})
          /\ State.mem.type[q] # "user" /\ c[q] # 0 => c[q] = 1 /\ \E i \in DOMAIN State.pd[p] : State.pd[p][i] = q
    <3>1. State.mem = mem /\ State.pd = pd
      BY StateIs
    <3> HIDE DEF State
    <3>2. QED
      BY <2>1, <3>1
  <2>4. QED
    BY <1>5, <2>2, <2>3 DEF GaveUp
<1>12. Core(t)
  BY <1>1, <1>11, StateIs, Exited
<1>13. SameView(t, State') /\ State'.tab = Cleared(t.tab, t.mem, "pgtbl", <<>>) /\ data' = Cleared(data, t.mem, "user", 0)
  BY <1>1, <1>9, NextStateIs DEF SameView
<1>14. Core(State')
  BY <1>12, <1>13, ClearedView
<1>15. SameSeen(t, data, State', data')
  BY <1>12, <1>13, ClearedSeen
<1>16. \A o \in live' : \A x \in Addr : (Holds(t, o, x) <=> Holds(State, o, x)) /\ At(t, o, x) = At(State, o, x)
  BY <1>9, <1>10, StateIs DEF Holds, At, Slot
<1>17. /\ \A o \in live', x \in Addr : Holds(State', o, x) <=> Holds(State, o, x)
       /\ \A o \in live', x \in Addr : Holds(State', o, x) => data'[At(State', o, x)] = data[At(State, o, x)]
  BY <1>9, <1>15, <1>16 DEF SameSeen
<1>18. Domains'
  <2>1. DOMAIN tab' = Page /\ DOMAIN data' = Page
    BY <1>1 DEF Cleared
  <2>2. DOMAIN pd' = Pid /\ DOMAIN dirpage' = Pid /\ DOMAIN brk' = Pid /\ DOMAIN trap' = Pid
    BY <1>1 DEF Domains
  <2>3. QED
    BY <2>1, <2>2 DEF Domains
<1>19. ExitDone(p)
  BY <1>1, <1>17 DEF ExitDone
<1>20. QED
  BY <1>14, <1>18, <1>19

-----------------------------------------------------------------------------
(* mem_sbrk *)

\* A break that moves by at most a page, and not onto an edge.
BreakStep(b, d, x, y) ==
  /\ Break(b + d) /\ x \in Nat /\ y \in Nat
  /\ y = x => AddressesOf(b + d) = AddressesOf(b)
  /\ y < x => x \in AddressesOf(b) /\ x \div Pte < StackTable /\ AddressesOf(b + d) = AddressesOf(b) \ {x}
  /\ y > x => /\ y \in Addr /\ y \notin AddressesOf(b) /\ y \div Pte < StackTable
              /\ AddressesOf(b + d) = AddressesOf(b) \cup {y}

\* That is what HeapSafe asks for.
LEMMA BreakSteps ==
  ASSUME NEW b, Break(b), NEW d \in -Units .. Units, b + d \in Nat, (b + d) % Units # 0,
         LastTable(b + d) < StackTable
  PROVE  BreakStep(b, d, b \div Units, (b + d) \div Units)
<1> DEFINE c == b + d
           N == Units
           x == b \div N
           y == c \div N
<1>1. N \in Nat \ {0} /\ b \in Nat /\ c \in Nat /\ Break(c)
  BY PagesAssumption DEF Break
<1>2. /\ x \in Nat /\ y \in Nat /\ x * N <= b /\ b < x * N + N /\ y * N <= c /\ c < y * N + N
  BY <1>1, InOrder
<1>3. b <= c + N /\ c <= b + N
  BY <1>1
<1>4. x <= y + 1 /\ y <= x + 1
  <2> HIDE DEF c, N, x, y
  <2>1. x <= y + 1
    <3> SUFFICES ASSUME x >= y + 2 PROVE FALSE
      BY <1>2
    <3>1. x * N >= (y + 2) * N /\ (y + 2) * N = y * N + N + N
      BY <1>1, <1>2, SMTT(30)
    <3> DEFINE e == x * N
               f == y * N
    <3>2. e \in Int /\ f \in Int
      BY <1>1, <1>2
    <3>3. e >= f + N + N /\ e <= b /\ c < f + N
      BY <1>2, <3>1
    <3> HIDE DEF e, f
    <3>4. QED
      BY <1>1, <1>3, <3>2, <3>3
  <2>2. y <= x + 1
    <3> SUFFICES ASSUME y >= x + 2 PROVE FALSE
      BY <1>2
    <3>1. y * N >= (x + 2) * N /\ (x + 2) * N = x * N + N + N
      BY <1>1, <1>2, SMTT(30)
    <3> DEFINE e == x * N
               f == y * N
    <3>2. e \in Int /\ f \in Int
      BY <1>1, <1>2
    <3>3. f >= e + N + N /\ f <= c /\ b < e + N
      BY <1>2, <3>1
    <3> HIDE DEF e, f
    <3>4. QED
      BY <1>1, <1>3, <3>2, <3>3
  <2>3. QED
    BY <2>1, <2>2
<1>5. /\ PageUp(b) = x + 1 /\ PageUp(c) = y + 1 /\ x < StackStart /\ y < StackStart
      /\ \A v \in 0 .. x : v \in Addr /\ v \div Pte \in 0 .. LastTable(b)
      /\ \A v \in 0 .. y : v \in Addr /\ v \div Pte \in 0 .. LastTable(c)
      /\ LastTable(b) < StackTable /\ LastTable(c) < StackTable
      /\ LastTable(b) \in Nat /\ LastTable(c) \in Nat /\ StackTable \in Nat /\ StackStart \in Nat
  <2>1. /\ PageUp(b) = x + 1 /\ PageUp(c) = y + 1 /\ PageUp(b) <= StackStart /\ PageUp(c) <= StackStart
        /\ LastTable(b) < StackTable /\ LastTable(c) < StackTable
        /\ LastTable(b) \in Nat /\ LastTable(c) \in Nat
        /\ \A v \in 0 .. PageUp(b) - 1 : v \in Addr /\ v \div Pte \in 0 .. LastTable(b)
        /\ \A v \in 0 .. PageUp(c) - 1 : v \in Addr /\ v \div Pte \in 0 .. LastTable(c)
    BY <1>1, ProgramPlace
  <2>2. StackTable \in Nat /\ StackStart \in Nat
    BY StackPlace
  <2> HIDE DEF c, N, x, y
  <2>3. (x + 1) - 1 = x /\ (y + 1) - 1 = y
    BY <1>2
  <2>4. QED
    BY <1>2, <2>1, <2>2, <2>3
<1>6. /\ AddressesOf(b) = (StackStart .. KernBase - 1) \cup 0 .. x
      /\ AddressesOf(c) = (StackStart .. KernBase - 1) \cup 0 .. y
  <2>1. (x + 1) - 1 = x /\ (y + 1) - 1 = y
    BY <1>2
  <2>2. QED
    BY <1>5, <2>1 DEF AddressesOf
<1> HIDE DEF c, x, y
<1>7. y = x => AddressesOf(c) = AddressesOf(b)
  BY <1>6
<1>8. y < x => x \in AddressesOf(b) /\ x \div Pte < StackTable /\ AddressesOf(c) = AddressesOf(b) \ {x}
  <2> SUFFICES ASSUME y < x PROVE x \in AddressesOf(b) /\ x \div Pte < StackTable /\ AddressesOf(c) = AddressesOf(b) \ {x}
    OBVIOUS
  <2>1. y = x - 1 /\ x \in 0 .. x
    BY <1>2, <1>4
  <2>2. x \notin StackStart .. KernBase - 1 /\ 0 .. y = (0 .. x) \ {x}
    BY <1>2, <1>5, <2>1, StackPlace
  <2>3. x \div Pte < StackTable
    <3> DEFINE z == x \div Pte
    <3>1. z \in 0 .. LastTable(b)
      BY <1>5, <2>1
    <3> HIDE DEF z
    <3>2. z < StackTable
      BY <1>5, <3>1
    <3>3. QED
      BY <3>2 DEF z
  <2>4. QED
    BY <1>6, <2>1, <2>2, <2>3
<1>9. y > x => /\ y \in Addr /\ y \notin AddressesOf(b) /\ y \div Pte < StackTable
               /\ AddressesOf(c) = AddressesOf(b) \cup {y}
  <2> SUFFICES ASSUME y > x
               PROVE  /\ y \in Addr /\ y \notin AddressesOf(b) /\ y \div Pte < StackTable
                      /\ AddressesOf(c) = AddressesOf(b) \cup {y}
    OBVIOUS
  <2>1. y = x + 1 /\ y \in 0 .. y
    BY <1>2, <1>4
  <2>2. y \notin StackStart .. KernBase - 1 /\ y \notin 0 .. x /\ 0 .. y = (0 .. x) \cup {y}
    BY <1>2, <1>5, <2>1, StackPlace
  <2>3. y \in Addr /\ y \div Pte < StackTable
    <3> DEFINE z == y \div Pte
    <3>1. z \in 0 .. LastTable(c) /\ y \in Addr
      BY <1>5, <2>1
    <3> HIDE DEF z
    <3>2. z < StackTable
      BY <1>5, <3>1
    <3>3. QED
      BY <3>1, <3>2 DEF z
  <2>4. QED
    BY <1>6, <2>1, <2>2, <2>3
<1>10. BreakStep(b, d, x, y)
  BY <1>1, <1>2, <1>7, <1>8, <1>9 DEF BreakStep, c
<1>11. QED
  BY <1>10 DEF x, y, c

\* unmap_pages of a page that is there.
Unmapped(r, n, v) ==
  /\ IsView(n) /\ n.mem = Release(r.mem, Phys(r, v)) /\ n.data = r.data /\ n.dir = r.dir
  /\ \A q \in Page \ {r.dir[v \div Pte]} : n.tab[q] = r.tab[q]
  /\ n.tab[r.dir[v \div Pte]] = [i \in DOMAIN r.tab[r.dir[v \div Pte]] \ {v % Pte} |-> r.tab[r.dir[v \div Pte]][i]]

\* UnmapPage does so.
LEMMA UnmapIs ==
  ASSUME NEW r, IsView(r), NEW v, Has(r, v), r.dir[v \div Pte] \in Page
  PROVE  Unmapped(r, UnmapPage(r, v), v)
<1> DEFINE T == r.dir[v \div Pte]
           f == [i \in DOMAIN r.tab[T] \ {v % Pte} |-> r.tab[T][i]]
           n == UnmapPage(r, v)
<1>1. DOMAIN r.tab = Page /\ DOMAIN r.data = Page /\ T \in Page
  BY DEF IsView
<1>2. n = [mem |-> Release(r.mem, Phys(r, v)), tab |-> [r.tab EXCEPT ![T] = f], data |-> r.data, dir |-> r.dir]
  BY DEF UnmapPage
<1> HIDE DEF n, T, f
<1>3. n.mem = Release(r.mem, Phys(r, v)) /\ n.tab = [r.tab EXCEPT ![T] = f] /\ n.data = r.data /\ n.dir = r.dir
  BY <1>2
<1>4. n.tab[T] = f /\ (\A q \in Page \ {T} : n.tab[q] = r.tab[q]) /\ DOMAIN n.tab = Page
  BY <1>1, <1>3
<1>5. IsView(n)
  BY <1>1, <1>2, <1>3, <1>4 DEF IsView
<1>6. Unmapped(r, n, v)
  BY <1>3, <1>4, <1>5 DEF Unmapped, T, f
<1>7. QED
  BY <1>6 DEF n

\* The next state, before what is left in pages that nobody uses is forgotten.
Next0(p, r) ==
  [mem |-> r.mem, tab |-> r.tab, pd |-> [pd EXCEPT ![p] = r.dir],
   dirpage |-> dirpage', brk |-> brk', live |-> live']

\* The parts of that state.
LEMMA Next0Is ==
  ASSUME Domains, NEW p \in Pid, NEW r
  PROVE  /\ Next0(p, r).mem = r.mem /\ Next0(p, r).tab = r.tab
         /\ Next0(p, r).dirpage = dirpage' /\ Next0(p, r).brk = brk' /\ Next0(p, r).live = live'
         /\ Next0(p, r).pd[p] = r.dir /\ \A o : o # p => Next0(p, r).pd[o] = pd[o]
         /\ Next0(p, r).pd = [pd EXCEPT ![p] = r.dir]
BY DEF Next0, Domains

\* What is forgotten nobody sees.
LEMMA Became ==
  ASSUME Domains, NEW p \in Pid, NEW r, Become(p, r), Core(Next0(p, r))
  PROVE  /\ Core(State') /\ SameSeen(Next0(p, r), r.data, State', data')
         /\ DOMAIN tab' = Page /\ DOMAIN data' = Page /\ DOMAIN pd' = Pid
<1> DEFINE t == Next0(p, r)
<1>1. /\ t.mem = r.mem /\ t.tab = r.tab /\ t.dirpage = dirpage' /\ t.brk = brk' /\ t.live = live'
      /\ t.pd = [pd EXCEPT ![p] = r.dir]
  BY Next0Is
<1>2. /\ mem' = r.mem /\ tab' = Cleared(r.tab, r.mem, "pgtbl", <<>>)
      /\ data' = Cleared(r.data, r.mem, "user", 0) /\ pd' = [pd EXCEPT ![p] = r.dir]
  BY DEF Become
<1>3. Core(t)
  OBVIOUS
<1> HIDE DEF t
<1>4. /\ SameView(t, State') /\ State'.tab = Cleared(t.tab, t.mem, "pgtbl", <<>>)
      /\ data' = Cleared(r.data, t.mem, "user", 0)
  BY <1>1, <1>2, NextStateIs DEF SameView
<1>5. Core(State')
  BY <1>3, <1>4, ClearedView
<1>6. SameSeen(t, r.data, State', data')
  BY <1>3, <1>4, ClearedSeen
<1>7. DOMAIN tab' = Page /\ DOMAIN data' = Page /\ DOMAIN pd' = Pid
  BY <1>2 DEF Cleared, Domains
<1>8. QED
  BY <1>5, <1>6, <1>7 DEF t

\* mem_sbrk, as a whole: only p has other pages than before.
SbrkDone(p) ==
  /\ p \in live /\ live' = live /\ fault = 0 /\ fixing = 0 /\ reply = <<>>
  /\ \A o \in live \ {p} : brk'[o] = brk[o]
  /\ \A o \in live \ {p}, x \in Addr : Holds(State', o, x) <=> Holds(State, o, x)
  /\ \A o \in live, x \in Addr : Holds(State, o, x) /\ Holds(State', o, x) =>
       data'[At(State', o, x)] = data[At(State, o, x)]
  /\ UNCHANGED <<trying, trap, fault, fixing, reply, buffer>>

\* What the three cases share.
Moving(p, inc) ==
  /\ p \in live /\ Core(State) /\ Domains /\ Alone(State, p)
  /\ live' = live /\ dirpage' = dirpage /\ DOMAIN brk' = Pid
  /\ brk'[p] = brk[p] + inc /\ \A o \in live \ {p} : brk'[o] = brk[o]
  /\ BreakStep(brk[p], inc, brk[p] \div Units, (brk[p] + inc) \div Units)

\* Where mem_sbrk does what it should.
LEMMA Moves ==
  ASSUME Core(State), Domains, NEW p \in Pid, NEW inc \in Increments, NEW x, Sbrk(p, inc, x),
         AnyHeap = FALSE, Image \in Nat
  PROVE  Moving(p, inc)
<1>1. /\ p \in live /\ HeapSafe(p, inc) /\ brk[p] + inc >= Image /\ LastTable(brk[p] + inc) < StackTable
      /\ brk' = [brk EXCEPT ![p] = @ + inc] /\ UNCHANGED <<dirpage, live>>
  BY DEF Sbrk, Calls, Runs
<1>2. Break(brk[p]) /\ live \subseteq Pid
  BY <1>1, StateIs DEF Core, Shape
<1>3. inc \in -Units .. Units /\ (brk[p] + inc) % Units # 0 /\ inc \in Int
  BY <1>1, PagesAssumption DEF HeapSafe
<1>4. brk[p] + inc \in Nat
  BY <1>1, <1>2, <1>3 DEF Break
<1>5. BreakStep(brk[p], inc, brk[p] \div Units, (brk[p] + inc) \div Units)
  BY <1>1, <1>2, <1>3, <1>4, BreakSteps
<1>6. Alone(State, p)
  <2>1. ~Sharing(p)
    BY <1>1 DEF HeapSafe
  <2>2. \A o \in live \ {p}, i \in 0 .. LastTable(brk[p]) :
          ~(i \in DOMAIN pd[o] /\ i \in DOMAIN pd[p] /\ pd[o][i] = pd[p][i])
    BY <2>1 DEF Sharing
  <2>3. QED
    BY <2>2, StateIs DEF Alone
<1>7. /\ DOMAIN brk' = Pid /\ brk'[p] = brk[p] + inc /\ \A o \in live \ {p} : brk'[o] = brk[o]
  BY <1>1, <1>2 DEF Domains
<1>8. QED
  BY <1>1, <1>5, <1>6, <1>7 DEF Moving

\* The break stays on its page.
LEMMA SbrkStays ==
  ASSUME NEW p \in Pid, NEW inc, Moving(p, inc), (brk[p] + inc) \div Units = brk[p] \div Units,
         UNCHANGED <<mem, tab, data, pd>>
  PROVE  /\ Core(State') /\ DOMAIN tab' = Page /\ DOMAIN data' = Page /\ DOMAIN pd' = Pid
         /\ \A o \in live, x \in Addr : /\ Holds(State', o, x) <=> Holds(State, o, x)
                                        /\ At(State', o, x) = At(State, o, x)
<1>1. /\ p \in live /\ Core(State) /\ Domains /\ Alone(State, p)
      /\ live' = live /\ dirpage' = dirpage
      /\ brk'[p] = brk[p] + inc /\ \A o \in live \ {p} : brk'[o] = brk[o]
      /\ Break(brk[p] + inc) /\ AddressesOf(brk[p] + inc) = AddressesOf(brk[p])
  BY DEF Moving, BreakStep
<1>2. Rebroken(State, State', p, brk[p] + inc)
  BY <1>1, StateIs, NextStateIs DEF Rebroken
<1>3. AddressesOf(brk[p] + inc) = Area(State, p) /\ State'.mem = State.mem /\ State'.tab = State.tab
      /\ State'.pd[p] = State.pd[p] /\ p \in State.live
  BY <1>1, StateIs, NextStateIs DEF Area
<1>4. Core(State')
  BY <1>1, <1>2, <1>3, BreakMoved
<1>5. \A o \in live, x \in Addr : /\ Holds(State', o, x) <=> Holds(State, o, x)
                                  /\ At(State', o, x) = At(State, o, x)
  BY StateIs, NextStateIs DEF Holds, At, Slot
<1>6. QED
  BY <1>1, <1>4, <1>5 DEF Domains

\* The page at the old break goes.
LEMMA SbrkShrinks ==
  ASSUME BitsFit, NEW p \in Pid, NEW inc, Moving(p, inc), NEW v, v = brk[p] \div Units,
         (brk[p] + inc) \div Units < v, Become(p, UnmapPage(View(p), v))
  PROVE  /\ Core(State') /\ DOMAIN tab' = Page /\ DOMAIN data' = Page /\ DOMAIN pd' = Pid
         /\ \A o \in live, x \in Addr : Holds(State', o, x) <=> Holds(State, o, x) /\ ~(o = p /\ x = v)
         /\ \A o \in live, x \in Addr : Holds(State', o, x) => data'[At(State', o, x)] = data[At(State, o, x)]
<1> DEFINE r == View(p)
           n == UnmapPage(r, v)
           t == Next0(p, n)
           b == brk[p] + inc
<1>1. /\ p \in live /\ Core(State) /\ Domains /\ Alone(State, p)
      /\ live' = live /\ dirpage' = dirpage
      /\ brk'[p] = b /\ \A o \in live \ {p} : brk'[o] = brk[o]
      /\ Break(b) /\ v \in AddressesOf(brk[p]) /\ v \div Pte < StackTable
      /\ AddressesOf(b) = AddressesOf(brk[p]) \ {v}
  BY DEF Moving, BreakStep
<1> HIDE DEF b
<1>2. v \in Area(State, p) /\ AddressesOf(b) = Area(State, p) \ {v} /\ p \in State.live
  BY <1>1, StateIs DEF Area
<1>3. /\ Holds(State, p, v) /\ At(State, p, v) \in InUse(mem) /\ At(State, p, v) \in Page \ Spare
      /\ mem.type[At(State, p, v)] = "user" /\ pd[p][v \div Pte] \in Page
  <2>1. /\ Holds(State, p, v) /\ At(State, p, v) \in InUse(State.mem) /\ At(State, p, v) \in Page \ Spare
        /\ State.mem.type[At(State, p, v)] = "user" /\ State.pd[p][v \div Pte] \in Page
    BY <1>1, <1>2, PlaceIs
  <2>2. QED
    BY <2>1, StateIs
<1>4. /\ ViewOf(r, State, p) /\ Has(r, v) /\ Phys(r, v) = At(State, p, v)
      /\ r.mem = mem /\ r.tab = tab /\ r.data = data /\ r.dir = pd[p] /\ IsView(r)
  <2>1. ViewOf(r, State, p) /\ Has(r, v) /\ Phys(r, v) = At(State, p, v)
    BY <1>1, <1>3, ViewIs
  <2>2. r.mem = mem /\ r.tab = tab /\ r.data = data /\ r.dir = pd[p]
    BY DEF View
  <2>3. QED
    BY <2>1, <2>2 DEF ViewOf
<1> HIDE DEF r
<1>5. Unmapped(r, n, v)
  BY <1>3, <1>4, UnmapIs
<1>6. Become(p, n)
  BY DEF r
<1>7. MemOK(mem) /\ mem.ref[At(State, p, v)] >= 1
  <2> DEFINE Q == At(State, p, v)
  <2>1. MemOK(mem) /\ mem.ref[Q] = Cardinality(Having(State, Q))
    BY <1>1, <1>3, StateIs DEF Core, Shape, Counted
  <2>2. State.live \subseteq Pid
    BY <1>1 DEF Core, Shape
  <2>3. IsFiniteSet(Having(State, Q)) /\ Cardinality(Having(State, Q)) \in Nat
    BY <2>2, FewHave
  <2>4. <<p, v>> \in Having(State, Q)
    <3>1. v \in Addr
      BY <1>1, <1>2, PlaceIs
    <3>2. QED
      BY <1>2, <1>3, <3>1 DEF Having
  <2> DEFINE H == Having(State, Q)
  <2> HIDE DEF H
  <2>5. Cardinality(H) # 0
    BY <2>3, <2>4, FS_EmptySet DEF H
  <2>6. QED
    BY <2>1, <2>3, <2>5 DEF H
<1>8. Lowered(mem, n.mem, [q \in Page |-> IF q = At(State, p, v) THEN 1 ELSE 0])
  <2> DEFINE Q == At(State, p, v)
  <2>1. MemOK(mem) /\ Q \in InUse(mem) /\ mem.ref[Q] >= 1 /\ n.mem = Release(mem, Q)
    BY <1>3, <1>4, <1>5, <1>7 DEF Unmapped
  <2> HIDE DEF Q, n
  <2>2. Lowered(mem, Release(mem, Q), [q \in Page |-> IF q = Q THEN 1 ELSE 0])
    BY <2>1, OneReleased
  <2>3. QED
    BY <2>1, <2>2 DEF Q
<1> HIDE DEF n
<1>9. /\ t.mem = n.mem /\ t.tab = n.tab /\ t.dirpage = dirpage' /\ t.brk = brk' /\ t.live = live'
      /\ t.pd[p] = n.dir /\ \A o : o # p => t.pd[o] = pd[o]
  <2>1. Domains
    BY <1>1
  <2>2. QED
    BY <2>1 DEF Next0, Domains
<1> HIDE DEF t
<1>10. Shrunk(State, t, p, v, b)
  <2>1. Rebroken(State, t, p, b) /\ t.pd[p] = State.pd[p]
    BY <1>1, <1>4, <1>5, <1>9, StateIs DEF Rebroken, Unmapped
  <2>2. /\ \A q \in Page \ {pd[p][v \div Pte]} : t.tab[q] = tab[q]
        /\ t.tab[pd[p][v \div Pte]] = [k \in DOMAIN tab[pd[p][v \div Pte]] \ {v % Pte} |-> tab[pd[p][v \div Pte]][k]]
    BY <1>4, <1>5, <1>9 DEF Unmapped
  <2>3. Lowered(State.mem, t.mem, [q \in Page |-> IF q = At(State, p, v) THEN 1 ELSE 0])
    BY <1>8, <1>9, StateIs
  <2>4. State.pd = pd /\ State.tab = tab
    BY StateIs
  <2> HIDE DEF State
  <2>5. /\ \A q \in Page \ {State.pd[p][v \div Pte]} : t.tab[q] = State.tab[q]
        /\ t.tab[State.pd[p][v \div Pte]]
             = [k \in DOMAIN State.tab[State.pd[p][v \div Pte]] \ {v % Pte} |-> State.tab[State.pd[p][v \div Pte]][k]]
    BY <2>2, <2>4
  <2>6. QED
    BY <1>2, <2>1, <2>3, <2>5, Zenon DEF Shrunk
<1>11. Core(t) /\ ShrinkView(State, t, p, v)
  BY <1>1, <1>2, <1>10, HeapShrunk, ShrunkView
<1>12. /\ Core(State') /\ SameSeen(t, n.data, State', data')
       /\ DOMAIN tab' = Page /\ DOMAIN data' = Page /\ DOMAIN pd' = Pid
  BY <1>1, <1>6, <1>11, Became DEF t
<1>13. n.data = data /\ t.live = live
  BY <1>1, <1>4, <1>5, <1>9 DEF Unmapped
<1>14. /\ \A o \in live, x \in Addr : Holds(t, o, x) <=> Holds(State, o, x) /\ ~(o = p /\ x = v)
       /\ \A o \in live, x \in Addr : Holds(t, o, x) => At(t, o, x) = At(State, o, x)
  BY <1>11, StateIs DEF ShrinkView
<1>15. /\ \A o \in live, x \in Addr : Holds(State', o, x) <=> Holds(t, o, x)
       /\ \A o \in live, x \in Addr : Holds(t, o, x) => data'[At(State', o, x)] = data[At(t, o, x)]
  BY <1>12, <1>13 DEF SameSeen
<1>16. /\ \A o \in live, x \in Addr : Holds(State', o, x) <=> Holds(State, o, x) /\ ~(o = p /\ x = v)
       /\ \A o \in live, x \in Addr : Holds(State', o, x) => data'[At(State', o, x)] = data[At(State, o, x)]
  BY <1>14, <1>15
<1>17. QED
  BY <1>12, <1>16

\* d[k] is what there is after k turns of map_pages.
MapTurns(d, r, v, q, w, l) ==
  d[0] = r /\ \A k \in 1 .. l : d[k] = MapPage(d[k - 1], v + k - 1, q + k - 1, w)

\* What map_pages returns is what there is after the last turn.
LEMMA MapPagesUnfolds ==
  ASSUME NEW r, NEW v, NEW q, NEW w, NEW l \in Nat
  PROVE  \E d : MapPages(r, v, q, l, w) = d[l] /\ MapTurns(d, r, v, q, w, l)
<1> DEFINE Is(d, n) == d = [k \in 0 .. n |-> IF k = 0 THEN r ELSE MapPage(d[k - 1], v + k - 1, q + k - 1, w)]
           T == {n \in Nat : ~ \E d : Is(d, n)}
<1>1. T = {}
  <2> SUFFICES ASSUME T # {} PROVE FALSE
    OBVIOUS
  <2>1. PICK n \in T : \A k \in T : n <= k
    <3>1. T \subseteq Nat
      OBVIOUS
    <3> HIDE DEF T
    <3>2. QED
      BY <3>1, LeastNumber
  <2>2. n # 0
    <3>1. Is([k \in 0 .. 0 |-> r], 0)
      OBVIOUS
    <3>2. QED
      BY <2>1, <3>1
  <2>3. n \in Nat /\ n - 1 \in Nat /\ n - 1 \notin T
    <3>1. n \in Nat
      BY <2>1
    <3> HIDE DEF T
    <3>2. n - 1 \in Nat /\ ~(n <= n - 1)
      BY <2>2, <3>1
    <3>3. QED
      BY <2>1, <3>1, <3>2
  <2>4. PICK d : Is(d, n - 1)
    BY <2>3
  <2> DEFINE e == [k \in 0 .. n |-> IF k = n THEN MapPage(d[n - 1], v + n - 1, q + n - 1, w) ELSE d[k]]
  <2>5. Is(e, n)
    <3> SUFFICES ASSUME NEW k \in 0 .. n
                 PROVE  e[k] = IF k = 0 THEN r ELSE MapPage(e[k - 1], v + k - 1, q + k - 1, w)
      OBVIOUS
    <3>1. CASE k = n
      BY <2>2, <2>3, <3>1
    <3>2. CASE k # n
      <4>1. k \in 0 .. n - 1 /\ e[k] = d[k] /\ (k # 0 => e[k - 1] = d[k - 1])
        BY <2>3, <3>2
      <4>2. d[k] = IF k = 0 THEN r ELSE MapPage(d[k - 1], v + k - 1, q + k - 1, w)
        BY <2>4, <4>1
      <4> HIDE DEF e
      <4>3. QED
        BY <4>1, <4>2
    <3>3. QED
      BY <3>1, <3>2
  <2>6. QED
    BY <2>1, <2>5
<1> DEFINE d == CHOOSE d : Is(d, l)
<1>2. Is(d, l)
  <2> HIDE DEF Is
  <2>1. \E x : Is(x, l)
    BY <1>1
  <2>2. QED
    BY <2>1
<1>3. MapPages(r, v, q, l, w) = d[l]
  BY DEF MapPages
<1>4. MapTurns(d, r, v, q, w, l)
  <2>1. d = [k \in 0 .. l |-> IF k = 0 THEN r ELSE MapPage(d[k - 1], v + k - 1, q + k - 1, w)]
    BY <1>2
  <2> HIDE DEF d
  <2>2. QED
    BY <2>1 DEF MapTurns
<1>5. QED
  BY <1>3, <1>4

\* n is r with an entry e for v in the table N, a new one where there was none.
EntryAdded(r, n, v, e, N) ==
  /\ IsView(n) /\ MemOK(n.mem) /\ n.data = r.data /\ N \in Page
  /\ \/ /\ v \div Pte \in DOMAIN r.dir /\ r.dir[v \div Pte] = N /\ n.dir = r.dir /\ n.mem = r.mem
        /\ Entered(r.tab[N], v % Pte, e, n.tab[N])
     \/ /\ v \div Pte \notin DOMAIN r.dir /\ N \notin InUse(r.mem)
        /\ InUse(n.mem) = InUse(r.mem) \cup {N} /\ n.mem.type[N] = "pgtbl" /\ n.mem.ref[N] = 1
        /\ \A x \in InUse(r.mem) : n.mem.type[x] = r.mem.type[x] /\ n.mem.ref[x] = r.mem.ref[x]
        /\ Entered(r.dir, v \div Pte, N, n.dir)
        /\ Entered(<<>>, v % Pte, e, n.tab[N])
  /\ \A x \in Page \ {N} : n.tab[x] = r.tab[x]

\* What map_pages does for a page.
LEMMA PageMapped ==
  ASSUME BitsFit, NEW r, IsView(r), MemOK(r.mem), NEW v, NEW q, NEW w,
         v \div Pte \in DOMAIN r.dir => r.dir[v \div Pte] \in Page
  PROVE  \/ /\ MapPage(r, v, q, w) = r
            /\ Has(r, v) \/ (v \div Pte \notin DOMAIN r.dir /\ Rest(r.mem) = {})
         \/ /\ ~Has(r, v)
            /\ \E N \in Page : EntryAdded(r, MapPage(r, v, q, w), v, [page |-> q, w |-> w], N)
<1> DEFINE i == v \div Pte
           a == PageAlloc(r.mem, 1, "pgtbl")
           N == a.page
           e == [page |-> q, w |-> w]
           f == [r.tab EXCEPT ![N] = <<>>]
           h == With(r.dir, i, N)
           t == [mem |-> a.mem, tab |-> f, data |-> r.data, dir |-> h]
           n == MapPage(r, v, q, w)
<1>1. CASE i \in DOMAIN r.dir
  <2>1. n = IF Has(r, v) THEN r ELSE SetEntry(r, v, e)
    BY <1>1 DEF MapPage, WithTable
  <2>2. CASE Has(r, v)
    BY <2>1, <2>2
  <2>3. CASE ~Has(r, v)
    <3>1. EntryPut(r, n, v, e) /\ r.dir[i] \in Page
      BY <1>1, <2>1, <2>3, EntrySet
    <3> HIDE DEF n, e
    <3>2. EntryAdded(r, n, v, e, r.dir[i])
      BY <1>1, <3>1 DEF EntryPut, EntryAdded
    <3>3. QED
      BY <2>3, <3>1, <3>2 DEF n, e
  <2>4. QED
    BY <2>2, <2>3
<1>2. CASE i \notin DOMAIN r.dir /\ a.page = Nowhere
  <2>1. n = r
    BY <1>2 DEF MapPage, WithTable
  <2>2. Rest(r.mem) = {}
    <3> SUFFICES ASSUME Rest(r.mem) # {} PROVE FALSE
      OBVIOUS
    <3>1. a.page \in Page
      BY PageGiven DEF Got
    <3>2. QED
      BY <1>2, <3>1 DEF Page, Nowhere
  <2>3. QED
    BY <1>2, <2>1, <2>2
<1>3. CASE i \notin DOMAIN r.dir /\ a.page # Nowhere
  <2>1. Got(r.mem, a, "pgtbl")
    <3>1. Rest(r.mem) # {}
      <4> SUFFICES ASSUME Rest(r.mem) = {} PROVE FALSE
        OBVIOUS
      <4> DEFINE U == InUse(r.mem)
                 m == r.mem
      <4>1. Sound(m, U) /\ Rest(m) = Page \ U
        BY RestIsNotInUse DEF MemOK
      <4>2. a = Allocate(m, 0, "pgtbl") /\ 0 \in Nat /\ "pgtbl" \in PageType
        BY OnePage DEF PageAlloc, PageType
      <4> HIDE DEF U, a, m
      <4>3. Allocated(m, U, "pgtbl", 0, a)
        BY <1>3, <4>1, <4>2, AllocateGives
      <4>4. a.page \in Page /\ a.page \notin U
        BY <4>3, OnePage DEF Allocated, Block
      <4>5. QED
        BY <4>1, <4>4 DEF m
    <3>2. QED
      BY <3>1, PageGiven
  <2>2. /\ N \in Page /\ N \notin InUse(r.mem) /\ MemOK(a.mem) /\ InUse(a.mem) = InUse(r.mem) \cup {N}
        /\ a.mem.type[N] = "pgtbl" /\ a.mem.ref[N] = 1
        /\ \A x \in InUse(r.mem) : a.mem.type[x] = r.mem.type[x] /\ a.mem.ref[x] = r.mem.ref[x]
    BY <2>1 DEF Got
  <2>3. WithTable(r, v) = t
    BY <1>3 DEF WithTable
  <2>4. DOMAIN r.tab = Page /\ DOMAIN r.data = Page
    BY DEF IsView
  <2>5. Entered(r.dir, i, N, h)
    BY Put
  <2>6. f[N] = <<>> /\ (\A x \in Page \ {N} : f[x] = r.tab[x]) /\ DOMAIN f = Page
    BY <2>2, <2>4
  <2>7. n = IF i \notin DOMAIN t.dir \/ Has(t, v) THEN t ELSE SetEntry(t, v, e)
    BY <2>3 DEF MapPage
  <2> HIDE DEF f, h, a, n, e
  <2>8. t.mem = a.mem /\ t.tab = f /\ t.data = r.data /\ t.dir = h /\ IsView(t)
    BY <2>4, <2>6 DEF IsView
  <2> HIDE DEF t
  <2>9. i \in DOMAIN t.dir /\ t.dir[i] = N
    BY <2>5, <2>8 DEF Entered
  <2>10. ~Has(t, v)
    BY <2>6, <2>8, <2>9 DEF Has
  <2>11. EntryPut(t, n, v, e)
    BY <2>2, <2>7, <2>8, <2>9, <2>10, EntrySet
  <2>12. EntryAdded(r, n, v, e, N)
    BY <1>3, <2>2, <2>5, <2>6, <2>8, <2>9, <2>11 DEF EntryPut, EntryAdded
  <2>13. ~Has(r, v)
    BY <1>3 DEF Has
  <2>14. QED
    BY <2>2, <2>12, <2>13 DEF n, e
<1>4. QED
  BY <1>1, <1>2, <1>3

\* The break moves up to v; there is a page a for v, with the contents x.
NewPage(p, inc, v, x) ==
  /\ v = (brk[p] + inc) \div Units /\ v > brk[p] \div Units /\ Left(2)
  /\ \E a :
         /\ a = PageAlloc(mem, 1, "user")
         /\ Become(p, MapPages([mem |-> a.mem, tab |-> tab, data |-> [data EXCEPT ![a.page] = x], dir |-> pd[p]],
                               v, a.page, 1, TRUE))

\* A page for the new break comes.
LEMMA SbrkGrows ==
  ASSUME BitsFit, NEW p \in Pid, NEW inc, Moving(p, inc), NEW v, NEW x, NewPage(p, inc, v, x)
  PROVE  /\ Core(State') /\ DOMAIN tab' = Page /\ DOMAIN data' = Page /\ DOMAIN pd' = Pid
         /\ \A o \in live, y \in Addr : Holds(State', o, y) <=> Holds(State, o, y) \/ (o = p /\ y = v)
         /\ \A o \in live, y \in Addr : Holds(State, o, y) => data'[At(State', o, y)] = data[At(State, o, y)]
<1>1. PICK a : /\ a = PageAlloc(mem, 1, "user")
               /\ Become(p, MapPages([mem |-> a.mem, tab |-> tab, data |-> [data EXCEPT ![a.page] = x], dir |-> pd[p]],
                                     v, a.page, 1, TRUE))
  BY DEF NewPage
<1> DEFINE A == a.page
           d == [data EXCEPT ![A] = x]
           r == [mem |-> a.mem, tab |-> tab, data |-> d, dir |-> pd[p]]
           n == MapPages(r, v, A, 1, TRUE)
           t == Next0(p, n)
           b == brk[p] + inc
           i == v \div Pte
           e == [page |-> A, w |-> TRUE]
<1>2. v = (brk[p] + inc) \div Units /\ v > brk[p] \div Units /\ Left(2)
  BY DEF NewPage
<1>3. /\ p \in live /\ Core(State) /\ Domains /\ Alone(State, p)
      /\ live' = live /\ dirpage' = dirpage
      /\ brk'[p] = b /\ \A o \in live \ {p} : brk'[o] = brk[o]
      /\ Break(b) /\ v \in Nat
      /\ v \in Addr /\ v \notin AddressesOf(brk[p]) /\ v \div Pte < StackTable
      /\ AddressesOf(b) = AddressesOf(brk[p]) \cup {v}
  BY <1>2 DEF Moving, BreakStep
<1>4. Become(p, n) /\ a = PageAlloc(mem, 1, "user")
  BY <1>1
<1> HIDE DEF b
<1>5. /\ v \notin Area(State, p) /\ AddressesOf(b) = Area(State, p) \cup {v} /\ p \in State.live
      /\ MemOK(mem) /\ InUse(mem) \subseteq Page
      /\ ~Holds(State, p, v) /\ IsDir(pd[p])
  <2>1. v \notin Area(State, p) /\ AddressesOf(b) = Area(State, p) \cup {v} /\ p \in State.live
    BY <1>3, StateIs DEF Area
  <2>2. MemOK(mem) /\ InUse(mem) \subseteq Page /\ IsDir(pd[p])
    BY <1>3, <2>1, StateIs, RestIsNotInUse DEF Core, Shape
  <2>3. ~Holds(State, p, v)
    BY <1>3, <2>1 DEF Core, Mapped
  <2>4. QED
    BY <2>1, <2>2, <2>3
<1>6. Got(mem, a, "user") /\ Rest(a.mem) # {}
  <2>1. 1 \in Nat /\ Cardinality(Rest(mem)) >= 1 + 1 /\ "user" \in {"user", "pgtbl", "pool"}
    BY <1>2 DEF Left, Rest
  <2>2. Got(mem, a, "user") /\ Cardinality(Rest(a.mem)) >= 1
    BY <1>4, <1>5, <2>1, PageGot
  <2> DEFINE R == Rest(a.mem)
  <2> HIDE DEF R
  <2>3. R # {}
    BY <2>2, FS_EmptySet DEF R
  <2>4. QED
    BY <2>2, <2>3 DEF R
<1>7. /\ A \in Page /\ A \notin InUse(mem) /\ MemOK(a.mem) /\ InUse(a.mem) = InUse(mem) \cup {A}
      /\ a.mem.type[A] = "user" /\ a.mem.ref[A] = 1
      /\ \A q \in InUse(mem) : a.mem.type[q] = mem.type[q] /\ a.mem.ref[q] = mem.ref[q]
  BY <1>6 DEF Got
<1>8. n = MapPage(r, v, A, TRUE)
  <2> HIDE DEF r
  <2>1. PICK f : n = f[1] /\ MapTurns(f, r, v, A, TRUE, 1)
    <3>1. 1 \in Nat
      OBVIOUS
    <3> HIDE DEF A
    <3>2. QED
      BY <3>1, MapPagesUnfolds
  <2>2. f[0] = r /\ f[1] = MapPage(f[1 - 1], v + 1 - 1, A + 1 - 1, TRUE)
    <3>1. 1 \in 1 .. 1
      OBVIOUS
    <3> HIDE DEF n
    <3>2. QED
      BY <2>1, <3>1 DEF MapTurns
  <2>3. 1 - 1 = 0 /\ v + 1 - 1 = v /\ A + 1 - 1 = A
    BY <1>3, <1>7 DEF Page
  <2> HIDE DEF n, A
  <2>4. QED
    BY <2>1, <2>2, <2>3
<1>9. r.mem = a.mem /\ r.tab = tab /\ r.data = d /\ r.dir = pd[p] /\ IsView(r)
  <2>1. DOMAIN tab = Page /\ DOMAIN d = Page
    BY <1>3 DEF Domains
  <2> HIDE DEF d
  <2>2. QED
    BY <2>1 DEF IsView
<1>10. d[A] = x /\ \A q \in Page \ {A} : d[q] = data[q]
  BY <1>3, <1>7 DEF Domains
<1> HIDE DEF d, A, n, r, e, i
<1>11. ~Has(r, v) /\ (i \in DOMAIN pd[p] => pd[p][i] \in Page)
  <2>1. ~Has(r, v)
    BY <1>5, <1>9, StateIs DEF Has, Holds
  <2>2. QED
    BY <1>5, <2>1 DEF IsDir
<1>12. PICK N \in Page : EntryAdded(r, n, v, e, N)
  <2>1. v \div Pte \in DOMAIN r.dir => r.dir[v \div Pte] \in Page
    BY <1>9, <1>11 DEF i
  <2>2. Rest(r.mem) # {} /\ MemOK(r.mem)
    BY <1>6, <1>7, <1>9
  <2>3. \/ MapPage(r, v, A, TRUE) = r /\ (Has(r, v) \/ (v \div Pte \notin DOMAIN r.dir /\ Rest(r.mem) = {}))
        \/ ~Has(r, v) /\ \E N \in Page : EntryAdded(r, MapPage(r, v, A, TRUE), v, [page |-> A, w |-> TRUE], N)
    BY <1>9, <2>1, <2>2, PageMapped
  <2>4. QED
    BY <1>8, <1>11, <2>2, <2>3 DEF e
<1>13. /\ IsView(n) /\ MemOK(n.mem) /\ n.data = d
       /\ \/ /\ i \in DOMAIN pd[p] /\ pd[p][i] = N /\ n.dir = pd[p] /\ n.mem = a.mem
             /\ Entered(tab[N], v % Pte, e, n.tab[N])
          \/ /\ i \notin DOMAIN pd[p] /\ N \notin InUse(a.mem)
             /\ InUse(n.mem) = InUse(a.mem) \cup {N} /\ n.mem.type[N] = "pgtbl" /\ n.mem.ref[N] = 1
             /\ \A q \in InUse(a.mem) : n.mem.type[q] = a.mem.type[q] /\ n.mem.ref[q] = a.mem.ref[q]
             /\ Entered(pd[p], i, N, n.dir)
             /\ Entered(<<>>, v % Pte, e, n.tab[N])
       /\ \A q \in Page \ {N} : n.tab[q] = tab[q]
  BY <1>9, <1>12 DEF EntryAdded, i
<1>14. /\ t.mem = n.mem /\ t.tab = n.tab /\ t.dirpage = dirpage' /\ t.brk = brk' /\ t.live = live'
       /\ t.pd[p] = n.dir /\ \A o : o # p => t.pd[o] = pd[o]
  BY <1>3 DEF Next0, Domains
<1> HIDE DEF t
<1>15. i \in DOMAIN pd[p] => pd[p][i] \in InUse(mem)
  <2> SUFFICES ASSUME i \in DOMAIN pd[p] PROVE pd[p][i] \in InUse(mem)
    OBVIOUS
  <2>1. pd[p][i] \in Page /\ mem.type[pd[p][i]] = "pgtbl"
    BY <1>3, <1>11, StateIs DEF Core, TablesUsed
  <2>2. QED
    BY <2>1 DEF InUse
<1>16. Rebroken(State, t, p, b)
  BY <1>3, <1>14, StateIs DEF Rebroken
<1>17. /\ N # A /\ MemOK(t.mem) /\ t.mem.type[A] = "user" /\ t.mem.ref[A] = 1
       /\ InUse(t.mem) = InUse(mem) \cup {A, N}
       /\ \A q \in InUse(mem) : t.mem.type[q] = mem.type[q] /\ t.mem.ref[q] = mem.ref[q]
  <2>1. CASE i \in DOMAIN pd[p]
    BY <1>7, <1>13, <1>14, <1>15, <2>1
  <2>2. CASE i \notin DOMAIN pd[p]
    BY <1>7, <1>13, <1>14, <2>2
  <2>3. QED
    BY <2>1, <2>2
<1>18. \/ /\ i \in DOMAIN pd[p] /\ pd[p][i] = N /\ t.pd[p] = pd[p]
          /\ Entered(tab[N], v % Pte, e, t.tab[N])
       \/ /\ i \notin DOMAIN pd[p] /\ N \notin InUse(mem)
          /\ t.mem.type[N] = "pgtbl" /\ t.mem.ref[N] = 1
          /\ DOMAIN t.pd[p] = DOMAIN pd[p] \cup {i} /\ t.pd[p][i] = N
          /\ \A j \in DOMAIN pd[p] : t.pd[p][j] = pd[p][j]
          /\ DOMAIN t.tab[N] = {v % Pte} /\ t.tab[N][v % Pte] = e
  <2>1. CASE i \in DOMAIN pd[p]
    BY <1>13, <1>14, <2>1
  <2>2. CASE i \notin DOMAIN pd[p]
    BY <1>7, <1>13, <1>14, <2>2 DEF Entered
  <2>3. QED
    BY <2>1, <2>2
<1>19. Grown(State, t, p, v, b, A, N)
  <2>1. State.mem = mem /\ State.tab = tab /\ State.pd = pd
    BY StateIs
  <2>2. \A q \in Page \ {N} : t.tab[q] = tab[q]
    BY <1>13, <1>14
  <2> HIDE DEF State
  <2>3. QED
    BY <1>3, <1>5, <1>7, <1>16, <1>17, <1>18, <2>1, <2>2 DEF Grown, i, e
<1>20. Core(t) /\ GrowView(State, t, p, v, A)
  BY <1>3, <1>5, <1>19, HeapGrown, GrownView
<1>21. /\ Core(State') /\ SameSeen(t, n.data, State', data')
       /\ DOMAIN tab' = Page /\ DOMAIN data' = Page /\ DOMAIN pd' = Pid
  BY <1>3, <1>4, <1>20, Became DEF t
<1>22. /\ \A o \in live, y \in Addr : Holds(t, o, y) <=> Holds(State, o, y) \/ (o = p /\ y = v)
       /\ \A o \in live, y \in Addr : Holds(State, o, y) => At(t, o, y) = At(State, o, y)
  <2>1. /\ \A o \in live, y \in Addr : Holds(t, o, y) <=> Holds(State, o, y) \/ (o = p /\ y = v)
        /\ \A o \in live, y \in Addr : Holds(t, o, y) =>
             Slot(t, o, y) = IF o = p /\ y = v THEN [page |-> A, w |-> TRUE] ELSE Slot(State, o, y)
    BY <1>20, StateIs DEF GrowView
  <2>2. QED
    BY <1>5, <2>1 DEF At
<1>23. /\ \A o \in live, y \in Addr : Holds(State', o, y) <=> Holds(t, o, y)
       /\ \A o \in live, y \in Addr : Holds(t, o, y) => data'[At(State', o, y)] = d[At(t, o, y)]
  <2>1. t.live = live /\ n.data = d
    BY <1>3, <1>13, <1>14
  <2>2. QED
    BY <1>21, <2>1 DEF SameSeen
<1>24. ASSUME NEW o \in live, NEW y \in Addr, Holds(State, o, y)
       PROVE  data'[At(State', o, y)] = data[At(State, o, y)]
  <2>1. data'[At(State', o, y)] = d[At(State, o, y)]
    BY <1>22, <1>23, <1>24
  <2>2. At(State, o, y) \in InUse(mem) /\ At(State, o, y) \in Page
    <3>1. o \in State.live /\ y \in Area(State, o)
      BY <1>3, <1>24, StateIs DEF Core, Mapped
    <3>2. QED
      BY <1>3, <3>1, PlaceIs, StateIs
  <2>3. QED
    BY <1>7, <1>10, <2>1, <2>2
<1>25. \A o \in live, y \in Addr : Holds(State', o, y) <=> Holds(State, o, y) \/ (o = p /\ y = v)
  BY <1>22, <1>23
<1>26. QED
  BY <1>21, <1>24, <1>25

\* mem_sbrk.
LEMMA SbrkKeeps ==
  ASSUME BitsFit, Core(State), Domains, NEW p \in Pid, NEW inc \in Increments, NEW x, Sbrk(p, inc, x),
         AnyHeap = FALSE, Image \in Nat
  PROVE  Core(State') /\ Domains' /\ SbrkDone(p)
<1> DEFINE old == brk[p] \div Units
           new == (brk[p] + inc) \div Units
           a   == PageAlloc(mem, 1, "user")
<1>1. Moving(p, inc)
  BY Moves
<1>2. /\ p \in live /\ live' = live /\ fault = 0 /\ fixing = 0 /\ reply = <<>>
      /\ (\A o \in live \ {p} : brk'[o] = brk[o]) /\ DOMAIN brk' = Pid /\ old \in Nat /\ new \in Nat
  <2>1. p \in live /\ live' = live /\ (\A o \in live \ {p} : brk'[o] = brk[o]) /\ DOMAIN brk' = Pid
        /\ old \in Nat /\ new \in Nat
    BY <1>1 DEF Moving, BreakStep
  <2>2. fault = 0 /\ fixing = 0 /\ reply = <<>>
    BY DEF Sbrk, Calls, Idle
  <2>3. QED
    BY <2>1, <2>2
<1>3. UNCHANGED <<dirpage, live, trying, trap, fault, fixing, reply, buffer>>
  BY DEF Sbrk
<1>4. \/ new = old /\ UNCHANGED <<mem, tab, data, pd>>
      \/ new < old /\ Become(p, UnmapPage(View(p), old))
      \/ /\ new > old /\ Left(2)
         /\ Become(p, MapPages([mem |-> a.mem, tab |-> tab, data |-> [data EXCEPT ![a.page] = x], dir |-> pd[p]],
                               new, a.page, 1, TRUE))
  BY DEF Sbrk
<1> DEFINE Good ==
             /\ Core(State') /\ DOMAIN tab' = Page /\ DOMAIN data' = Page /\ DOMAIN pd' = Pid
             /\ \A o \in live \ {p}, y \in Addr : Holds(State', o, y) <=> Holds(State, o, y)
             /\ \A o \in live, y \in Addr : Holds(State, o, y) /\ Holds(State', o, y) =>
                  data'[At(State', o, y)] = data[At(State, o, y)]
<1>5. Good
  <2>1. CASE new = old /\ UNCHANGED <<mem, tab, data, pd>>
    <3>1. /\ Core(State') /\ DOMAIN tab' = Page /\ DOMAIN data' = Page /\ DOMAIN pd' = Pid
          /\ \A o \in live, y \in Addr : /\ Holds(State', o, y) <=> Holds(State, o, y)
                                         /\ At(State', o, y) = At(State, o, y)
      BY <1>1, <2>1, SbrkStays
    <3>2. QED
      BY <2>1, <3>1
  <2>2. CASE new < old /\ Become(p, UnmapPage(View(p), old))
    <3> DEFINE v == old
    <3>1. v = brk[p] \div Units /\ (brk[p] + inc) \div Units < v /\ Become(p, UnmapPage(View(p), v))
      BY <2>2
    <3> HIDE DEF v
    <3>2. /\ Core(State') /\ DOMAIN tab' = Page /\ DOMAIN data' = Page /\ DOMAIN pd' = Pid
          /\ \A o \in live, y \in Addr : Holds(State', o, y) <=> Holds(State, o, y) /\ ~(o = p /\ y = v)
          /\ \A o \in live, y \in Addr : Holds(State', o, y) => data'[At(State', o, y)] = data[At(State, o, y)]
      BY <1>1, <3>1, SbrkShrinks
    <3>3. QED
      BY <3>2
  <2>3. CASE /\ new > old /\ Left(2)
             /\ Become(p, MapPages([mem |-> a.mem, tab |-> tab, data |-> [data EXCEPT ![a.page] = x], dir |-> pd[p]],
                                   new, a.page, 1, TRUE))
    <3> DEFINE v == new
    <3>1. NewPage(p, inc, v, x)
      BY <2>3 DEF NewPage
    <3> HIDE DEF v, a
    <3>2. /\ Core(State') /\ DOMAIN tab' = Page /\ DOMAIN data' = Page /\ DOMAIN pd' = Pid
          /\ \A o \in live, y \in Addr : Holds(State', o, y) <=> Holds(State, o, y) \/ (o = p /\ y = v)
          /\ \A o \in live, y \in Addr : Holds(State, o, y) => data'[At(State', o, y)] = data[At(State, o, y)]
      BY <1>1, <3>1, SbrkGrows
    <3>3. QED
      BY <3>2
  <2>4. QED
    BY <1>4, <2>1, <2>2, <2>3
<1>6. Domains'
  BY <1>2, <1>3, <1>5 DEF Domains
<1>7. SbrkDone(p)
  BY <1>2, <1>3, <1>5 DEF SbrkDone
<1>8. QED
  BY <1>5, <1>6, <1>7

-----------------------------------------------------------------------------
(* Faults *)

\* Nobody notices.
Unseen == Core(State') /\ Domains' /\ SameSeen(State, data, State', data') /\ \A o \in live : brk'[o] = brk[o]

\* Nothing happens to the address spaces.
LEMMA Untouched ==
  ASSUME Core(State), Domains, UNCHANGED <<mem, tab, pd, dirpage, brk, live>>,
         DOMAIN data' = Page, DOMAIN trap' = Pid
  PROVE  /\ Core(State') /\ Domains'
         /\ \A o \in live, x \in Addr : (Holds(State', o, x) <=> Holds(State, o, x)) /\ At(State', o, x) = At(State, o, x)
<1>1. State' = State
  BY DEF State
<1>2. Core(State')
  BY <1>1
<1>3. \A o \in live, x \in Addr : (Holds(State', o, x) <=> Holds(State, o, x)) /\ At(State', o, x) = At(State, o, x)
  BY <1>1
<1>4. Domains'
  BY DEF Domains
<1>5. QED
  BY <1>2, <1>3, <1>4

\* A page with one reference.
LEMMA FixAlone ==
  ASSUME BitsFit, Core(State), Domains, NEW p \in live, NEW v \in Pages(p), mem.ref[Phys(View(p), v)] = 1,
         Become(p, SetEntry(View(p), v, [page |-> Phys(View(p), v), w |-> TRUE])),
         UNCHANGED <<dirpage, brk, live, trap>>
  PROVE  Unseen
<1> DEFINE r == View(p)
           Q == At(State, p, v)
           T == pd[p][v \div Pte]
           k == v % Pte
           e == [page |-> Q, w |-> TRUE]
           n == SetEntry(r, v, e)
           t == Next0(p, n)
<1>1. p \in Pid /\ v \in Area(State, p) /\ p \in State.live /\ mem.ref[Q] = 1
  BY StateIs, ViewIs DEF Core, Shape
<1>2. /\ v \in Addr /\ Holds(State, p, v) /\ v \div Pte \in DOMAIN pd[p] /\ k \in DOMAIN tab[T] /\ T \in Page
      /\ Slot(State, p, v) \in [page : Page, w : BOOLEAN]
  <2>1. v \in Addr /\ Holds(State, p, v)
    BY <1>1, PlaceIs
  <2>2. Slot(State, p, v) \in [page : Page, w : BOOLEAN] /\ State.pd[p][v \div Pte] \in Page
    BY <1>1, <2>1, SlotIs DEF Core
  <2>3. QED
    BY <2>1, <2>2, StateIs DEF Holds
<1>3. [page |-> Phys(View(p), v), w |-> TRUE] = e
  BY ViewIs
<1>4. Become(p, n)
  BY <1>3
<1>5. ViewOf(r, State, p) /\ r.mem = mem /\ r.tab = tab /\ r.data = data /\ r.dir = pd[p] /\ IsView(r)
  <2>1. ViewOf(r, State, p)
    BY ViewIs
  <2>2. r.mem = mem /\ r.tab = tab /\ r.data = data /\ r.dir = pd[p]
    BY DEF View
  <2>3. QED
    BY <2>1, <2>2 DEF ViewOf
<1> HIDE DEF r
<1>6. EntryPut(r, n, v, e)
  BY <1>2, <1>5, EntrySet
<1> HIDE DEF n, e
<1>7. /\ n.mem = mem /\ n.data = data /\ n.dir = pd[p]
      /\ \A q \in Page \ {T} : n.tab[q] = tab[q]
      /\ Entered(tab[T], k, e, n.tab[T])
  BY <1>5, <1>6 DEF EntryPut
<1>8. /\ t.mem = mem /\ t.tab = n.tab /\ t.dirpage = dirpage /\ t.brk = brk /\ t.live = live
      /\ t.pd[p] = pd[p] /\ \A o : o # p => t.pd[o] = pd[o]
  BY <1>1, <1>7 DEF Next0, Domains
<1> HIDE DEF t
<1>9. SameView(State, t)
  BY <1>8, StateIs DEF SameView
<1>10. Core(t)
  <2>1. \A q \in Page : q # State.pd[p][v \div Pte] => t.tab[q] = State.tab[q]
    BY <1>7, <1>8, StateIs
  <2>2. Entered(State.tab[State.pd[p][v \div Pte]], v % Pte, [page |-> At(State, p, v), w |-> TRUE],
                t.tab[State.pd[p][v \div Pte]])
    BY <1>7, <1>8, StateIs DEF e
  <2>3. State.mem.ref[At(State, p, v)] = 1
    BY <1>1, StateIs
  <2>4. QED
    BY <1>1, <1>9, <2>1, <2>2, <2>3, MadeWritable
<1>11. /\ Core(State') /\ SameSeen(t, data, State', data')
       /\ DOMAIN tab' = Page /\ DOMAIN data' = Page /\ DOMAIN pd' = Pid
  BY <1>1, <1>4, <1>7, <1>10, Became DEF t
<1>12. ASSUME NEW o \in live, NEW x \in Addr
       PROVE  (Holds(t, o, x) <=> Holds(State, o, x)) /\ (Holds(State, o, x) => At(t, o, x) = At(State, o, x))
  <2> DEFINE j == x \div Pte
             l == x % Pte
             S == pd[o][j]
  <2>1. (Holds(State, o, x) <=> j \in DOMAIN pd[o] /\ l \in DOMAIN tab[S]) /\ At(State, o, x) = tab[S][l].page
    BY StateIs DEF Holds, At, Slot
  <2>2. (Holds(t, o, x) <=> j \in DOMAIN pd[o] /\ l \in DOMAIN n.tab[S]) /\ At(t, o, x) = n.tab[S][l].page
    BY <1>8 DEF Holds, At, Slot
  <2>3. j \in DOMAIN pd[o] => S \in Page
    BY StateIs DEF Core, Shape, IsDir
  <2>4. e.page = Q /\ Q = tab[T][k].page
    BY StateIs DEF e, At, Slot
  <2> HIDE DEF j, l, S, T, k
  <2>5. CASE j \in DOMAIN pd[o] /\ S = T
    <3>1. DOMAIN n.tab[T] = DOMAIN tab[T] /\ \A y \in DOMAIN tab[T] : n.tab[T][y].page = tab[T][y].page
      BY <1>2, <1>7, <2>4 DEF Entered
    <3>2. QED
      BY <2>1, <2>2, <2>5, <3>1
  <2>6. CASE j \in DOMAIN pd[o] /\ S # T
    BY <1>7, <2>1, <2>2, <2>3, <2>6
  <2>7. CASE j \notin DOMAIN pd[o]
    BY <2>1, <2>2, <2>7
  <2>8. QED
    BY <2>5, <2>6, <2>7
<1>13. SameSeen(State, data, State', data')
  BY <1>8, <1>11, <1>12, StateIs DEF SameSeen
<1>14. Domains'
  BY <1>11 DEF Domains
<1>15. QED
  BY <1>11, <1>13, <1>14 DEF Unseen

\* A page with more of them.
LEMMA FixShared ==
  ASSUME BitsFit, Core(State), Domains, NEW p \in live, NEW v \in Pages(p), Left(2),
         Become(p, CopyOnWrite(View(p), v)), UNCHANGED <<dirpage, brk, live, trap>>
  PROVE  Unseen
<1> DEFINE r == View(p)
           n == CopyOnWrite(r, v)
           t == Next0(p, n)
<1>1. p \in Pid /\ v \in Area(State, p) /\ p \in State.live
  BY StateIs, ViewIs DEF Core, Shape
<1>2. ViewOf(r, State, p)
  BY ViewIs
<1>3. Become(p, n) /\ r.data = data
  BY DEF View
<1>4. Cardinality(Rest(State.mem)) >= 2
  BY StateIs DEF Left, Rest
<1>5. Replaced(State, t, p, n)
  <2>1. /\ t.mem = n.mem /\ t.tab = n.tab /\ t.dirpage = dirpage /\ t.brk = brk /\ t.live = live
        /\ t.pd[p] = n.dir /\ \A o : o # p => t.pd[o] = pd[o]
    BY <1>1 DEF Next0, Domains
  <2> HIDE DEF n, t
  <2>2. QED
    BY <2>1, StateIs DEF Replaced
<1> HIDE DEF r
<1>6. Copied(State, t, p, v, r, n)
  <2>1. n = CopyOnWrite(r, v)
    OBVIOUS
  <2> HIDE DEF n, t
  <2>2. QED
    BY <1>1, <1>2, <1>4, <1>5, <2>1, CopyOnWriteIs
<1> HIDE DEF n
<1>7. Core(t) /\ SameSeen(State, data, t, n.data)
  BY <1>1, <1>3, <1>6, CopiedSeen
<1>8. /\ Core(State') /\ SameSeen(t, n.data, State', data')
      /\ DOMAIN tab' = Page /\ DOMAIN data' = Page /\ DOMAIN pd' = Pid
  BY <1>1, <1>3, <1>7, Became DEF t
<1> HIDE DEF t
<1>9. SameSeen(State, data, State', data')
  <2>1. t.live = State.live
    BY <1>7 DEF SameSeen
  <2>2. QED
    BY <1>7, <1>8, <2>1 DEF SameSeen
<1>10. Domains'
  BY <1>8 DEF Domains
<1>11. QED
  BY <1>8, <1>9, <1>10 DEF Unseen

\* do_page_fault.
LEMMA FixKeeps ==
  ASSUME BitsFit, Core(State), Domains, FixFault, fixing # 0 => fixing \in live /\ trap[fixing] \in Pages(fixing)
  PROVE  Unseen
<1> DEFINE p == fixing
           v == trap[fixing]
<1>1. p \in live /\ v \in Pages(p) /\ UNCHANGED <<dirpage, brk, live, trap>>
  BY DEF FixFault
<1>2. \/ /\ mem.ref[Phys(View(p), v)] = 1
         /\ Become(p, SetEntry(View(p), v, [page |-> Phys(View(p), v), w |-> TRUE]))
      \/ Left(2) /\ Become(p, CopyOnWrite(View(p), v))
      \/ UNCHANGED <<mem, tab, data, pd>>
  BY DEF FixFault
<1> HIDE DEF p, v
<1>3. CASE /\ mem.ref[Phys(View(p), v)] = 1
           /\ Become(p, SetEntry(View(p), v, [page |-> Phys(View(p), v), w |-> TRUE]))
  BY <1>1, <1>3, FixAlone
<1>4. CASE Left(2) /\ Become(p, CopyOnWrite(View(p), v))
  BY <1>1, <1>4, FixShared
<1>5. CASE UNCHANGED <<mem, tab, data, pd>>
  <2>1. /\ Core(State') /\ Domains'
        /\ \A o \in live, x \in Addr : (Holds(State', o, x) <=> Holds(State, o, x)) /\ At(State', o, x) = At(State, o, x)
    BY <1>1, <1>5, Untouched DEF Domains
  <2>2. SameSeen(State, data, State', data')
    BY <1>1, <1>5, <2>1, StateIs, NextStateIs DEF SameSeen
  <2>3. QED
    BY <1>1, <2>1, <2>2 DEF Unseen
<1>6. QED
  BY <1>2, <1>3, <1>4, <1>5

-----------------------------------------------------------------------------
(* The invariant *)

\* A fault that TaskMM knows of, or handles, is one of a process at a page of its own.
FaultsKnown == \A p \in {fault, fixing} \ {0} : p \in live /\ trap[p] \in Pages(p)

\* Who waits for the answer to a fork has the pages of the buffer to itself.
Answers ==
  /\ reply \in Seq(live) /\ (reply # <<>> => fixing = 0)
  /\ \A k \in DOMAIN reply : BufferOwn(State, reply[k], buffer)

PInv == Core(State) /\ Domains /\ FaultsKnown /\ Answers

\* A step that leaves the address spaces alone.
LEMMA AnswersStay ==
  ASSUME PInv, UNCHANGED <<mem, tab, pd, dirpage, brk, live, buffer>>, DOMAIN data' = Page, DOMAIN trap' = Pid,
         fixing' \in {fixing, 0} \/ reply' = <<>>,
         reply' = reply \/ (reply # <<>> /\ reply' = Tail(reply)), FaultsKnown'
  PROVE  PInv'
<1>1. Core(State') /\ Domains' /\ State' = State /\ live' = live /\ buffer' = buffer
  <2>1. Core(State') /\ Domains'
    BY Untouched DEF PInv
  <2>2. State' = State
    BY DEF State
  <2>3. QED
    BY <2>1, <2>2
<1>2. reply \in Seq(live) /\ (\A k \in DOMAIN reply : BufferOwn(State, reply[k], buffer)) /\ (reply # <<>> => fixing = 0)
  BY DEF PInv, Answers
<1>3. reply' \in Seq(live) /\ (reply' # <<>> => reply # <<>>) /\ \A k \in DOMAIN reply' : BufferOwn(State, reply'[k], buffer)
  <2>1. CASE reply' = reply
    BY <1>2, <2>1
  <2>2. CASE reply # <<>> /\ reply' = Tail(reply)
    <3>1. reply' \in Seq(live) /\ \A k \in DOMAIN reply' : k + 1 \in DOMAIN reply /\ reply'[k] = reply[k + 1]
      BY <1>2, <2>2
    <3>2. QED
      BY <1>2, <2>2, <3>1
  <2>3. QED
    BY <2>1, <2>2
<1>4. reply' # <<>> => fixing' = 0
  BY <1>2, <1>3
<1>5. Answers'
  <2>1. \A k \in DOMAIN reply' : BufferOwn(State', reply'[k], buffer')
    BY <1>1, <1>3
  <2>2. reply' \in Seq(live')
    BY <1>1, <1>3
  <2>3. QED
    BY <1>4, <2>1, <2>2 DEF Answers
<1>6. QED
  BY <1>1, <1>5 DEF PInv

\* A write of a program.
LEMMA WriteKeeps ==
  ASSUME PInv, NEW p \in Pid, NEW v, NEW x, Write(p, v, x)
  PROVE  PInv'
<1>1. /\ p \in live /\ v \in Pages(p)
      /\ UNCHANGED <<mem, tab, pd, dirpage, brk, live, fixing, reply, buffer>>
      /\ \/ /\ data' = [data EXCEPT ![Phys(View(p), v)] = x] /\ UNCHANGED <<trap, fault>>
         \/ /\ trap' = [trap EXCEPT ![p] = v] /\ fault' = p /\ UNCHANGED data
  BY DEF Write, Runs
<1>2. DOMAIN data' = Page /\ DOMAIN trap' = Pid
  BY <1>1 DEF PInv, Domains
<1>3. FaultsKnown'
  <2>1. \A o : Pages(o)' = Pages(o)
    BY <1>1 DEF Pages
  <2>2. ASSUME NEW o \in {fault', fixing'} \ {0} PROVE o \in live' /\ trap'[o] \in Pages(o)
    <3>1. CASE o = p
      BY <1>1, <3>1, <2>2 DEF PInv, FaultsKnown, Domains
    <3>2. CASE o # p
      <4>1. o \in {fault, fixing} \ {0}
        BY <1>1, <2>2, <3>2
      <4>2. o \in live /\ trap[o] \in Pages(o) /\ live \subseteq Pid /\ DOMAIN trap = Pid
        BY <4>1, StateIs DEF PInv, FaultsKnown, Domains, Core, Shape
      <4>3. trap'[o] = trap[o]
        BY <1>1, <3>2, <4>2
      <4>4. QED
        BY <1>1, <4>2, <4>3
    <3>3. QED
      BY <3>1, <3>2
  <2>3. QED
    BY <2>1, <2>2 DEF FaultsKnown
<1>4. QED
  BY <1>1, <1>2, <1>3, AnswersStay

\* Every step keeps it.
LEMMA PStep ==
  ASSUME BitsFit, AnyHeap = FALSE, Image \in Nat, PInv, [PagesNext]_pvars
  PROVE  PInv'
<1>1. CASE UNCHANGED pvars
  <2>1. UNCHANGED <<mem, tab, data, pd, dirpage, brk, live, trap, fault, fixing, reply, buffer>>
    BY <1>1 DEF pvars, space
  <2>2. FaultsKnown'
    BY <2>1 DEF PInv, FaultsKnown, Pages
  <2>3. DOMAIN data' = Page /\ DOMAIN trap' = Pid
    BY <2>1 DEF PInv, Domains
  <2>4. QED
    BY <2>1, <2>2, <2>3, AnswersStay
<1>2. CASE \E p \in Pid, v \in Written : Write(p, v, 1)
  BY <1>2, WriteKeeps
<1>3. CASE TakeFault
  <2>1. /\ UNCHANGED <<mem, tab, data, pd, dirpage, brk, live, trap, reply, buffer>>
        /\ fixing' = fault /\ fault' = 0 /\ reply = <<>>
    BY <1>3 DEF TakeFault, space, Idle
  <2>2. FaultsKnown'
    BY <2>1 DEF PInv, FaultsKnown, Pages
  <2>3. DOMAIN data' = Page /\ DOMAIN trap' = Pid
    BY <2>1 DEF PInv, Domains
  <2>4. QED
    BY <2>1, <2>2, <2>3, AnswersStay
<1>4. CASE FixFault
  <2>1. fixing # 0 /\ fixing' = 0 /\ UNCHANGED <<dirpage, brk, live, trap, fault, reply, buffer>>
    BY <1>4 DEF FixFault
  <2>2. fixing # 0 => fixing \in live /\ trap[fixing] \in Pages(fixing)
    BY DEF PInv, FaultsKnown
  <2>3. Core(State') /\ Domains'
    BY <1>4, <2>2, FixKeeps DEF PInv, Unseen
  <2>4. FaultsKnown'
    BY <2>1 DEF PInv, FaultsKnown, Pages
  <2>5. reply = <<>> /\ reply' = <<>>
    BY <2>1 DEF PInv, Answers
  <2>6. Answers'
    BY <2>1, <2>5 DEF Answers
  <2>7. QED
    BY <2>3, <2>4, <2>6 DEF PInv
<1>5. CASE MissFault
  <2>1. /\ UNCHANGED <<mem, tab, data, pd, dirpage, brk, live, trap, fault, reply, buffer>>
        /\ fixing' = 0
    BY <1>5 DEF MissFault, space
  <2>2. FaultsKnown'
    BY <2>1 DEF PInv, FaultsKnown, Pages
  <2>3. DOMAIN data' = Page /\ DOMAIN trap' = Pid
    BY <2>1 DEF PInv, Domains
  <2>4. QED
    BY <2>1, <2>2, <2>3, AnswersStay
<1>6. CASE \E u \in Pid, vs \in MessagePages : Fork(u, vs)
  <2>1. PICK u \in Pid, vs \in MessagePages : Fork(u, vs)
    BY <1>6
  <2>2. Core(State') /\ Domains' /\ \E c : ForkDone(u, c, vs)
    BY <2>1, ForkKeeps DEF PInv
  <2>3. PICK c : ForkDone(u, c, vs)
    BY <2>2
  <2>4. /\ u \in live /\ live' = live \cup {c} /\ reply' = <<u, c>> /\ buffer' = vs /\ fixing = 0
        /\ BufferOwn(State', u, vs) /\ BufferOwn(State', c, vs) /\ UNCHANGED <<fault, fixing>>
    BY <2>3 DEF ForkDone
  <2>5. fault = 0
    BY <2>1 DEF Fork, Calls
  <2>6. FaultsKnown'
    BY <2>4, <2>5 DEF FaultsKnown
  <2>7. Answers'
    <3>1. reply' \in Seq(live') /\ \A k \in DOMAIN reply' : reply'[k] \in {u, c}
      BY <2>4
    <3>2. \A k \in DOMAIN reply' : BufferOwn(State', reply'[k], buffer')
      BY <2>4, <3>1
    <3>3. fixing' = 0
      BY <2>4
    <3>4. QED
      BY <3>1, <3>2, <3>3 DEF Answers
  <2>8. QED
    BY <2>2, <2>6, <2>7 DEF PInv
<1>7. CASE Reply
  <2>1. /\ UNCHANGED <<mem, tab, pd, dirpage, brk, live, trap, fault, fixing, buffer>>
        /\ reply # <<>> /\ reply' = Tail(reply) /\ DOMAIN data' = Page
    BY <1>7 DEF Reply
  <2>2. FaultsKnown'
    BY <2>1 DEF PInv, FaultsKnown, Pages
  <2>3. DOMAIN trap' = Pid
    BY <2>1 DEF PInv, Domains
  <2>4. QED
    BY <2>1, <2>2, <2>3, AnswersStay
<1>8. CASE \E p \in Pid : Exit(p)
  <2>1. PICK p \in Pid : Exit(p)
    BY <1>8
  <2>2. Core(State') /\ Domains' /\ ExitDone(p)
    BY <2>1, ExitKeeps DEF PInv
  <2>3. fault' = 0 /\ fixing' = 0 /\ reply' = <<>>
    BY <2>2 DEF ExitDone
  <2>4. QED
    BY <2>2, <2>3 DEF PInv, FaultsKnown, Answers
<1>9. CASE \E p \in Pid, inc \in Increments : Sbrk(p, inc, 0)
  <2>1. PICK p \in Pid, inc \in Increments : Sbrk(p, inc, 0)
    BY <1>9
  <2>2. Core(State') /\ Domains' /\ SbrkDone(p)
    BY <2>1, SbrkKeeps DEF PInv
  <2>3. fault' = 0 /\ fixing' = 0 /\ reply' = <<>>
    BY <2>2 DEF SbrkDone
  <2>4. QED
    BY <2>2, <2>3 DEF PInv, FaultsKnown, Answers
<1>10. QED
  BY <1>1, <1>2, <1>3, <1>4, <1>5, <1>6, <1>7, <1>8, <1>9 DEF PagesNext

-----------------------------------------------------------------------------
(* Boot *)

\* Segments end where init's break is, or below.
EndOf(s) == s.va * Units + s.memsz

\* Headers are numbers, and init's break is one.
LEMMA ImageIs ==
  /\ Image \in Nat
  /\ \A k \in DOMAIN Segments : /\ Segments[k].va \in Nat /\ Segments[k].memsz \in Nat \ {0} /\ Segments[k].w \in BOOLEAN
                                /\ EndOf(Segments[k]) \in Nat /\ EndOf(Segments[k]) <= Image
<1> DEFINE L == Len(Segments)
           E(k) == EndOf(Segments[k])
           ends == {Segments[k].va * Units + Segments[k].memsz : k \in DOMAIN Segments}
           Best(n, k) == k \in 1 .. n /\ \A j \in 1 .. n : E(j) <= E(k)
           T == {n \in 1 .. L : ~ \E k : Best(n, k)}
<1>1. /\ Segments \in Seq([va : Nat, memsz : Nat \ {0}, w : BOOLEAN]) /\ Segments # <<>> /\ Units \in Nat \ {0}
      /\ L \in Nat \ {0} /\ DOMAIN Segments = 1 .. L
  BY PagesAssumption
<1>2. \A k \in 1 .. L : /\ Segments[k].va \in Nat /\ Segments[k].memsz \in Nat \ {0} /\ Segments[k].w \in BOOLEAN
                        /\ E(k) \in Nat
  <2> SUFFICES ASSUME NEW k \in 1 .. L
               PROVE  /\ Segments[k].va \in Nat /\ Segments[k].memsz \in Nat \ {0} /\ Segments[k].w \in BOOLEAN
                      /\ E(k) \in Nat
    OBVIOUS
  <2>1. Segments[k] \in [va : Nat, memsz : Nat \ {0}, w : BOOLEAN]
    <3> DEFINE X == [va : Nat, memsz : Nat \ {0}, w : BOOLEAN]
    <3>1. Segments \in Seq(X)
      BY <1>1
    <3> HIDE DEF X
    <3>2. Segments[k] \in X
      BY <3>1
    <3>3. QED
      BY <3>2 DEF X
  <2> DEFINE a == Segments[k].va
             b == Segments[k].memsz
  <2>2. a \in Nat /\ b \in Nat \ {0} /\ Segments[k].w \in BOOLEAN
    BY <2>1
  <2>3. E(k) = a * Units + b
    BY DEF EndOf
  <2> HIDE DEF a, b, E
  <2>4. a * Units \in Nat
    BY <1>1, <2>2, SMTT(30)
  <2>5. QED
    BY <2>2, <2>3, <2>4 DEF a, b
<1>3. ends = {E(k) : k \in 1 .. L}
  BY <1>1 DEF EndOf
<1> HIDE DEF E, ends
<1>4. T = {}
  <2> SUFFICES ASSUME T # {} PROVE FALSE
    OBVIOUS
  <2>1. PICK n \in T : \A k \in T : n <= k
    <3>1. T \subseteq Nat
      BY <1>1
    <3> HIDE DEF T
    <3>2. QED
      BY <3>1, LeastNumber
  <2>2. n \in 1 .. L /\ n \in Nat /\ ~ \E k : Best(n, k)
    BY <2>1
  <2>3. n # 1
    <3>1. Best(1, 1)
      <4>1. 1 \in 1 .. L
        BY <1>1
      <4>2. E(1) \in Nat
        BY <1>2, <4>1
      <4>3. \A j \in 1 .. 1 : j = 1
        OBVIOUS
      <4>4. \A j \in 1 .. 1 : E(j) <= E(1)
        BY <4>2, <4>3
      <4>5. QED
        BY <4>4
    <3>2. QED
      BY <2>2, <3>1
  <2>4. n - 1 \in 1 .. L /\ n - 1 \notin T
    <3> HIDE DEF T
    <3>1. n - 1 \in 1 .. L /\ ~(n <= n - 1)
      BY <1>1, <2>2, <2>3
    <3>2. QED
      BY <2>1, <3>1
  <2>5. PICK k : Best(n - 1, k)
    BY <2>4
  <2>6. k \in 1 .. n - 1 /\ E(k) \in Nat /\ E(n) \in Nat /\ \A j \in 1 .. n - 1 : E(j) \in Nat /\ E(j) <= E(k)
    BY <1>1, <1>2, <2>2, <2>5, SMTT(40)
  <2>7. CASE E(n) <= E(k)
    <3>1. Best(n, k)
      BY <2>2, <2>6, <2>7
    <3>2. QED
      BY <2>2, <3>1
  <2>8. CASE E(k) <= E(n)
    <3>1. Best(n, n)
      <4> SUFFICES ASSUME NEW j \in 1 .. n PROVE E(j) <= E(n)
        BY <2>2
      <4>1. CASE j = n
        BY <2>6, <4>1
      <4>2. CASE j # n
        BY <2>2, <2>6, <2>8, <4>2
      <4>3. QED
        BY <4>1, <4>2
    <3>2. QED
      BY <2>2, <3>1
  <2>9. QED
    BY <2>6, <2>7, <2>8
<1>5. PICK k : Best(L, k)
  <2>1. L \in 1 .. L
    BY <1>1
  <2>2. QED
    BY <1>4, <2>1
<1>6. E(k) \in ends /\ \A f \in ends : f <= E(k)
  BY <1>3, <1>5
<1>7. Image \in ends /\ \A f \in ends : f <= Image
  <2>1. Image = CHOOSE e \in ends : \A f \in ends : f <= e
    BY DEF Image, ends
  <2>2. QED
    BY <1>6, <2>1
<1>8. Image \in Nat /\ \A j \in 1 .. L : E(j) <= Image
  BY <1>2, <1>3, <1>7
<1>9. QED
  BY <1>1, <1>2, <1>8 DEF E

\* page_alloc has given n pages, and what it takes for a power of two of them.
GotBlock(m, a, n, type) ==
  /\ a.page \in Nat /\ \A k \in 0 .. n - 1 : a.page + k \in Page \ InUse(m) /\ a.mem.type[a.page + k] = type
  /\ MemOK(a.mem) /\ InUse(m) \subseteq InUse(a.mem)
  /\ \A q \in InUse(a.mem) \ InUse(m) : a.mem.ref[q] = 1
  /\ \A q \in InUse(m) : a.mem.type[q] = m.type[q] /\ a.mem.ref[q] = m.ref[q]

\* page_alloc of any number of pages.
LEMMA BlockGiven ==
  ASSUME BitsFit, NEW m, MemOK(m), NEW n \in Nat \ {0}, NEW type \in {"user", "pgtbl", "pool"},
         PageAlloc(m, n, type).page # Nowhere
  PROVE  GotBlock(m, PageAlloc(m, n, type), n, type)
<1> DEFINE U == InUse(m)
           a == PageAlloc(m, n, type)
           o == OrderOf(n)
           S == Extent(a.page, o)
<1>1. o \in Nat /\ Pow2[o] >= n /\ Pow2[o] \in Nat /\ type \in PageType
  BY OrderOfRight, Pow2Type DEF PageType
<1>2. a = Allocate(m, o, type)
  BY DEF PageAlloc
<1>3. Sound(m, U) /\ U \subseteq Page
  BY RestIsNotInUse DEF MemOK
<1> HIDE DEF a, U, o, S
<1>4. Allocated(m, U, type, o, a)
  <2>1. a.page # Nowhere
    BY DEF a
  <2>2. QED
    BY <1>1, <1>2, <1>3, <2>1, AllocateGives
<1>5. S \subseteq Page /\ a.page \in Page /\ a.page \in Nat
  <2>1. Block(a.page, o)
    BY <1>4 DEF Allocated
  <2>2. QED
    BY <2>1, BlockInMemory DEF Block, Page, S
<1>6. /\ S \cap U = {} /\ Sound(a.mem, U \cup S)
      /\ \A q \in S : a.mem.type[q] = type /\ a.mem.ref[q] = 1
      /\ \A q \in U : a.mem.type[q] = m.type[q] /\ a.mem.ref[q] = m.ref[q]
      /\ \A q \in Page : (q \notin U /\ q \notin S) => a.mem.type[q] \in {m.type[q], "none"}
  BY <1>4 DEF Allocated, S
<1>7. InUse(a.mem) = U \cup S
  <2> SUFFICES ASSUME NEW q \in Page PROVE a.mem.type[q] \in {"user", "pgtbl", "pool"} <=> q \in U \/ q \in S
    BY <1>3, <1>5 DEF InUse
  <2>1. q \in U <=> m.type[q] \in {"user", "pgtbl", "pool"}
    BY DEF InUse, U
  <2>2. CASE q \in S
    BY <1>6, <2>2
  <2>3. CASE q \in U
    BY <1>6, <2>1, <2>3
  <2>4. CASE q \notin U /\ q \notin S
    BY <1>6, <2>1, <2>4
  <2>5. QED
    BY <2>2, <2>3, <2>4
<1>8. \A k \in 0 .. n - 1 : a.page + k \in S
  BY <1>1, <1>5 DEF S, Extent
<1>9. QED
  BY <1>5, <1>6, <1>7, <1>8 DEF GotBlock, MemOK, a, U

\* The addresses of a segment are addresses of init.
LEMMA SegmentPlace ==
  ASSUME Break(Image), NEW k \in DOMAIN Segments
  PROVE  /\ Segments[k].va \in Nat /\ PageUp(Segments[k].memsz) \in Nat \ {0} /\ Segments[k].w \in BOOLEAN
         /\ \A j \in 0 .. PageUp(Segments[k].memsz) - 1 : Segments[k].va + j \in AddressesOf(Image)
<1> DEFINE a == Segments[k].va
           b == Segments[k].memsz
           N == Units
           u == PageUp(b)
           x == Image \div N
<1>1. a \in Nat /\ b \in Nat \ {0} /\ a * N + b \in Nat /\ a * N + b <= Image /\ Image \in Nat
      /\ N \in Nat \ {0} /\ Segments[k].w \in BOOLEAN
  BY ImageIs, PagesAssumption DEF EndOf
<1>2. b + N - 1 \in Nat /\ u = (b + N - 1) \div N /\ N \in Nat \ {0}
  BY <1>1 DEF PageUp
<1>3. u \in Nat /\ u * N <= b + N - 1 /\ b + N - 1 < u * N + N
  <2> HIDE DEF b, N, u
  <2> DEFINE c == b + N - 1
  <2>1. c \in Nat /\ u = c \div N
    BY <1>2
  <2> HIDE DEF c
  <2>2. u \in Nat /\ u * N <= c /\ c < u * N + N
    BY <1>2, <2>1, InOrder
  <2>3. QED
    BY <2>2 DEF c
<1>4. x \in Nat /\ x * N <= Image /\ Image < x * N + N
  BY <1>1, InOrder
<1>5. AddressesOf(Image) = (StackStart .. KernBase - 1) \cup 0 .. PageUp(Image) - 1 /\ PageUp(Image) = x + 1
  BY ProgramPlace DEF AddressesOf
<1> HIDE DEF a, b, N, u, x
<1>6. u # 0
  BY <1>1, <1>3
<1>7. ASSUME NEW j \in 0 .. u - 1 PROVE a + j \in 0 .. x
  <2>1. j \in Nat /\ a + j \in Nat /\ j <= u - 1
    BY <1>1, <1>3
  <2> SUFFICES ASSUME a + j >= x + 1 PROVE FALSE
    BY <1>4, <2>1
  <2>2. a + u - 1 >= x + 1
    BY <1>1, <1>3, <1>4, <2>1
  <2>3. (a + u - 1) * N >= (x + 1) * N
    BY <1>1, <1>3, <1>4, <2>2, SMTT(30)
  <2>4. (a + u - 1) * N = a * N + u * N - N /\ (x + 1) * N = x * N + N
    BY <1>1, <1>3, <1>4, SMTT(30)
  <2> DEFINE c == a * N
             d == u * N
             e == x * N
  <2>5. c \in Int /\ d \in Int /\ e \in Int
    BY <1>1, <1>3, <1>4, SMTT(30)
  <2>6. c + d - N >= e + N /\ d <= b + N - 1 /\ c + b <= Image /\ Image < e + N
    BY <1>1, <1>3, <1>4, <2>3, <2>4
  <2> HIDE DEF c, d, e
  <2>7. QED
    BY <1>1, <2>5, <2>6
<1>8. (x + 1) - 1 = x
  BY <1>4
<1>9. QED
  BY <1>1, <1>3, <1>5, <1>6, <1>7, <1>8 DEF a, b, u

\* While init is loaded: all that is in use has one reference and is used once.
Ground(r, D) ==
  /\ IsView(r) /\ MemOK(r.mem) /\ IsDir(r.dir) /\ \A q \in Page : IsTable(r.tab[q])
  /\ \A q \in InUse(r.mem) : r.mem.ref[q] = 1
  /\ D \in Page /\ r.mem.type[D] = "pgtbl"
  /\ \A i \in DOMAIN r.dir : r.dir[i] # D /\ r.mem.type[r.dir[i]] = "pgtbl"
  /\ \A i, j \in DOMAIN r.dir : r.dir[i] = r.dir[j] => i = j
  /\ \A v \in Addr : Has(r, v) => v \in AddressesOf(Image) /\ r.mem.type[Phys(r, v)] = "user"
  /\ \A u, v \in Addr : Has(r, u) /\ Has(r, v) /\ Phys(r, u) = Phys(r, v) => u = v

\* The pages from q on are there for the next entries.
Ahead(r, q, n) ==
  \A k \in 0 .. n - 1 : /\ q + k \in Page /\ r.mem.type[q + k] = "user"
                        /\ \A v \in Addr : Has(r, v) => Phys(r, v) # q + k

\* What an entry adds.
Adding(r, n, v, e, N) ==
  /\ \A x \in Addr : Has(n, x) <=> Has(r, x) \/ x = v
  /\ \A x \in Addr : Has(n, x) => Entry(n, x) = IF x = v THEN e ELSE Entry(r, x)
  /\ n.dir[v \div Pte] = N /\ DOMAIN n.dir = DOMAIN r.dir \cup {v \div Pte}
  /\ \A j \in DOMAIN r.dir : j # v \div Pte => n.dir[j] = r.dir[j] /\ r.dir[j] # N
  /\ v % Pte \in 0 .. Pte - 1 /\ v \div Pte \in Index

\* The entry is all that changes.
LEMMA AddedView ==
  ASSUME NEW r, NEW D, Ground(r, D), NEW n, NEW v \in Addr, ~Has(r, v), NEW e, NEW N, EntryAdded(r, n, v, e, N)
  PROVE  Adding(r, n, v, e, N)
<1> DEFINE i == v \div Pte
           k == v % Pte
<1>1. /\ IsView(n) /\ N \in Page
      /\ \/ /\ i \in DOMAIN r.dir /\ r.dir[i] = N /\ n.dir = r.dir /\ n.mem = r.mem
            /\ Entered(r.tab[N], k, e, n.tab[N])
         \/ /\ i \notin DOMAIN r.dir /\ N \notin InUse(r.mem)
            /\ Entered(r.dir, i, N, n.dir) /\ Entered(<<>>, k, e, n.tab[N])
      /\ \A x \in Page \ {N} : n.tab[x] = r.tab[x]
  BY DEF EntryAdded
<1>2. k \in 0 .. Pte - 1 /\ i \in Index
  BY Parts
<1>3. \A j \in DOMAIN r.dir : r.dir[j] \in InUse(r.mem) /\ r.dir[j] \in Page
  BY DEF Ground, IsDir, InUse
<1>4. \A j \in DOMAIN r.dir : r.dir[j] = N => j = i
  BY <1>1, <1>3 DEF Ground
<1>5. /\ i \in DOMAIN n.dir /\ n.dir[i] = N /\ DOMAIN n.dir = DOMAIN r.dir \cup {i}
      /\ \A j \in DOMAIN r.dir : j # i => n.dir[j] = r.dir[j] /\ r.dir[j] # N
      /\ k \in DOMAIN n.tab[N] /\ n.tab[N][k] = e
      /\ i \in DOMAIN r.dir => /\ r.dir[i] = N /\ DOMAIN n.tab[N] = DOMAIN r.tab[N] \cup {k}
                               /\ \A l \in DOMAIN r.tab[N] \ {k} : n.tab[N][l] = r.tab[N][l]
      /\ i \notin DOMAIN r.dir => DOMAIN n.tab[N] = {k}
  <2>1. CASE i \in DOMAIN r.dir
    BY <1>1, <1>4, <2>1 DEF Entered
  <2>2. CASE i \notin DOMAIN r.dir
    BY <1>1, <1>4, <2>2 DEF Entered
  <2>3. QED
    BY <2>1, <2>2
<1>6. ~(i \in DOMAIN r.dir /\ k \in DOMAIN r.tab[r.dir[i]])
  BY DEF Has
<1> HIDE DEF i, k
<1>7. ASSUME NEW x \in Addr
      PROVE  (Has(n, x) <=> Has(r, x) \/ x = v) /\ (Has(n, x) => Entry(n, x) = IF x = v THEN e ELSE Entry(r, x))
  <2> DEFINE j == x \div Pte
             l == x % Pte
  <2>1. (Has(r, x) <=> j \in DOMAIN r.dir /\ l \in DOMAIN r.tab[r.dir[j]]) /\ Entry(r, x) = r.tab[r.dir[j]][l]
    BY DEF Has, Entry
  <2>2. (Has(n, x) <=> j \in DOMAIN n.dir /\ l \in DOMAIN n.tab[n.dir[j]]) /\ Entry(n, x) = n.tab[n.dir[j]][l]
    BY DEF Has, Entry
  <2>3. (j = i /\ l = k) <=> x = v
    BY SameParts DEF i, k
  <2> HIDE DEF j, l
  <2>4. CASE j = i
    BY <1>5, <1>6, <2>1, <2>2, <2>3, <2>4
  <2>5. CASE j # i /\ j \in DOMAIN r.dir
    <3>1. n.tab[n.dir[j]] = r.tab[r.dir[j]] /\ n.dir[j] = r.dir[j]
      BY <1>1, <1>3, <1>5, <2>5
    <3>2. QED
      BY <1>5, <2>1, <2>2, <2>3, <2>5, <3>1
  <2>6. CASE j # i /\ j \notin DOMAIN r.dir
    BY <1>5, <2>1, <2>2, <2>3, <2>6
  <2>7. QED
    BY <2>4, <2>5, <2>6
<1>8. QED
  BY <1>2, <1>5, <1>7 DEF i, k, Adding

\* One page more.
LEMMA GroundStep ==
  ASSUME BitsFit, NEW r, NEW D, Ground(r, D), NEW q \in Nat, NEW n \in Nat \ {0}, Ahead(r, q, n), NEW w \in BOOLEAN,
         NEW v \in AddressesOf(Image), Break(Image), NEW t, t = MapPage(r, v, q, w)
  PROVE  Ground(t, D) /\ Ahead(t, q + 1, n - 1)
<1> DEFINE e == [page |-> q, w |-> w]
<1>1. /\ IsView(r) /\ MemOK(r.mem) /\ IsDir(r.dir) /\ \A x \in Page : IsTable(r.tab[x])
      /\ \A x \in InUse(r.mem) : r.mem.ref[x] = 1
      /\ D \in Page /\ r.mem.type[D] = "pgtbl"
      /\ \A i \in DOMAIN r.dir : r.dir[i] # D /\ r.mem.type[r.dir[i]] = "pgtbl"
      /\ \A i, j \in DOMAIN r.dir : r.dir[i] = r.dir[j] => i = j
      /\ \A x \in Addr : Has(r, x) => x \in AddressesOf(Image) /\ r.mem.type[Phys(r, x)] = "user"
      /\ \A x, y \in Addr : Has(r, x) /\ Has(r, y) /\ Phys(r, x) = Phys(r, y) => x = y
  BY DEF Ground
<1>2. v \in Addr
  BY AreaPlace
<1>3. /\ q \in Page /\ r.mem.type[q] = "user" /\ \A x \in Addr : Has(r, x) => Phys(r, x) # q
      /\ \A k \in 0 .. (n - 1) - 1 : /\ (q + 1) + k \in Page /\ r.mem.type[(q + 1) + k] = "user"
                                     /\ \A x \in Addr : Has(r, x) => Phys(r, x) # (q + 1) + k
      /\ \A k \in 0 .. (n - 1) - 1 : (q + 1) + k # q
  <2>1. 0 \in 0 .. n - 1
    OBVIOUS
  <2>3. q + 0 = q /\ \A k \in 0 .. (n - 1) - 1 : k + 1 \in 0 .. n - 1 /\ q + (k + 1) = (q + 1) + k /\ (q + 1) + k # q
    OBVIOUS
  <2>4. QED
    BY <2>1, <2>3 DEF Ahead
<1>4. CASE t = r
  BY <1>3, <1>4 DEF Ahead
<1>5. CASE ~Has(r, v) /\ \E N \in Page : EntryAdded(r, t, v, e, N)
  <2>1. PICK N \in Page : EntryAdded(r, t, v, e, N)
    BY <1>5
  <2>2. /\ \A x \in Addr : Has(t, x) <=> Has(r, x) \/ x = v
        /\ \A x \in Addr : Has(t, x) => Entry(t, x) = IF x = v THEN e ELSE Entry(r, x)
        /\ t.dir[v \div Pte] = N /\ DOMAIN t.dir = DOMAIN r.dir \cup {v \div Pte}
        /\ \A j \in DOMAIN r.dir : j # v \div Pte => t.dir[j] = r.dir[j] /\ r.dir[j] # N
        /\ v % Pte \in 0 .. Pte - 1 /\ v \div Pte \in Index
    <3> HIDE DEF e
    <3>1. ~Has(r, v) /\ EntryAdded(r, t, v, e, N)
      BY <1>5, <2>1
    <3>2. Adding(r, t, v, e, N)
      BY <1>2, <3>1, AddedView
    <3>3. QED
      BY <3>2 DEF Adding
  <2>3. e.page = q /\ e \in [page : Page, w : BOOLEAN]
    BY <1>3
  <2> HIDE DEF e
  <2>4. \A x \in Addr : Has(t, x) => Phys(t, x) = IF x = v THEN q ELSE Phys(r, x)
    BY <2>2, <2>3 DEF Phys
  <2>5. /\ IsView(t) /\ MemOK(t.mem)
        /\ \/ /\ v \div Pte \in DOMAIN r.dir /\ r.dir[v \div Pte] = N /\ t.mem = r.mem
              /\ Entered(r.tab[N], v % Pte, e, t.tab[N])
           \/ /\ v \div Pte \notin DOMAIN r.dir /\ N \notin InUse(r.mem)
              /\ InUse(t.mem) = InUse(r.mem) \cup {N} /\ t.mem.type[N] = "pgtbl" /\ t.mem.ref[N] = 1
              /\ \A x \in InUse(r.mem) : t.mem.type[x] = r.mem.type[x] /\ t.mem.ref[x] = r.mem.ref[x]
              /\ Entered(<<>>, v % Pte, e, t.tab[N])
        /\ \A x \in Page \ {N} : t.tab[x] = r.tab[x]
    BY <2>1 DEF EntryAdded
  <2>6. \A x \in InUse(r.mem) : t.mem.type[x] = r.mem.type[x]
    BY <2>5
  <2>7. D \in InUse(r.mem) /\ \A x \in Page : r.mem.type[x] \in {"user", "pgtbl"} => x \in InUse(r.mem)
    BY <1>1 DEF InUse
  <2>8. \A i \in DOMAIN r.dir : r.dir[i] \in Page /\ r.dir[i] \in InUse(r.mem)
    BY <1>1, <2>7 DEF IsDir
  <2>9. t.mem.type[N] = "pgtbl" /\ N # D
    <3>1. CASE v \div Pte \in DOMAIN r.dir
      BY <1>1, <2>5, <2>8, <3>1
    <3>2. CASE v \div Pte \notin DOMAIN r.dir
      BY <2>5, <2>7, <3>2
    <3>3. QED
      BY <3>1, <3>2
  <2>10. IsDir(t.dir)
    <3> SUFFICES ASSUME NEW i \in DOMAIN t.dir PROVE i \in Index /\ t.dir[i] \in Page
      BY DEF IsDir
    <3>1. CASE i = v \div Pte
      BY <2>2, <3>1
    <3>2. CASE i # v \div Pte
      BY <1>1, <2>2, <3>2 DEF IsDir
    <3>3. QED
      BY <3>1, <3>2
  <2>11. \A x \in Page : IsTable(t.tab[x])
    <3> SUFFICES ASSUME NEW x \in Page PROVE IsTable(t.tab[x])
      OBVIOUS
    <3>1. CASE x # N
      BY <1>1, <2>5, <3>1
    <3>2. CASE x = N
      <4>1. \/ IsTable(r.tab[N]) /\ Entered(r.tab[N], v % Pte, e, t.tab[N])
            \/ IsTable(<<>>) /\ Entered(<<>>, v % Pte, e, t.tab[N])
        <5>1. IsTable(<<>>)
          BY DEF IsTable
        <5>2. QED
          BY <1>1, <2>5, <5>1
      <4>2. QED
        BY <2>2, <2>3, <3>2, <4>1 DEF IsTable, Entered
    <3>3. QED
      BY <3>1, <3>2
  <2>12. \A x \in InUse(t.mem) : t.mem.ref[x] = 1
    BY <1>1, <2>5
  <2>13. t.mem.type[D] = "pgtbl"
    BY <1>1, <2>6, <2>7
  <2>14. \A i \in DOMAIN t.dir : t.dir[i] # D /\ t.mem.type[t.dir[i]] = "pgtbl"
    <3> SUFFICES ASSUME NEW i \in DOMAIN t.dir PROVE t.dir[i] # D /\ t.mem.type[t.dir[i]] = "pgtbl"
      OBVIOUS
    <3>1. CASE i = v \div Pte
      BY <2>2, <2>9, <3>1
    <3>2. CASE i # v \div Pte
      BY <1>1, <2>2, <2>6, <2>8, <3>2
    <3>3. QED
      BY <3>1, <3>2
  <2>15. \A i, j \in DOMAIN t.dir : t.dir[i] = t.dir[j] => i = j
    BY <1>1, <2>2
  <2>16. \A x \in Addr : Has(t, x) => x \in AddressesOf(Image) /\ t.mem.type[Phys(t, x)] = "user"
    <3> SUFFICES ASSUME NEW x \in Addr, Has(t, x) PROVE x \in AddressesOf(Image) /\ t.mem.type[Phys(t, x)] = "user"
      OBVIOUS
    <3>1. CASE x = v
      BY <1>3, <2>4, <2>6, <2>7, <3>1
    <3>2. CASE x # v
      <4>1. Has(r, x) /\ Phys(t, x) = Phys(r, x)
        BY <2>2, <2>4, <3>2
      <4>2. Phys(r, x) \in Page
        BY <1>1, <2>8, <4>1 DEF Has, Phys, Entry, IsTable
      <4>3. QED
        BY <1>1, <2>6, <2>7, <4>1, <4>2
    <3>3. QED
      BY <3>1, <3>2
  <2>17. \A x, y \in Addr : Has(t, x) /\ Has(t, y) /\ Phys(t, x) = Phys(t, y) => x = y
    BY <1>1, <1>3, <2>2, <2>4
  <2>18. Ground(t, D)
    BY <1>1, <2>5, <2>10, <2>11, <2>12, <2>13, <2>14, <2>15, <2>16, <2>17 DEF Ground
  <2>19. Ahead(t, q + 1, n - 1)
    <3> SUFFICES ASSUME NEW k \in 0 .. (n - 1) - 1
                 PROVE  /\ (q + 1) + k \in Page /\ t.mem.type[(q + 1) + k] = "user"
                        /\ \A x \in Addr : Has(t, x) => Phys(t, x) # (q + 1) + k
      BY DEF Ahead
    <3> DEFINE z == (q + 1) + k
    <3>1. z \in Page /\ r.mem.type[z] = "user" /\ z # q /\ \A x \in Addr : Has(r, x) => Phys(r, x) # z
      BY <1>3
    <3> HIDE DEF z
    <3>2. z \in Page /\ t.mem.type[z] = "user" /\ \A x \in Addr : Has(t, x) => Phys(t, x) # z
      BY <2>2, <2>4, <2>6, <2>7, <3>1
    <3>3. QED
      BY <3>2 DEF z
  <2>20. QED
    BY <2>18, <2>19
<1>6. \/ t = r
      \/ ~Has(r, v) /\ \E N \in Page : EntryAdded(r, t, v, e, N)
  <2>1. v \div Pte \in DOMAIN r.dir => r.dir[v \div Pte] \in Page
    BY <1>1 DEF IsDir
  <2>2. QED
    BY <1>1, <2>1, PageMapped
<1>7. QED
  BY <1>4, <1>5, <1>6

\* map_pages, for pages of init.
LEMMA GroundPages ==
  ASSUME BitsFit, Break(Image), NEW r, NEW D, Ground(r, D), NEW q \in Nat, NEW l \in Nat, Ahead(r, q, l),
         NEW w \in BOOLEAN, NEW v \in Nat, \A j \in 0 .. l - 1 : v + j \in AddressesOf(Image)
  PROVE  Ground(MapPages(r, v, q, l, w), D)
<1> DEFINE Fine(t, k) == Ground(t, D) /\ Ahead(t, q + k, l - k)
<1>1. PICK d : MapPages(r, v, q, l, w) = d[l] /\ MapTurns(d, r, v, q, w, l)
  BY MapPagesUnfolds
<1>2. d[0] = r /\ \A k \in 1 .. l : d[k] = MapPage(d[k - 1], v + k - 1, q + k - 1, w)
  BY <1>1 DEF MapTurns
<1> DEFINE T == {k \in 0 .. l : ~Fine(d[k], k)}
<1>3. T = {}
  <2> SUFFICES ASSUME T # {} PROVE FALSE
    OBVIOUS
  <2>1. PICK n \in T : \A k \in T : n <= k
    <3>1. T \subseteq Nat
      OBVIOUS
    <3> HIDE DEF T
    <3>2. QED
      BY <3>1, LeastNumber
  <2>2. n \in 0 .. l /\ n \in Nat /\ ~Fine(d[n], n)
    BY <2>1
  <2>3. n # 0
    <3>1. q + 0 = q /\ l - 0 = l
      OBVIOUS
    <3>2. Fine(d[0], 0)
      BY <1>2, <3>1
    <3>3. QED
      BY <2>2, <3>2
  <2>4. n - 1 \in 0 .. l /\ n - 1 \notin T
    <3> HIDE DEF T
    <3>1. n - 1 \in 0 .. l /\ ~(n <= n - 1)
      BY <2>2, <2>3
    <3>2. QED
      BY <2>1, <3>1
  <2>5. Ground(d[n - 1], D) /\ Ahead(d[n - 1], q + (n - 1), l - (n - 1))
    BY <2>4
  <2> DEFINE a == q + (n - 1)
             b == l - (n - 1)
             c == v + (n - 1)
  <2>6. a \in Nat /\ b \in Nat \ {0} /\ c \in AddressesOf(Image) /\ a + 1 = q + n /\ b - 1 = l - n
        /\ q + n - 1 = a /\ v + n - 1 = c /\ n \in 1 .. l
    BY <2>2, <2>3
  <2>7. d[n] = MapPage(d[n - 1], c, a, w)
    BY <1>2, <2>6
  <2>8. Ground(d[n - 1], D) /\ Ahead(d[n - 1], a, b)
    BY <2>5
  <2> HIDE DEF a, b, c, T, Fine
  <2>9. Ground(d[n], D) /\ Ahead(d[n], a + 1, b - 1)
    BY <2>6, <2>7, <2>8, GroundStep
  <2>10. QED
    BY <2>2, <2>6, <2>9 DEF Fine
<1>4. l \in 0 .. l
  OBVIOUS
<1>5. QED
  BY <1>1, <1>3, <1>4

\* page_alloc does not disturb what there is, and gives pages that nobody has.
LEMMA GroundGiven ==
  ASSUME BitsFit, NEW r, NEW D, Ground(r, D), NEW n \in Nat \ {0}, NEW a, a = PageAlloc(r.mem, n, "user"),
         a.page # Nowhere, NEW t, IsView(t), t.mem = a.mem, t.tab = r.tab, t.dir = r.dir
  PROVE  Ground(t, D) /\ Ahead(t, a.page, n) /\ a.page \in Nat
<1> DEFINE m == r.mem
<1>1. /\ IsView(r) /\ MemOK(m) /\ IsDir(r.dir) /\ \A x \in Page : IsTable(r.tab[x])
      /\ \A x \in InUse(m) : m.ref[x] = 1
      /\ D \in Page /\ m.type[D] = "pgtbl"
      /\ \A i \in DOMAIN r.dir : r.dir[i] # D /\ m.type[r.dir[i]] = "pgtbl"
      /\ \A i, j \in DOMAIN r.dir : r.dir[i] = r.dir[j] => i = j
      /\ \A x \in Addr : Has(r, x) => x \in AddressesOf(Image) /\ m.type[Phys(r, x)] = "user"
      /\ \A x, y \in Addr : Has(r, x) /\ Has(r, y) /\ Phys(r, x) = Phys(r, y) => x = y
  BY DEF Ground
<1>2. GotBlock(m, a, n, "user")
  <2> HIDE DEF m
  <2>1. a = PageAlloc(m, n, "user")
    BY DEF m
  <2>2. QED
    BY <1>1, <2>1, BlockGiven
<1>3. \A x : (Has(t, x) <=> Has(r, x)) /\ Phys(t, x) = Phys(r, x)
  BY DEF Has, Phys, Entry
<1>4. /\ a.page \in Nat /\ \A k \in 0 .. n - 1 : a.page + k \in Page \ InUse(m) /\ t.mem.type[a.page + k] = "user"
      /\ MemOK(t.mem) /\ InUse(m) \subseteq InUse(t.mem)
      /\ \A x \in InUse(t.mem) \ InUse(m) : t.mem.ref[x] = 1
      /\ \A x \in InUse(m) : t.mem.type[x] = m.type[x] /\ t.mem.ref[x] = m.ref[x]
  BY <1>2 DEF GotBlock
<1>5. \A x \in Page : m.type[x] \in {"user", "pgtbl"} => x \in InUse(m)
  BY DEF InUse
<1>6. \A x \in Addr : Has(r, x) => Phys(r, x) \in Page /\ Phys(r, x) \in InUse(m)
  <2> SUFFICES ASSUME NEW x \in Addr, Has(r, x) PROVE Phys(r, x) \in Page /\ Phys(r, x) \in InUse(m)
    OBVIOUS
  <2>1. Phys(r, x) \in Page
    BY <1>1 DEF Has, Phys, Entry, IsTable, IsDir
  <2>2. QED
    BY <1>1, <1>5, <2>1
<1>7. \A i \in DOMAIN r.dir : r.dir[i] \in InUse(m)
  BY <1>1, <1>5 DEF IsDir
<1> HIDE DEF m
<1>8. \A x \in InUse(t.mem) : t.mem.ref[x] = 1
  BY <1>1, <1>4
<1>9. t.mem.type[D] = "pgtbl" /\ \A i \in DOMAIN t.dir : t.dir[i] # D /\ t.mem.type[t.dir[i]] = "pgtbl"
  BY <1>1, <1>4, <1>5, <1>7
<1>10. \A x \in Addr : Has(t, x) => x \in AddressesOf(Image) /\ t.mem.type[Phys(t, x)] = "user"
  BY <1>1, <1>3, <1>4, <1>6
<1>11. Ground(t, D)
  BY <1>1, <1>3, <1>4, <1>8, <1>9, <1>10 DEF Ground
<1>12. Ahead(t, a.page, n)
  BY <1>3, <1>4, <1>6 DEF Ahead
<1>13. QED
  BY <1>4, <1>11, <1>12

\* The stack of init.
LEMMA StackGround ==
  ASSUME BitsFit, Break(Image)
  PROVE  Ground(WithStack, AtDir.page)
<1> DEFINE A == AtPool
           B == AtStack
           C == AtDir
           r == [mem |-> C.mem, tab |-> [q \in Page |-> <<>>], data |-> [q \in Page |-> 0], dir |-> <<>>]
<1>1. A.page # Nowhere /\ B.page # Nowhere /\ C.page # Nowhere
  BY InitFits
<1>2. MemOK(InitMemory) /\ InUse(InitMemory) = {}
  <2>1. InUse(InitMemory) = {}
    BY DEF InUse, InitMemory
  <2>2. QED
    BY <2>1, InitSound DEF MemOK
<1>3. Largest \in Nat \ {0} /\ StackPages \in Nat \ {0} /\ 1 \in Nat \ {0}
  <2>1. MaxOrder - 1 \in Nat
    BY BuddyAssumption
  <2>2. Pow2[MaxOrder - 1] \in Nat \ {0}
    BY <2>1, Pow2Type
  <2>3. QED
    BY <2>2, PagesAssumption DEF Largest
<1>4. /\ A = PageAlloc(InitMemory, Largest, "pool") /\ B = PageAlloc(A.mem, StackPages, "user")
      /\ C = PageAlloc(B.mem, 1, "pgtbl")
  BY DEF AtPool, AtStack, AtDir
<1> HIDE DEF A, B, C
<1>5. GotBlock(InitMemory, A, Largest, "pool")
  BY <1>1, <1>2, <1>3, <1>4, BlockGiven
<1>6. GotBlock(A.mem, B, StackPages, "user")
  <2>1. MemOK(A.mem)
    BY <1>5 DEF GotBlock
  <2> HIDE DEF GotBlock
  <2>2. QED
    BY <1>1, <1>3, <1>4, <2>1, BlockGiven
<1>7. GotBlock(B.mem, C, 1, "pgtbl")
  <2>1. MemOK(B.mem)
    BY <1>6 DEF GotBlock
  <2>2. QED
    BY <1>1, <1>3, <1>4, <2>1, BlockGiven
<1>8. \A q \in InUse(A.mem) : A.mem.ref[q] = 1
  BY <1>2, <1>5 DEF GotBlock
<1>9. InUse(A.mem) \subseteq InUse(B.mem) /\ \A q \in InUse(B.mem) : B.mem.ref[q] = 1
  BY <1>6, <1>8 DEF GotBlock
<1>10. InUse(B.mem) \subseteq InUse(C.mem) /\ \A q \in InUse(C.mem) : C.mem.ref[q] = 1
  BY <1>7, <1>9 DEF GotBlock
<1>11. B.page \in Nat /\ \A k \in 0 .. StackPages - 1 : B.page + k \in Page /\ C.mem.type[B.page + k] = "user"
  <2> SUFFICES ASSUME NEW k \in 0 .. StackPages - 1
               PROVE  B.page + k \in Page /\ C.mem.type[B.page + k] = "user"
    BY <1>6 DEF GotBlock
  <2> DEFINE z == B.page + k
  <2>1. z \in Page /\ B.mem.type[z] = "user"
    BY <1>6 DEF GotBlock
  <2> HIDE DEF z
  <2>2. z \in InUse(B.mem)
    BY <2>1 DEF InUse
  <2>3. C.mem.type[z] = "user"
    BY <1>7, <2>1, <2>2 DEF GotBlock
  <2>4. QED
    BY <2>1, <2>3 DEF z
<1>12. C.page \in Page /\ C.mem.type[C.page] = "pgtbl" /\ MemOK(C.mem)
  <2>1. 0 \in 0 .. 1 - 1 /\ C.page \in Nat
    BY <1>7 DEF GotBlock
  <2>2. C.page + 0 \in Page /\ C.mem.type[C.page + 0] = "pgtbl" /\ MemOK(C.mem)
    BY <1>7, <2>1 DEF GotBlock
  <2>3. C.page + 0 = C.page
    BY <2>1
  <2>4. QED
    BY <2>2, <2>3
<1>13. /\ IsView(r) /\ r.mem = C.mem /\ IsDir(r.dir) /\ DOMAIN r.dir = {} /\ \A q \in Page : IsTable(r.tab[q])
       /\ \A x : ~Has(r, x)
  BY DEF IsView, IsDir, IsTable, Has
<1>14. WithStack = MapPages(r, StackStart, B.page, StackPages, TRUE)
  BY DEF WithStack, B, C
<1> HIDE DEF r
<1>15. Ground(r, C.page)
  BY <1>10, <1>12, <1>13 DEF Ground
<1>16. Ahead(r, B.page, StackPages)
  BY <1>11, <1>13 DEF Ahead
<1>17. StackStart \in Nat /\ \A j \in 0 .. StackPages - 1 : StackStart + j \in AddressesOf(Image)
  <2>1. KernBase \in Nat /\ StackPages \in 1 .. KernBase
    BY PagesAssumption
  <2>2. \A j \in 0 .. StackPages - 1 : StackStart + j \in StackStart .. KernBase - 1
    BY <2>1 DEF StackStart
  <2>3. StackStart \in Nat
    BY <2>1 DEF StackStart
  <2>4. QED
    BY <2>2, <2>3 DEF AddressesOf
<1>18. StackPages \in Nat /\ TRUE \in BOOLEAN
  BY <1>3
<1>19. Ground(MapPages(r, StackStart, B.page, StackPages, TRUE), C.page)
  BY <1>11, <1>15, <1>16, <1>17, <1>18, GroundPages
<1>20. QED
  BY <1>14, <1>19 DEF C

\* A segment.
LEMMA SegmentGround ==
  ASSUME BitsFit, Break(Image), NEW r, NEW D, Ground(r, D), NEW k \in DOMAIN Segments,
         SegmentAt(r, Segments[k]).page # Nowhere
  PROVE  Ground(Load(r, Segments[k]), D)
<1> DEFINE s == Segments[k]
           n == PageUp(s.memsz)
           a == SegmentAt(r, s)
           t == [r EXCEPT !.mem = a.mem]
           v == s.va
           w == s.w
<1>1. v \in Nat /\ n \in Nat \ {0} /\ w \in BOOLEAN /\ \A j \in 0 .. n - 1 : v + j \in AddressesOf(Image)
  BY SegmentPlace
<1>2. a = PageAlloc(r.mem, n, "user") /\ a.page # Nowhere
  BY DEF SegmentAt
<1>3. Load(r, s) = MapPages(t, v, a.page, n, w)
  BY DEF Load
<1> HIDE DEF a, n, v, w, s
<1>4. IsView(t) /\ t.mem = a.mem /\ t.tab = r.tab /\ t.dir = r.dir
  <2>1. r = [mem |-> r.mem, tab |-> r.tab, data |-> r.data, dir |-> r.dir] /\ DOMAIN r.tab = Page /\ DOMAIN r.data = Page
    BY DEF Ground, IsView
  <2>2. t = [mem |-> a.mem, tab |-> r.tab, data |-> r.data, dir |-> r.dir]
    BY <2>1
  <2>3. QED
    BY <2>1, <2>2 DEF IsView
<1> HIDE DEF t
<1>5. Ground(t, D) /\ Ahead(t, a.page, n) /\ a.page \in Nat
  BY <1>1, <1>2, <1>4, GroundGiven
<1>6. n \in Nat
  BY <1>1
<1>7. Ground(MapPages(t, v, a.page, n, w), D)
  BY <1>1, <1>5, <1>6, GroundPages
<1>8. QED
  BY <1>3, <1>7 DEF s

\* The segments are loaded one after the other.
LEMMA LoadedUnfolds ==
  /\ Loaded[0] = WithStack
  /\ \A k \in 1 .. Len(Segments) : Loaded[k] = Load(Loaded[k - 1], Segments[k])
<1> DEFINE L == Len(Segments)
           Is(d, n) == d = [k \in 0 .. n |-> IF k = 0 THEN WithStack ELSE Load(d[k - 1], Segments[k])]
           T == {n \in Nat : ~ \E d : Is(d, n)}
<1>1. T = {}
  <2> SUFFICES ASSUME T # {} PROVE FALSE
    OBVIOUS
  <2>1. PICK n \in T : \A k \in T : n <= k
    <3>1. T \subseteq Nat
      OBVIOUS
    <3> HIDE DEF T
    <3>2. QED
      BY <3>1, LeastNumber
  <2>2. n # 0
    <3>1. Is([k \in 0 .. 0 |-> WithStack], 0)
      OBVIOUS
    <3>2. QED
      BY <2>1, <3>1
  <2>3. n \in Nat /\ n - 1 \in Nat /\ n - 1 \notin T
    <3>1. n \in Nat
      BY <2>1
    <3> HIDE DEF T
    <3>2. n - 1 \in Nat /\ ~(n <= n - 1)
      BY <2>2, <3>1
    <3>3. QED
      BY <2>1, <3>1, <3>2
  <2>4. PICK d : Is(d, n - 1)
    BY <2>3
  <2> DEFINE e == [k \in 0 .. n |-> IF k = n THEN Load(d[n - 1], Segments[n]) ELSE d[k]]
  <2>5. Is(e, n)
    <3> SUFFICES ASSUME NEW k \in 0 .. n
                 PROVE  e[k] = IF k = 0 THEN WithStack ELSE Load(e[k - 1], Segments[k])
      OBVIOUS
    <3>1. CASE k = n
      BY <2>2, <2>3, <3>1
    <3>2. CASE k # n
      <4>1. k \in 0 .. n - 1 /\ e[k] = d[k] /\ (k # 0 => e[k - 1] = d[k - 1])
        BY <2>3, <3>2
      <4>2. d[k] = IF k = 0 THEN WithStack ELSE Load(d[k - 1], Segments[k])
        BY <2>4, <4>1
      <4> HIDE DEF e
      <4>3. QED
        BY <4>1, <4>2
    <3>3. QED
      BY <3>1, <3>2
  <2>6. QED
    BY <2>1, <2>5
<1>2. L \in Nat
  BY PagesAssumption
<1> DEFINE d == CHOOSE d : Is(d, L)
<1>3. Is(d, L)
  <2> HIDE DEF Is, L
  <2>1. \E x : Is(x, L)
    BY <1>1, <1>2
  <2>2. QED
    BY <2>1
<1>4. Loaded = d
  BY DEF Loaded
<1>5. Loaded = [k \in 0 .. L |-> IF k = 0 THEN WithStack ELSE Load(Loaded[k - 1], Segments[k])]
  BY <1>3, <1>4
<1> HIDE DEF L, d
<1>6. QED
  BY <1>2, <1>5 DEF L

\* What boot leaves.
LEMMA BootedGround ==
  ASSUME BitsFit, Break(Image)
  PROVE  Ground(Booted, AtDir.page)
<1> DEFINE D == AtDir.page
           L == Len(Segments)
           T == {k \in 0 .. L : ~Ground(Loaded[k], D)}
<1>1. L \in Nat /\ DOMAIN Segments = 1 .. L
  BY PagesAssumption
<1>2. T = {}
  <2> SUFFICES ASSUME T # {} PROVE FALSE
    OBVIOUS
  <2>1. PICK n \in T : \A k \in T : n <= k
    <3>1. T \subseteq Nat
      OBVIOUS
    <3> HIDE DEF T
    <3>2. QED
      BY <3>1, LeastNumber
  <2>2. n \in 0 .. L /\ n \in Nat /\ ~Ground(Loaded[n], D)
    BY <1>1, <2>1
  <2>3. n # 0
    BY <2>2, LoadedUnfolds, StackGround
  <2>4. n - 1 \in 0 .. L /\ n - 1 \notin T
    <3> HIDE DEF T
    <3>1. n - 1 \in 0 .. L /\ ~(n <= n - 1)
      BY <1>1, <2>2, <2>3
    <3>2. QED
      BY <2>1, <3>1
  <2>5. Ground(Loaded[n - 1], D) /\ n \in 1 .. L
    BY <1>1, <2>2, <2>3, <2>4
  <2>6. SegmentAt(Loaded[n - 1], Segments[n]).page # Nowhere
    BY <1>1, <2>5, InitFits
  <2>7. Loaded[n] = Load(Loaded[n - 1], Segments[n])
    BY <2>5, LoadedUnfolds
  <2> DEFINE r == Loaded[n - 1]
  <2> HIDE DEF D, r
  <2>8. Ground(Load(r, Segments[n]), D)
    BY <1>1, <2>5, <2>6, SegmentGround DEF r
  <2>9. QED
    BY <2>2, <2>7, <2>8 DEF r
<1>3. L \in 0 .. L
  BY <1>1
<1>4. QED
  BY <1>2, <1>3 DEF Booted

\* init's break is one.
LEMMA ImageBreak ==
  ASSUME Image % Units # 0
  PROVE  Break(Image)
BY ImageIs, InitFits DEF Break

\* Boot leaves one process, whose tables and pages have one reference each.
LEMMA InitKeeps ==
  ASSUME BitsFit, Image % Units # 0, PagesInit
  PROVE  PInv
<1> DEFINE s == State
           r == Booted
           D == AtDir.page
<1>1. Break(Image) /\ Ground(r, D)
  BY ImageBreak, BootedGround
<1>2. \A v \in AddressesOf(Image) : Has(r, v)
  BY InitFits
<1>3. /\ s.mem = r.mem /\ s.tab = r.tab /\ s.live = {1}
      /\ s.pd[1] = r.dir /\ s.dirpage[1] = D /\ s.brk[1] = Image /\ 1 \in Pid
  BY StateIs, PagesAssumption DEF PagesInit
<1>4. DOMAIN data = DOMAIN r.data /\ DOMAIN pd = Pid /\ DOMAIN dirpage = Pid /\ DOMAIN brk = Pid /\ DOMAIN trap = Pid
      /\ fault = 0 /\ fixing = 0 /\ reply = <<>>
  BY DEF PagesInit
<1>5. SpareKept(s)
  BY <1>3 DEF SpareKept, Spare
<1>6. \A q \in Page \ Spare : r.mem.type[q] = "user" => \E v \in AddressesOf(Image) : Phys(r, v) = q
  BY DEF Spare
<1>7. \A v \in AddressesOf(Image) : Phys(r, v) \notin Spare
  BY DEF Spare
<1> HIDE DEF s, r, D
<1>8. /\ IsView(r) /\ MemOK(r.mem) /\ IsDir(r.dir) /\ \A q \in Page : IsTable(r.tab[q])
      /\ \A q \in InUse(r.mem) : r.mem.ref[q] = 1
      /\ D \in Page /\ r.mem.type[D] = "pgtbl"
      /\ \A i \in DOMAIN r.dir : r.dir[i] # D /\ r.mem.type[r.dir[i]] = "pgtbl"
      /\ \A i, j \in DOMAIN r.dir : r.dir[i] = r.dir[j] => i = j
      /\ \A v \in Addr : Has(r, v) => v \in AddressesOf(Image) /\ r.mem.type[Phys(r, v)] = "user"
      /\ \A u, v \in Addr : Has(r, u) /\ Has(r, v) /\ Phys(r, u) = Phys(r, v) => u = v
  BY <1>1 DEF Ground
<1>9. AddressesOf(Image) \subseteq Addr /\ Area(s, 1) = AddressesOf(Image)
  BY <1>1, <1>3, AreaPlace DEF Area
<1>10. \A v : (Holds(s, 1, v) <=> Has(r, v)) /\ Slot(s, 1, v) = Entry(r, v) /\ At(s, 1, v) = Phys(r, v)
  BY <1>3 DEF Holds, Has, Slot, Entry, At, Phys
<1>11. \A q \in Page : r.mem.type[q] \in {"user", "pgtbl"} => r.mem.ref[q] = 1
  BY <1>8 DEF InUse
<1>12. Shape(s)
  BY <1>1, <1>3, <1>8 DEF Shape
<1>13. Mapped(s)
  BY <1>2, <1>3, <1>8, <1>9, <1>10 DEF Mapped
<1>14. DirsOwn(s)
  BY <1>3, <1>8, <1>11 DEF DirsOwn
<1>15. TablesUsed(s)
  <2> SUFFICES ASSUME NEW i \in DOMAIN r.dir
               PROVE  /\ r.mem.type[r.dir[i]] = "pgtbl"
                      /\ r.mem.ref[r.dir[i]] >= Cardinality(Sharers(s, r.dir[i], i))
    BY <1>3 DEF TablesUsed
  <2>1. r.mem.type[r.dir[i]] = "pgtbl" /\ r.mem.ref[r.dir[i]] = 1
    BY <1>8, <1>11 DEF IsDir
  <2>2. Sharers(s, r.dir[i], i) = {1}
    BY <1>3 DEF Sharers
  <2>3. Cardinality({1}) = 1
    BY FS_Singleton
  <2>4. QED
    BY <2>1, <2>2, <2>3
<1>16. TablesApart(s)
  BY <1>3, <1>8 DEF TablesApart
<1>17. PagesUsed(s)
  BY <1>2, <1>3, <1>7, <1>8, <1>9, <1>10 DEF PagesUsed
<1>18. Counted(s)
  <2> SUFFICES ASSUME NEW q \in Page \ Spare, r.mem.type[q] = "user"
               PROVE  r.mem.ref[q] = Cardinality(Having(s, q))
    BY <1>3 DEF Counted
  <2>1. PICK v \in AddressesOf(Image) : Phys(r, v) = q
    BY <1>6
  <2>2. Having(s, q) = {<<1, v>>}
    <3> SUFFICES ASSUME NEW u \in {1} \X Addr
                 PROVE  Holds(s, u[1], u[2]) /\ At(s, u[1], u[2]) = q <=> u = <<1, v>>
      <4>1. <<1, v>> \in {1} \X Addr
        BY <1>9
      <4>2. QED
        BY <1>3, <4>1 DEF Having
    <3>1. u[1] = 1 /\ u[2] \in Addr /\ u = <<u[1], u[2]>>
      OBVIOUS
    <3>2. (Holds(s, u[1], u[2]) <=> Has(r, u[2])) /\ At(s, u[1], u[2]) = Phys(r, u[2])
      BY <1>10, <3>1
    <3>3. v \in Addr /\ Has(r, v)
      BY <1>2, <1>9
    <3>4. Has(r, u[2]) /\ Phys(r, u[2]) = q <=> u[2] = v
      BY <1>8, <2>1, <3>1, <3>3
    <3>5. QED
      BY <3>1, <3>2, <3>4
  <2>3. Cardinality({<<1, v>>}) = 1
    BY FS_Singleton
  <2>4. QED
    BY <1>11, <2>2, <2>3
<1>19. WritableOnce(s)
  <2> SUFFICES ASSUME NEW v \in AddressesOf(Image) PROVE r.mem.ref[Phys(r, v)] = 1
    BY <1>3, <1>9, <1>10 DEF WritableOnce
  <2>1. Has(r, v) /\ v \in Addr /\ r.mem.type[Phys(r, v)] = "user"
    BY <1>2, <1>8, <1>9
  <2>2. Phys(r, v) \in Page
    BY <1>8, <2>1 DEF Has, Phys, Entry, IsTable, IsDir
  <2>3. QED
    BY <1>11, <2>1, <2>2
<1>20. Core(s)
  BY <1>5, <1>12, <1>13, <1>14, <1>15, <1>16, <1>17, <1>18, <1>19 DEF Core
<1>21. Domains
  BY <1>3, <1>4, <1>8, StateIs DEF Domains, IsView, s
<1>22. FaultsKnown /\ Answers
  BY <1>4 DEF FaultsKnown, Answers
<1>23. QED
  BY <1>20, <1>21, <1>22 DEF PInv, s

\* The invariant that the theorems rest on.
THEOREM PagesInvariant ==
  ASSUME OrdersApart, AnyHeap = FALSE, Image % Units # 0
  PROVE  PagesSpec => []PInv
<1>0. BitsFit
  BY ApartFits
<1>1. PagesInit => PInv
  BY <1>0, InitKeeps
<1>2. PInv /\ [PagesNext]_pvars => PInv'
  BY <1>0, PStep, ImageIs
<1>3. QED
  BY <1>1, <1>2, PTL DEF PagesSpec

\* Where processes have a page, in the model's words and in those of the proof.
LEMMA UsersAre ==
  ASSUME PInv
  PROVE  /\ \A p \in live : Mine(p) = Area(State, p) /\ Pages(p) = Area(State, p) /\ Area(State, p) \subseteq Addr
         /\ \A p \in live : \A v \in Addr : v \in Area(State, p) <=> Holds(State, p, v)
         /\ \A q : Users(q) = Having(State, q)
<1>1. Core(State) /\ Shape(State) /\ Mapped(State) /\ State.live = live
  BY StateIs DEF PInv, Core
<1>2. ASSUME NEW p \in live
      PROVE  /\ Mine(p) = Area(State, p) /\ Pages(p) = Area(State, p) /\ Area(State, p) \subseteq Addr
             /\ \A v \in Addr : v \in Area(State, p) <=> Holds(State, p, v)
  <2>1. Area(State, p) \subseteq Addr
    BY <1>1, AreaIs
  <2>2. Pages(p) = Area(State, p) /\ \A v : Has(View(p), v) <=> Holds(State, p, v)
    BY ViewIs
  <2>3. \A v \in Addr : Holds(State, p, v) <=> v \in Area(State, p)
    BY <1>1 DEF Mapped
  <2>4. QED
    BY <2>1, <2>2, <2>3 DEF Mine
<1>3. ASSUME NEW q PROVE Users(q) = Having(State, q)
  <2>1. Users(q) = {u \in live \X Addr : u[2] \in Mine(u[1]) /\ Phys(View(u[1]), u[2]) = q}
    BY DEF Users, Addr
  <2>2. Having(State, q) = {u \in live \X Addr : Holds(State, u[1], u[2]) /\ At(State, u[1], u[2]) = q}
    BY <1>1 DEF Having
  <2>3. ASSUME NEW u \in live \X Addr
        PROVE  /\ u[2] \in Mine(u[1]) <=> Holds(State, u[1], u[2])
               /\ Phys(View(u[1]), u[2]) = At(State, u[1], u[2])
    <3> DEFINE p == u[1]
               v == u[2]
    <3>1. p \in live /\ v \in Addr
      OBVIOUS
    <3> HIDE DEF p, v
    <3>2. (v \in Mine(p) <=> Holds(State, p, v)) /\ Phys(View(p), v) = At(State, p, v)
      BY <1>2, <3>1, ViewIs
    <3>3. QED
      BY <3>2 DEF p, v
  <2>4. QED
    BY <2>1, <2>2, <2>3
<1>4. QED
  BY <1>2, <1>3

\* The count of references of a page of processes is the number of places that have
\* it, through every order of forks, faults, exits and calls of sbrk.
THEOREM CountsStayRight ==
  ASSUME OrdersApart, AnyHeap = FALSE, Image % Units # 0
  PROVE  PagesSpec => []CountsRight
<1>1. ASSUME PInv PROVE CountsRight
  <2>1. Counted(State) /\ State.mem = mem
    BY <1>1, StateIs DEF PInv, Core
  <2>2. QED
    BY <1>1, <2>1, UsersAre DEF CountsRight, Counted
<1>2. QED
  BY <1>1, PagesInvariant, PTL

\* What a process can reach is in use, and for one thing.
THEOREM ReachableStaysInUse ==
  ASSUME OrdersApart, AnyHeap = FALSE, Image % Units # 0
  PROVE  PagesSpec => []ReachableInUse
<1>1. ASSUME PInv PROVE ReachableInUse
  <2>1. /\ Shape(State) /\ DirsOwn(State) /\ TablesUsed(State) /\ PagesUsed(State)
        /\ State.mem = mem /\ State.live = live /\ State.pd = pd /\ State.dirpage = dirpage
    BY <1>1, StateIs DEF PInv, Core
  <2>2. ~mem.damaged
    BY <2>1 DEF Shape, MemOK, Sound
  <2>3. ASSUME NEW p \in live, NEW i \in DOMAIN pd[p]
        PROVE  mem.type[pd[p][i]] = "pgtbl" /\ mem.ref[pd[p][i]] > 0
    <3> DEFINE T == pd[p][i]
               n == Cardinality(Sharers(State, T, i))
    <3>1. mem.type[T] = "pgtbl" /\ mem.ref[T] >= n /\ T \in Page
      BY <2>1 DEF TablesUsed, Shape, IsDir
    <3>2. p \in Sharers(State, T, i)
      BY <2>1 DEF Sharers
    <3>3. IsFiniteSet(Sharers(State, T, i)) /\ n \in Nat
      BY <2>1, FewHave DEF Shape
    <3>4. n # 0
      BY <3>2, <3>3, FS_EmptySet
    <3>5. mem.ref[T] \in Int
      BY <2>1, <3>1, RestIsNotInUse DEF Shape
    <3> HIDE DEF n, T
    <3>6. mem.ref[T] > 0
      BY <3>1, <3>3, <3>4, <3>5
    <3>7. QED
      BY <3>1, <3>6 DEF T
  <2>4. ASSUME NEW p \in live, NEW v \in Mine(p) PROVE mem.type[Phys(View(p), v)] = "user"
    BY <1>1, <2>1, UsersAre, ViewIs DEF PagesUsed
  <2>5. ASSUME NEW p \in live
        PROVE  /\ mem.type[dirpage[p]] = "pgtbl" /\ mem.ref[dirpage[p]] = 1
               /\ \A o \in live : /\ dirpage[o] = dirpage[p] => o = p
                                  /\ \A i \in DOMAIN pd[p] : pd[p][i] # dirpage[o]
    BY <2>1 DEF DirsOwn
  <2>6. QED
    BY <2>2, <2>3, <2>4, <2>5 DEF ReachableInUse
<1>2. QED
  BY <1>1, PagesInvariant, PTL

\* A page that a process may write to is its own.
THEOREM WritableStaysPrivate ==
  ASSUME OrdersApart, AnyHeap = FALSE, Image % Units # 0
  PROVE  PagesSpec => []WritableIsPrivate
<1>1. ASSUME PInv, NEW p \in live, NEW v \in Mine(p), Entry(View(p), v).w
      PROVE  Users(Phys(View(p), v)) = {<<p, v>>}
  <2> DEFINE q == Phys(View(p), v)
  <2>1. /\ Core(State) /\ Shape(State) /\ WritableOnce(State) /\ PagesUsed(State) /\ Counted(State) /\ State.live = live /\ State.mem = mem
    BY <1>1, StateIs DEF PInv, Core
  <2>2. v \in Area(State, p) /\ v \in Addr /\ Holds(State, p, v) /\ q = At(State, p, v) /\ Slot(State, p, v).w
    BY <1>1, UsersAre, ViewIs
  <2>3. mem.ref[q] = 1 /\ mem.type[q] = "user" /\ q \notin Spare
    BY <2>1, <2>2 DEF WritableOnce, PagesUsed
  <2>4. q \in Page
    BY <2>1, <2>2, SlotIs
  <2> HIDE DEF q
  <2>5. IsFiniteSet(Having(State, q)) /\ Cardinality(Having(State, q)) = 1
    BY <2>1, <2>3, <2>4, FewHave DEF Counted, Shape
  <2>6. <<p, v>> \in Having(State, q)
    BY <2>1, <2>2 DEF Having
  <2>7. Having(State, q) = {<<p, v>>}
    <3> DEFINE H == Having(State, q)
    <3>1. IsFiniteSet(H) /\ Cardinality(H) = 1 /\ <<p, v>> \in H
      BY <2>5, <2>6
    <3> HIDE DEF H
    <3>2. \E x : H = {x}
      BY <3>1, FS_Singleton
    <3>3. QED
      BY <3>1, <3>2 DEF H
  <2>8. QED
    BY <1>1, <2>7, UsersAre DEF q
<1>2. ASSUME PInv PROVE WritableIsPrivate
  BY <1>1, <1>2 DEF WritableIsPrivate
<1>3. QED
  BY <1>2, PagesInvariant, PTL

-----------------------------------------------------------------------------
(* The memories that the processes see *)

Memories == [p \in live |-> [v \in Mine(p) |-> data[Phys(View(p), v)]]]

\* Those are where processes hold pages.
Seen(p) == [v \in {x \in Addr : Holds(State, p, x)} |-> data[At(State, p, v)]]

\* Those are the memories of the refinement.
LEMMA MemoriesAre == PInv => Memories = [p \in live |-> Seen(p)]
<1> SUFFICES ASSUME PInv PROVE Memories = [p \in live |-> Seen(p)]
  OBVIOUS
<1> SUFFICES ASSUME NEW p \in live PROVE [v \in Mine(p) |-> data[Phys(View(p), v)]] = Seen(p)
  BY DEF Memories
<1>1. Mine(p) = {x \in Addr : Holds(State, p, x)}
  BY UsersAre
<1>2. \A v \in Mine(p) : Phys(View(p), v) = At(State, p, v)
  BY ViewIs
<1>3. QED
  BY <1>1, <1>2 DEF Seen

\* Memories, and nothing else of them, in a step that goes from one to the other.
LEMMA TwoMemories ==
  ASSUME PInv, PInv'
  PROVE  /\ Memories = [p \in live |-> Seen(p)] /\ Memories' = [p \in live' |-> Seen(p)']
         /\ DOMAIN Memories = live /\ DOMAIN Memories' = live'
         /\ \A p \in live : Memories[p] = Seen(p)
         /\ \A p \in live' : Memories'[p] = Seen(p)'
<1>1. Memories = [p \in live |-> Seen(p)]
  BY MemoriesAre
<1>2. Memories' = [p \in live' |-> Seen(p)']
  <2>1. PInv' => (Memories = [p \in live |-> Seen(p)])'
    BY MemoriesAre, PTL
  <2>2. QED
    BY <2>1
<1> HIDE DEF Memories, Seen
<1>3. QED
  BY <1>1, <1>2

\* Whoever has the same addresses with the same contents sees the same.
LEMMA SameMemory ==
  ASSUME NEW o, NEW u,
         \A x \in Addr : Holds(State', o, x) <=> Holds(State, u, x),
         \A x \in Addr : Holds(State', o, x) => data'[At(State', o, x)] = data[At(State, u, x)]
  PROVE  Seen(o)' = Seen(u)
<1> DEFINE S == {x \in Addr : Holds(State, u, x)}
<1>1. {x \in Addr : Holds(State', o, x)} = S /\ \A x \in S : data'[At(State', o, x)] = data[At(State, u, x)]
  OBVIOUS
<1> HIDE DEF S
<1>2. Seen(o)' = [v \in S |-> data'[At(State', o, v)]]
  BY <1>1 DEF Seen
<1>3. Seen(u) = [v \in S |-> data[At(State, u, v)]]
  BY DEF Seen, S
<1>4. QED
  BY <1>1, <1>2, <1>3

\* The steps of the abstract memories.
LEMMA ToWrite ==
  ASSUME NEW p, DOMAIN Memories' = DOMAIN Memories, DOMAIN Memories'[p] = DOMAIN Memories[p],
         NEW x \in Val, \A v \in DOMAIN Memories[p] : Memories'[p][v] \in {Memories[p][v], x},
         \A o \in DOMAIN Memories \ {p} : Memories'[o] = Memories[o]
  PROVE  Private!Write(p)
BY DEF Private!Write, Private!Others, Memories

\* fork
LEMMA ToFork ==
  ASSUME NEW p, NEW c \in Pid \ DOMAIN Memories, DOMAIN Memories' = DOMAIN Memories \cup {c},
         Memories'[p] = Memories[p], Memories'[c] = Memories[p],
         \A o \in DOMAIN Memories \ {p} : Memories'[o] = Memories[o]
  PROVE  Private!Fork(p)
BY DEF Private!Fork, Private!Others, Memories

\* exit
LEMMA ToExit ==
  ASSUME NEW p, DOMAIN Memories' = DOMAIN Memories \ {p},
         \A o \in DOMAIN Memories \ {p} : Memories'[o] = Memories[o]
  PROVE  Private!Exit(p)
BY DEF Private!Exit, Private!Others, Memories

\* sbrk
LEMMA ToResize ==
  ASSUME NEW p, DOMAIN Memories' = DOMAIN Memories,
         \A v \in DOMAIN Memories[p] \cap DOMAIN Memories'[p] : Memories'[p][v] = Memories[p][v],
         \A o \in DOMAIN Memories \ {p} : Memories'[o] = Memories[o]
  PROVE  Private!Resize(p)
BY DEF Private!Resize, Private!Others, Memories

\* Nobody sees a step that leaves all addresses and contents as they were.
LEMMA Unchanging ==
  ASSUME PInv, PInv', live' = live,
         \A o \in live, x \in Addr : Holds(State', o, x) <=> Holds(State, o, x),
         \A o \in live, x \in Addr : Holds(State', o, x) => data'[At(State', o, x)] = data[At(State, o, x)]
  PROVE  Memories' = Memories
<1>1. \A o \in live : Seen(o)' = Seen(o)
  BY SameMemory
<1>2. Memories = [p \in live |-> Seen(p)] /\ Memories' = [p \in live |-> Seen(p)']
  BY TwoMemories
<1> HIDE DEF Memories, Seen
<1>3. QED
  BY <1>1, <1>2

\* fork.
LEMMA ForkIsFork ==
  ASSUME PInv, PInv', NEW u, NEW vs, NEW c, ForkDone(u, c, vs)
  PROVE  u \in live /\ Private!Fork(u)
<1>1. /\ c \in Pid \ live /\ u \in live /\ live' = live \cup {c}
      /\ \A o \in live', x \in Addr : Holds(State', o, x) <=> Holds(State, IF o = c THEN u ELSE o, x)
      /\ \A o \in live', x \in Addr : Holds(State', o, x) => data'[At(State', o, x)] = data[At(State, IF o = c THEN u ELSE o, x)]
  BY DEF ForkDone
<1>2. ASSUME NEW o \in live PROVE Seen(o)' = Seen(o)
  <2>1. o \in live' /\ (IF o = c THEN u ELSE o) = o
    BY <1>1
  <2>2. QED
    BY <1>1, <2>1, SameMemory
<1>3. Seen(c)' = Seen(u)
  <2>1. c \in live' /\ (IF c = c THEN u ELSE c) = u
    BY <1>1
  <2>2. QED
    BY <1>1, <2>1, SameMemory
<1>4. /\ DOMAIN Memories = live /\ DOMAIN Memories' = live'
      /\ \A p \in live : Memories[p] = Seen(p)
      /\ \A p \in live' : Memories'[p] = Seen(p)'
  BY TwoMemories
<1> HIDE DEF Memories, Seen
<1>5. /\ c \in Pid \ DOMAIN Memories /\ DOMAIN Memories' = DOMAIN Memories \cup {c}
      /\ Memories'[u] = Memories[u] /\ Memories'[c] = Memories[u]
      /\ \A o \in DOMAIN Memories \ {u} : Memories'[o] = Memories[o]
  BY <1>1, <1>2, <1>3, <1>4
<1>6. QED
  BY <1>1, <1>5, ToFork

\* exit.
LEMMA ExitIsExit ==
  ASSUME PInv, PInv', NEW p, ExitDone(p)
  PROVE  p \in live /\ Private!Exit(p)
<1>1. /\ p \in live /\ live' = live \ {p}
      /\ \A o \in live', x \in Addr : Holds(State', o, x) <=> Holds(State, o, x)
      /\ \A o \in live', x \in Addr : Holds(State', o, x) => data'[At(State', o, x)] = data[At(State, o, x)]
  BY DEF ExitDone
<1>2. ASSUME NEW o \in live' PROVE Seen(o)' = Seen(o)
  BY <1>1, SameMemory
<1>3. /\ DOMAIN Memories = live /\ DOMAIN Memories' = live'
      /\ \A o \in live : Memories[o] = Seen(o)
      /\ \A o \in live' : Memories'[o] = Seen(o)'
  BY TwoMemories
<1> HIDE DEF Memories, Seen
<1>4. DOMAIN Memories' = DOMAIN Memories \ {p} /\ \A o \in DOMAIN Memories \ {p} : Memories'[o] = Memories[o]
  BY <1>1, <1>2, <1>3
<1>5. QED
  BY <1>1, <1>4, ToExit

\* sbrk.
LEMMA SbrkIsResize ==
  ASSUME PInv, PInv', NEW p, SbrkDone(p)
  PROVE  p \in live /\ Private!Resize(p)
<1>1. /\ p \in live /\ live' = live
      /\ \A o \in live \ {p} : brk'[o] = brk[o]
      /\ \A o \in live \ {p}, x \in Addr : Holds(State', o, x) <=> Holds(State, o, x)
      /\ \A o \in live, x \in Addr : Holds(State, o, x) /\ Holds(State', o, x) =>
           data'[At(State', o, x)] = data[At(State, o, x)]
  BY DEF SbrkDone
<1>2. ASSUME NEW o \in live \ {p} PROVE Seen(o)' = Seen(o)
  BY <1>1, SameMemory
<1>3. \A v \in DOMAIN Seen(p) \cap DOMAIN Seen(p)' : Seen(p)'[v] = Seen(p)[v]
  BY <1>1 DEF Seen
<1>4. /\ DOMAIN Memories = live /\ DOMAIN Memories' = live'
      /\ \A o \in live : Memories[o] = Seen(o)
      /\ \A o \in live' : Memories'[o] = Seen(o)'
  BY TwoMemories
<1> HIDE DEF Memories, Seen
<1>5. /\ DOMAIN Memories' = DOMAIN Memories
      /\ \A v \in DOMAIN Memories[p] \cap DOMAIN Memories'[p] : Memories'[p][v] = Memories[p][v]
      /\ \A o \in DOMAIN Memories \ {p} : Memories'[o] = Memories[o]
  BY <1>1, <1>2, <1>3, <1>4
<1>6. QED
  BY <1>1, <1>5, ToResize

\* New contents x, in a page of p's own.
LEMMA WriteIsWrite ==
  ASSUME PInv, PInv', NEW p \in live, NEW x \in Val, UNCHANGED <<mem, tab, pd, dirpage, brk, live>>,
         \A q \in Page : data'[q] \in {data[q], x},
         \A q \in Page : data'[q] # data[q] => \A o \in live, y \in Addr : Holds(State, o, y) /\ At(State, o, y) = q => o = p
  PROVE  Private!Write(p)
<1>1. State' = State /\ Shape(State) /\ State.live = live
  BY StateIs DEF State, PInv, Core
<1>2. \A o \in live, y \in Addr : Holds(State, o, y) => At(State, o, y) \in Page
  BY <1>1, SlotIs
<1>3. ASSUME NEW o \in live \ {p} PROVE Seen(o)' = Seen(o)
  BY <1>1, <1>2, SameMemory
<1>4. DOMAIN Seen(p)' = DOMAIN Seen(p) /\ \A v \in DOMAIN Seen(p) : Seen(p)'[v] \in {Seen(p)[v], x}
  BY <1>1, <1>2 DEF Seen
<1>5. /\ DOMAIN Memories = live /\ DOMAIN Memories' = live'
      /\ \A o \in live : Memories[o] = Seen(o)
      /\ \A o \in live' : Memories'[o] = Seen(o)'
  BY TwoMemories
<1> HIDE DEF Memories, Seen
<1>6. /\ DOMAIN Memories' = DOMAIN Memories /\ DOMAIN Memories'[p] = DOMAIN Memories[p]
      /\ \A v \in DOMAIN Memories[p] : Memories'[p][v] \in {Memories[p][v], x}
      /\ \A o \in DOMAIN Memories \ {p} : Memories'[o] = Memories[o]
  BY <1>3, <1>4, <1>5
<1>7. QED
  BY <1>6, ToWrite

\* A page with one reference is its process's only.
LEMMA OwnedAlone ==
  ASSUME PInv, NEW p \in live, NEW v \in Area(State, p), mem.ref[At(State, p, v)] = 1,
         NEW o \in live, NEW y \in Addr, Holds(State, o, y), At(State, o, y) = At(State, p, v)
  PROVE  o = p
<1>1. Core(State) /\ State.live = live /\ State.mem = mem
  BY StateIs DEF PInv
<1>2. y \in Area(State, o)
  BY <1>1 DEF Core, Mapped
<1>3. QED
  BY <1>1, <1>2, LoneIs

\* A program's write, which may fault, ...
LEMMA WriteRefines ==
  ASSUME PInv, PInv', NEW p \in Pid, NEW v, Write(p, v, 1)
  PROVE  (p \in live /\ Private!Write(p)) \/ Memories' = Memories
<1>1. /\ p \in live /\ v \in Pages(p) /\ UNCHANGED <<mem, tab, pd, dirpage, brk, live>>
      /\ \/ data' = [data EXCEPT ![Phys(View(p), v)] = 1] /\ Entry(View(p), v).w
         \/ UNCHANGED data
  BY DEF Write, Runs
<1>2. CASE UNCHANGED data
  <2>1. State' = State
    BY <1>1 DEF State
  <2>2. QED
    BY <1>1, <1>2, <2>1, Unchanging
<1>3. CASE data' = [data EXCEPT ![Phys(View(p), v)] = 1] /\ Entry(View(p), v).w
  <2> DEFINE q == Phys(View(p), v)
  <2>1. v \in Area(State, p) /\ q = At(State, p, v) /\ Slot(State, p, v).w
    BY <1>1, <1>3, ViewIs
  <2>2. mem.ref[q] = 1
    <3>1. WritableOnce(State) /\ State.live = live /\ State.mem = mem
      BY StateIs DEF PInv, Core
    <3>2. QED
      BY <1>1, <2>1, <3>1 DEF WritableOnce
  <2>3. DOMAIN data = Page
    BY DEF PInv, Domains
  <2>4. 1 \in Val
    BY PagesAssumption
  <2> HIDE DEF q
  <2>5. \A z \in Page : data'[z] \in {data[z], 1} /\ (data'[z] # data[z] => z = q)
    BY <1>3, <2>3 DEF q
  <2>6. ASSUME NEW o \in live, NEW y \in Addr, Holds(State, o, y), At(State, o, y) = q PROVE o = p
    BY <1>1, <2>1, <2>2, <2>6, OwnedAlone
  <2>7. \A z \in Page : data'[z] # data[z] => \A o \in live, y \in Addr : Holds(State, o, y) /\ At(State, o, y) = z => o = p
    BY <2>5, <2>6
  <2>8. \A z \in Page : data'[z] \in {data[z], 1}
    BY <2>5
  <2>9. QED
    BY <1>1, <2>4, <2>7, <2>8, WriteIsWrite
<1>4. QED
  BY <1>1, <1>2, <1>3

\* ... and the kernel's, of the answer to a fork, which can not.
LEMMA ReplyRefines ==
  ASSUME PInv, PInv', Reply
  PROVE  \E p \in live : Private!Write(p)
<1> DEFINE p == Head(reply)
           x == IF Len(reply) = 2 THEN 1 ELSE 0
           own == {Phys(View(p), v) : v \in ToSet(buffer)}
<1>1. /\ reply # <<>> /\ UNCHANGED <<mem, tab, pd, dirpage, brk, live>>
      /\ data' = [q \in Page |-> IF \E v \in ToSet(buffer) : q = Phys(View(Head(reply)), v) THEN x ELSE data[q]]
  BY DEF Reply
<1>2. x \in Val
  BY PagesAssumption
<1>3. p \in live /\ BufferOwn(State, p, buffer)
  <2>1. reply \in Seq(live) /\ \A k \in DOMAIN reply : BufferOwn(State, reply[k], buffer)
    BY DEF PInv, Answers
  <2>2. 1 \in DOMAIN reply /\ reply[1] = p /\ p \in live
    BY <1>1, <2>1
  <2>3. QED
    BY <2>1, <2>2
<1>4. State.live = live /\ State.mem = mem
  BY StateIs
<1>5. \A v \in ToSet(buffer) : v \in Area(State, p) /\ mem.ref[At(State, p, v)] = 1 /\ Phys(View(p), v) = At(State, p, v)
  BY <1>3, <1>4, ViewIs DEF BufferOwn, ToSet
<1> HIDE DEF x
<1>6. \A z \in Page : data'[z] \in {data[z], x} /\ (data'[z] # data[z] => \E v \in ToSet(buffer) : z = Phys(View(p), v))
  BY <1>1
<1> HIDE DEF p
<1>7. ASSUME NEW z \in Page, data'[z] # data[z], NEW o \in live, NEW y \in Addr, Holds(State, o, y), At(State, o, y) = z
      PROVE  o = p
  <2>1. PICK v \in ToSet(buffer) : z = Phys(View(p), v)
    BY <1>6, <1>7
  <2>2. v \in Area(State, p) /\ mem.ref[At(State, p, v)] = 1 /\ At(State, o, y) = At(State, p, v)
    BY <1>5, <1>7, <2>1
  <2>3. QED
    BY <1>3, <1>7, <2>2, OwnedAlone
<1>8. \A z \in Page : data'[z] \in {data[z], x}
  BY <1>6
<1>9. Private!Write(p)
  BY <1>1, <1>2, <1>3, <1>7, <1>8, WriteIsWrite
<1>10. QED
  BY <1>3, <1>9

\* Every step is one of the abstract memories, or one that nobody sees.
LEMMA StepIsPrivate ==
  ASSUME BitsFit, AnyHeap = FALSE, Image \in Nat, PInv, PInv', [PagesNext]_pvars
  PROVE  Private!Next \/ Memories' = Memories
<1>1. DOMAIN Memories = live
  BY DEF Memories
<1>2. (\E p \in live : Private!Write(p) \/ Private!Fork(p) \/ Private!Exit(p) \/ Private!Resize(p)) => Private!Next
  BY <1>1 DEF Private!Next, Memories
<1>3. CASE UNCHANGED <<mem, tab, data, pd, dirpage, brk, live>>
  <2>1. State' = State
    BY <1>3 DEF State
  <2>2. QED
    BY <1>3, <2>1, Unchanging
<1>4. CASE \E p \in Pid, v \in Written : Write(p, v, 1)
  BY <1>2, <1>4, WriteRefines
<1>5. CASE FixFault
  <2>1. fixing # 0 => fixing \in live /\ trap[fixing] \in Pages(fixing)
    BY DEF PInv, FaultsKnown
  <2>2. SameSeen(State, data, State', data')
    BY <1>5, <2>1, FixKeeps DEF PInv, Unseen
  <2>3. live' = live
    BY <1>5 DEF FixFault
  <2>4. State.live = live
    BY StateIs
  <2>5. /\ \A o \in live, x \in Addr : Holds(State', o, x) <=> Holds(State, o, x)
        /\ \A o \in live, x \in Addr : Holds(State', o, x) => data'[At(State', o, x)] = data[At(State, o, x)]
    BY <2>2, <2>4 DEF SameSeen
  <2>6. QED
    BY <2>3, <2>5, Unchanging
<1>6. CASE \E u \in Pid, vs \in MessagePages : Fork(u, vs)
  <2>1. PICK u \in Pid, vs \in MessagePages : Fork(u, vs)
    BY <1>6
  <2>2. \E c : ForkDone(u, c, vs)
    BY <2>1, ForkKeeps DEF PInv
  <2>3. QED
    BY <1>2, <2>2, ForkIsFork
<1>7. CASE Reply
  BY <1>2, <1>7, ReplyRefines
<1>8. CASE \E p \in Pid : Exit(p)
  <2>1. PICK p \in Pid : Exit(p)
    BY <1>8
  <2>2. ExitDone(p)
    BY <2>1, ExitKeeps DEF PInv
  <2>3. QED
    BY <1>2, <2>2, ExitIsExit
<1>9. CASE \E p \in Pid, inc \in Increments : Sbrk(p, inc, 0)
  <2>1. PICK p \in Pid, inc \in Increments : Sbrk(p, inc, 0)
    BY <1>9
  <2>2. SbrkDone(p)
    BY <2>1, SbrkKeeps DEF PInv
  <2>3. QED
    BY <1>2, <2>2, SbrkIsResize
<1>10. UNCHANGED pvars \/ TakeFault \/ MissFault => UNCHANGED <<mem, tab, data, pd, dirpage, brk, live>>
  BY DEF pvars, space, TakeFault, MissFault
<1>11. QED
  BY <1>3, <1>4, <1>5, <1>6, <1>7, <1>8, <1>9, <1>10 DEF PagesNext

\* Processes can not tell shared pages from memory of their own.
THEOREM MemoriesArePrivate ==
  ASSUME OrdersApart, AnyHeap = FALSE, Image % Units # 0
  PROVE  PagesSpec => ImplementsPrivateMemory
<1>0. BitsFit
  BY ApartFits
<1>1. PagesInit => Private!Init
  <2> SUFFICES ASSUME PagesInit PROVE Private!Init
    OBVIOUS
  <2>1. live = {1} /\ 1 \in Pid
    BY PagesAssumption DEF PagesInit
  <2>2. QED
    BY <2>1 DEF Private!Init
<1>2. PInv /\ PInv' /\ [PagesNext]_pvars => [Private!Next]_Memories
  BY <1>0, StepIsPrivate, ImageIs
<1>3. Private!Spec <=> Private!Init /\ [][Private!Next]_Memories
  BY DEF Private!Spec, Memories
<1>4. QED
  BY <1>1, <1>2, <1>3, PagesInvariant, PTL DEF PagesSpec, ImplementsPrivateMemory
=============================================================================
