------------------------------- MODULE Pages -------------------------------
(***************************************************************************)
(* The address spaces of OmochaOS's processes: page directories, page      *)
(* tables that fork shares, pages that are copied on write, and the heap   *)
(* (modules/memory: paging.c, fork.c, pagefault.c, exit.c, sbrk.c and      *)
(* memory_init.c), on the pages of the buddy allocator.                    *)
(*                                                                         *)
(* An address is the number v of a virtual page; Pte pages belong to one   *)
(* page table, entry v \div Pte of the page directory.  The program starts *)
(* at page 0, the stack ends at KERN_BASE.  TaskMM's handlers are atomic:  *)
(* it handles one message at a time, and while it does the processes can   *)
(* only use the entries they have.                                         *)
(***************************************************************************)
EXTENDS Buddy

CONSTANTS
  Pid,          \* slots of user processes; 1 is init
  Pte,          \* PTE_PER_PDE
  KernBase,     \* the page of KERN_BASE
  StackPages,   \* PROC_STACK_SIZE / PG_SIZE
  Units,        \* units of program_break in a page
  Segments,     \* the PT_LOAD headers of init.out: a sequence of [va, memsz (units), w]
  Increments,   \* the arguments of sbrk
  AnyHeap,      \* may a process move its break where mem_sbrk goes wrong?
  MessagePages, \* the pages in which a message buffer may lie: one or two
  Val,          \* contents of a page
  Written,      \* bound: the pages that programs write to
  MaxCalls      \* bound: the number of writes, forks, exits and calls of sbrk

ASSUME PagesAssumption ==
  /\ Pid \subseteq Nat \ {0} /\ 1 \in Pid /\ IsFiniteSet(Pid)
  /\ Pte \in Nat \ {0} /\ Units \in Nat \ {0}
  /\ KernBase \in Nat /\ KernBase % Pte = 0 /\ StackPages \in 1..KernBase
  /\ Segments \in Seq([va : Nat, memsz : Nat \ {0}, w : BOOLEAN]) /\ Segments # <<>>
  /\ Increments \subseteq Int /\ AnyHeap \in BOOLEAN /\ MaxCalls \in Nat
  /\ \A vs \in MessagePages :
       vs \in Seq(Nat) /\ Len(vs) \in 1..2 /\ (Len(vs) = 2 => vs[2] = vs[1] + 1)
  /\ {0, 1} \subseteq Val

VARIABLES
  mem,      \* TaskMM's memory_info
  tab,      \* contents of the page tables: entry -> [page, w], present entries only
  data,     \* contents of the other pages
  pd,       \* page directories: index -> page table, present entries only
  dirpage,  \* process.page_dir
  brk,      \* prog_info.program_break
  live,     \* the processes that have not exited
  trying,   \* the page a process can not go on without writing to, or Nowhere
  trap,     \* stack.trap_no: the page of the last fault, or Nowhere
  fault,    \* the process in exception_suscribed_data, or 0
  fixing,   \* the process whose fault TaskMM is handling, or 0
  reply,    \* the processes that TaskMM will answer a fork, one after the other
  buffer,   \* the pages of the message buffer of the process that forked
  calls     \* the number of writes, forks, exits and calls of sbrk

space == <<mem, tab, data, pd, dirpage, brk, live>>
pvars == <<space, trying, trap, fault, fixing, reply, buffer, calls>>

StackStart == KernBase - StackPages
StackTable == StackStart \div Pte   \* the first page table of the stack

\* program_break of the file.
Image ==
  LET ends == {Segments[k].va * Units + Segments[k].memsz : k \in DOMAIN Segments} IN
  CHOOSE e \in ends : \A f \in ends : f <= e

PageUp(a) == (a + Units - 1) \div Units

\* What copy_parent and free_proc go through with program_break b: the pages of the
\* stack and of the program, and their page tables.
AddressesOf(b)   == StackStart..(KernBase - 1) \cup 0..(PageUp(b) - 1)
LastTable(b) == (b \div Units) \div Pte
TablesOf(b)  == StackTable..(KernBase \div Pte - 1) \cup 0..LastTable(b)
-----------------------------------------------------------------------------
(* paging.c, on a record r of memory, contents of pages and one directory *)

Has(r, v)  == v \div Pte \in DOMAIN r.dir /\ v % Pte \in DOMAIN r.tab[r.dir[v \div Pte]]
Entry(r, v) == r.tab[r.dir[v \div Pte]][v % Pte]
Phys(r, v) == Entry(r, v).page

\* f with e at k.
With(f, k, e) == [x \in DOMAIN f \cup {k} |-> IF x = k THEN e ELSE f[x]]

SetEntry(r, v, e) == [r EXCEPT !.tab[r.dir[v \div Pte]] = With(@, v % Pte, e)]

\* create_page_table: only where there is none.
WithTable(r, v) ==
  LET a == PageAlloc(r.mem, 1, "pgtbl") IN
  IF v \div Pte \in DOMAIN r.dir \/ a.page = Nowhere THEN r
  ELSE [mem |-> a.mem, tab |-> [r.tab EXCEPT ![a.page] = <<>>], data |-> r.data,
        dir |-> With(r.dir, v \div Pte, a.page)]

MapPage(r, v, q, w) ==
  LET t == WithTable(r, v) IN
  IF v \div Pte \notin DOMAIN t.dir \/ Has(t, v) THEN t
  ELSE SetEntry(t, v, [page |-> q, w |-> w])

MapPages(r, v, q, n, w) ==
  LET mapped[i \in 0..n] ==
        IF i = 0 THEN r ELSE MapPage(mapped[i - 1], v + i - 1, q + i - 1, w)
  IN mapped[n]

\* decrease_page_ref.
Unref(m, q) == [m EXCEPT !.ref[q] = @ - 1]

ReleaseAlways(m, q) == PageFree(Unref(m, q), q, 1)  \* mutant

\* The same, and page_free of what nobody refers to any more.
Release(m, q) ==
  LET less == Unref(m, q) IN
  IF less.ref[q] = 0 THEN PageFree(less, q, 1) ELSE less

\* The same for f[a] up to f[b - 1], one after the other.
ReleaseAll(m, f, a, b) ==
  LET done[k \in 0..(b - a)] == IF k = 0 THEN m ELSE Release(done[k - 1], f[a + k - 1])
  IN done[b - a]

\* unmap_pages of one page, if it is there.
UnmapPage(r, v) ==
  IF ~Has(r, v) THEN r
  ELSE [mem |-> Release(r.mem, Phys(r, v)),
        tab |-> [r.tab EXCEPT ![r.dir[v \div Pte]] = [i \in DOMAIN @ \ {v % Pte} |-> @[i]]],
        data |-> r.data, dir |-> r.dir]

Times(f, q) == Cardinality({x \in DOMAIN f : f[x] = q})

RetainNew(m, f) ==  \* mutant: a reference that is there is enough
  [m EXCEPT !.ref = [q \in Page |-> IF Times(f, q) > 0 /\ @[q] < 2 THEN @[q] + 1 ELSE @[q]]]

\* increase_page_ref of all pages that f gives.
Retain(m, f) == [m EXCEPT !.ref = [q \in Page |-> @[q] + Times(f, q)]]

\* The state as seen through the directory of p.
View(p) == [mem |-> mem, tab |-> tab, data |-> data, dir |-> pd[p]]
-----------------------------------------------------------------------------
(* Boot: init_memory, init_memory_pool, start_up_init with load_elf_to_proc *)

AtPool  == PageAlloc(InitMemory, Largest, "pool")
AtStack == PageAlloc(AtPool.mem, StackPages, "user")
AtDir   == PageAlloc(AtStack.mem, 1, "pgtbl")

WithStack ==
  MapPages([mem |-> AtDir.mem, tab |-> [q \in Page |-> <<>>], data |-> [q \in Page |-> 0],
            dir |-> <<>>],
           StackStart, AtStack.page, StackPages, TRUE)

SegmentAt(r, s) == PageAlloc(r.mem, PageUp(s.memsz), "user")

Load(r, s) ==
  MapPages([r EXCEPT !.mem = SegmentAt(r, s).mem], s.va, SegmentAt(r, s).page, PageUp(s.memsz), s.w)

Loaded[k \in 0..Len(Segments)] == IF k = 0 THEN WithStack ELSE Load(Loaded[k - 1], Segments[k])

Booted == Loaded[Len(Segments)]

\* The memory is large enough for init, the segments follow one another from page 0
\* on and end below the page tables of the stack.
ASSUME InitFits ==
  /\ Nowhere \notin {AtPool.page, AtStack.page, AtDir.page}
  /\ \A k \in DOMAIN Segments : SegmentAt(Loaded[k - 1], Segments[k]).page # Nowhere
  /\ \A v \in AddressesOf(Image) : Has(Booted, v)
  /\ LastTable(Image) < StackTable

\* page_alloc gives a power of two of pages: what is left over of them is never used.
Spare ==
  {q \in Page : /\ Booted.mem.type[q] = "user"
                /\ \A v \in AddressesOf(Image) : Phys(Booted, v) # q}

PagesInit ==
  /\ mem = Booted.mem
  /\ tab = Booted.tab
  /\ data = Booted.data
  /\ pd = [p \in Pid |-> IF p = 1 THEN Booted.dir ELSE <<>>]
  /\ dirpage = [p \in Pid |-> IF p = 1 THEN AtDir.page ELSE Nowhere]
  /\ brk = [p \in Pid |-> Image]
  /\ live = {1}
  /\ trying = [p \in Pid |-> Nowhere]
  /\ trap = [p \in Pid |-> Nowhere]
  /\ fault = 0 /\ fixing = 0
  /\ reply = <<>> /\ buffer = <<>>
  /\ calls = 0

-----------------------------------------------------------------------------
(* Processes *)

Pages(p) == AddressesOf(brk[p])   \* what p may use

Runs(p)   == p \in live /\ ~Contains(reply, p)
Idle      == fixing = 0 /\ reply = <<>>

Begins    == calls < MaxCalls /\ calls' = calls + 1

\* TaskMM takes a pending exception before any request.
Calls(p)  == /\ Idle /\ fault = 0 /\ Runs(p) /\ trying[p] = Nowhere
             /\ Begins

\* Undefined otherwise: the handlers do not check that an entry is there, ...
Intact(p) ==
  /\ \A v \in Pages(p) : Has(View(p), v)
  /\ LastTable(brk[p]) \in DOMAIN pd[p]

\* ... nor that page_alloc gave them a page: n pages are left.
Left(n) == Cardinality({q \in Page : mem.type[q] \in {"none", "free"}}) >= n

\* A write, which faults on a page that is read-only.  The one slot for a fault is
\* overwritten; whoever loses it executes its instruction, and faults, again.
Write(p, v, x) ==
  /\ Runs(p)
  /\ v \in Pages(p) /\ Has(View(p), v)
  /\ \/ trying[p] = Nowhere /\ Begins
     \/ trying[p] = v /\ UNCHANGED calls
  /\ \/ /\ Entry(View(p), v).w
        /\ data' = [data EXCEPT ![Phys(View(p), v)] = x]
        /\ trying' = [trying EXCEPT ![p] = Nowhere]
        /\ UNCHANGED <<trap, fault>>
     \/ /\ ~Entry(View(p), v).w
        /\ trying' = [trying EXCEPT ![p] = v]
        /\ trap' = [trap EXCEPT ![p] = v]
        /\ fault' = p
        /\ UNCHANGED data
  /\ UNCHANGED <<mem, tab, pd, dirpage, brk, live, fixing, reply, buffer>>

-----------------------------------------------------------------------------
(* TaskMM *)

TakeFault ==
  /\ Idle /\ fault # 0
  /\ fixing' = fault /\ fault' = 0
  /\ UNCHANGED <<space, trying, trap, reply, buffer, calls>>

OwnTableShared(r, v) == r  \* mutant: the copy is entered into the shared table

\* do_page_fault with more than one reference: the caller gets a copy of the page,
\* and of the page table if that is shared as well.
OwnTable(r, v) ==
  LET i == v \div Pte
      a == PageAlloc(r.mem, 1, "pgtbl") IN
  IF r.mem.ref[r.dir[i]] <= 1 THEN r
  ELSE [r EXCEPT !.mem = Unref(a.mem, r.dir[i]),
                 !.tab[a.page] = r.tab[r.dir[i]],
                 !.dir[i] = a.page]

CopyOnWrite(r, v) ==
  LET q == Phys(r, v)
      a == PageAlloc(r.mem, 1, "user")
      s == OwnTable([r EXCEPT !.mem = Unref(a.mem, q), !.data[a.page] = r.data[q]], v) IN
  SetEntry(s, v, [page |-> a.page, w |-> TRUE])

\* What is left in a page that nobody uses is not part of the state.
Cleared(f, m, type, none) == [q \in Page |-> IF m.type[q] = type THEN f[q] ELSE none]

Become(p, r) ==
  /\ mem' = r.mem
  /\ tab' = Cleared(r.tab, r.mem, "pgtbl", <<>>)
  /\ data' = Cleared(r.data, r.mem, "user", 0)
  /\ pd' = [pd EXCEPT ![p] = r.dir]

FixFault ==
  LET p == fixing
      v == trap[p]
      r == View(p)
      n == mem.ref[Phys(r, v)] IN
  /\ fixing # 0
  /\ fixing' = 0
  /\ \/ n = 1 /\ Become(p, SetEntry(r, v, [page |-> Phys(r, v), w |-> TRUE]))
     \/ n > 1 /\ Left(2) /\ Become(p, CopyOnWrite(r, v))
     \/ n < 1 /\ UNCHANGED <<mem, tab, data, pd>>
  /\ UNCHANGED <<dirpage, brk, live, trying, trap, fault, reply, buffer, calls>>

\* An interrupt of the same process has overwritten trap_no since: TaskMM looks up
\* an address that is not a page of the process, and nothing is fixed.
MissFault ==
  /\ fixing # 0
  /\ fixing' = 0
  /\ UNCHANGED <<space, trying, trap, fault, reply, buffer, calls>>

\* The page tables t where the pages of vs have become read-only.
ReadOnly(t, dir, vs) ==
  [q \in Page |-> [k \in DOMAIN t[q] |->
     [page |-> t[q][k].page,
      w    |-> t[q][k].w /\ \A v \in vs : dir[v \div Pte] = q => v % Pte # k]]]

NewDir == PageAlloc(mem, 1, "pgtbl")

\* copy_parent: parent and child share all page tables and pages, which become
\* read-only, ...
Shared(u) ==
  LET tables == [i \in TablesOf(brk[u]) |-> pd[u][i]]
      phys   == [v \in Pages(u) |-> Phys(View(u), v)] IN
  [mem |-> Retain(Retain(NewDir.mem, tables), phys),
   tab |-> ReadOnly(tab, tables, Pages(u)), data |-> data, dir |-> tables]

OwnPageShared(r, v) == r  \* mutant: no page for the answer

\* ... except that the child gets the page with the message buffer, into which the
\* kernel writes the answer without a fault, and a page table of its own.
OwnPage(r, v) ==
  LET q == Phys(r, v)
      a == PageAlloc(r.mem, 1, "user")
      b == PageAlloc(Unref(Unref(a.mem, q), r.dir[v \div Pte]), 1, "pgtbl") IN
  SetEntry([mem |-> b.mem, tab |-> [r.tab EXCEPT ![b.page] = r.tab[r.dir[v \div Pte]]],
            data |-> [r.data EXCEPT ![a.page] = r.data[q]],
            dir |-> [r.dir EXCEPT ![v \div Pte] = b.page]],
           v, [page |-> a.page, w |-> TRUE])

OwnPages(r, vs) ==
  IF Len(vs) = 1 THEN OwnPage(r, vs[1]) ELSE OwnPage(OwnPage(r, vs[1]), vs[2])

\* The caller has the pages of the buffer to itself: it wrote its request there.
Fork(u, vs) ==
  LET c == CHOOSE p \in Pid \ live : \A o \in Pid \ live : p <= o IN
  /\ Calls(u) /\ Intact(u) /\ Left(1 + 2 * Len(vs))
  /\ \A v \in ToSet(vs) : v \in Pages(u) /\ mem.ref[Phys(View(u), v)] = 1
  /\ Pid \ live # {}
  /\ Become(c, OwnPages(Shared(u), vs))
  /\ dirpage' = [dirpage EXCEPT ![c] = NewDir.page]
  /\ brk' = [brk EXCEPT ![c] = brk[u]]
  /\ live' = live \cup {c}
  /\ reply' = <<u, c>> /\ buffer' = vs
  /\ UNCHANGED <<trying, trap, fault, fixing>>

\* The kernel copies the answer, the number of the child for the parent and 0 for
\* the child, into the buffer, whatever the entry says.
Reply ==
  LET x == IF Len(reply) = 2 THEN 1 ELSE 0 IN
  /\ reply # <<>>
  /\ data' = [q \in Page |->
                 IF \E v \in ToSet(buffer) : q = Phys(View(Head(reply)), v) THEN x ELSE data[q]]
  /\ reply' = Tail(reply)
  /\ UNCHANGED <<mem, tab, pd, dirpage, brk, live, trying, trap, fault, fixing, buffer, calls>>

\* free_proc: the pages and page tables of the stack, those of the program except
\* the last table, and the directory.
Exit(p) ==
  LET page    == [v \in Pages(p) |-> Phys(View(p), v)]
      stack   == ReleaseAll(ReleaseAll(mem, page, StackStart, KernBase),
                            pd[p], StackTable, KernBase \div Pte)
      program == ReleaseAll(ReleaseAll(stack, page, 0, PageUp(brk[p])),
                            pd[p], 0, LastTable(brk[p])) IN
  /\ Calls(p) /\ Intact(p)
  /\ p # 1
  /\ mem' = PageFree(program, dirpage[p], 1)
  /\ tab' = Cleared(tab, mem', "pgtbl", <<>>)
  /\ data' = Cleared(data, mem', "user", 0)
  /\ pd' = [pd EXCEPT ![p] = <<>>]
  /\ dirpage' = [dirpage EXCEPT ![p] = Nowhere]
  /\ brk' = [brk EXCEPT ![p] = Image]
  /\ live' = live \ {p}
  /\ trap' = [trap EXCEPT ![p] = Nowhere]
  /\ UNCHANGED <<trying, fault, fixing, reply, buffer>>

Sharing(p) == \E o \in live \ {p}, i \in 0..LastTable(brk[p]) :
                i \in DOMAIN pd[o] /\ i \in DOMAIN pd[p] /\ pd[o][i] = pd[p][i]

\* Where mem_sbrk does what it should: nobody else has the page tables, the break
\* moves by at most a page, and it does not come to rest on the edge of one, where
\* the page above it is mapped although fork and exit leave it out.
HeapSafe(p, inc) ==
  ~Sharing(p) /\ inc \in -Units..Units /\ (brk[p] + inc) % Units # 0

\* mem_sbrk: program_break moves; when that changes its page, one page is freed, the
\* old one, or allocated, the new one, which holds what somebody left in it.  The
\* heap stays clear of the page tables of the stack.
Sbrk(p, inc, x) ==
  LET old == brk[p] \div Units
      new == (brk[p] + inc) \div Units
      a   == PageAlloc(mem, 1, "user") IN
  /\ Calls(p) /\ Intact(p)
  /\ brk[p] + inc >= Image /\ LastTable(brk[p] + inc) < StackTable
  /\ AnyHeap \/ HeapSafe(p, inc)
  /\ brk' = [brk EXCEPT ![p] = @ + inc]
  /\ \/ new = old /\ UNCHANGED <<mem, tab, data, pd>>
     \/ new < old /\ Become(p, UnmapPage(View(p), old))
     \/ /\ new > old /\ Left(2)
        /\ Become(p, MapPages([mem |-> a.mem, tab |-> tab, data |-> [data EXCEPT ![a.page] = x],
                               dir |-> pd[p]], new, a.page, 1, TRUE))
  /\ UNCHANGED <<dirpage, live, trying, trap, fault, fixing, reply, buffer>>

-----------------------------------------------------------------------------

PagesNext ==
  \/ \E p \in Pid, v \in Written : Write(p, v, 1)
  \/ TakeFault \/ FixFault \/ MissFault
  \/ \E u \in Pid, vs \in MessagePages : Fork(u, vs)
  \/ Reply
  \/ \E p \in Pid : Exit(p)
  \/ \E p \in Pid, inc \in Increments : Sbrk(p, inc, 0)

PagesSpec == PagesInit /\ [][PagesNext]_pvars

-----------------------------------------------------------------------------
(* Properties *)

\* What p has at v, and who has the page q.
Mine(p)  == {v \in Pages(p) : Has(View(p), v)}
Users(q) == {u \in live \X (0..(KernBase - 1)) :
               u[2] \in Mine(u[1]) /\ Phys(View(u[1]), u[2]) = q}

\* The reference count of a user page is the number of places at which processes
\* have it, whatever the order of forks, faults and exits: no page is freed under
\* somebody, and none that nobody has stays allocated, but for those init never had.
CountsRight ==
  \A q \in Page \ Spare : mem.type[q] = "user" => mem.ref[q] = Cardinality(Users(q))

\* Whatever the MMU can reach from a process is allocated and used for one thing:
\* its directory is its own, its tables and pages are tables and pages.
ReachableInUse ==
  ~mem.damaged /\ \A p \in live :
    /\ mem.type[dirpage[p]] = "pgtbl" /\ mem.ref[dirpage[p]] = 1
    /\ \A o \in live : /\ dirpage[o] = dirpage[p] => o = p
                       /\ \A i \in DOMAIN pd[p] : pd[p][i] # dirpage[o]
    /\ \A i \in DOMAIN pd[p] : mem.type[pd[p][i]] = "pgtbl" /\ mem.ref[pd[p][i]] > 0
    /\ \A v \in Mine(p) : mem.type[Phys(View(p), v)] = "user"

\* The comment `only caller got the reference' of do_page_fault: a page that a
\* process may write is its own.
WritableIsPrivate ==
  \A p \in live : \A v \in Mine(p) :
    Entry(View(p), v).w => Users(Phys(View(p), v)) = {<<p, v>>}

\* Processes can not tell shared pages from memory of their own.
Private == INSTANCE PrivateMemory WITH
  Process <- Pid, Value <- Val,
  memory <- [p \in live |-> [v \in Mine(p) |-> data[Phys(View(p), v)]]]

ImplementsPrivateMemory == Private!Spec
=============================================================================
