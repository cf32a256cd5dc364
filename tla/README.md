# A verification of OmochaOS

OmochaOS is a small i386 kernel with a microkernel's structure: only the two
system calls `__send_msg` and `__recv_msg` and the interrupt handler run in
ring 0, every service (process table, memory, terminal, disk, files, devices)
is a task in ring 1 that receives messages in a loop, and programs call the
services by a synchronous rendezvous.  This directory holds TLA+ modules that
are translated from `src/kernel`, configurations that check small instances
with TLC, and proofs for TLAPS.  Paths below are relative to `src/kernel`.

## The system

| component | code | state | operations | interacts through | what makes it correct |
|---|---|---|---|---|---|
| message passing | core/syscall_impl.c | per process: status flags, message buffer, list of blocked senders | send_msg, recv_msg from one, anybody or interrupts | system call 0xE9 | exact queues, no missed or doubled rendezvous, senders in order, no circle of senders, the deadlock check ends |
| scheduler | core/process.c | proc_list, proc_running | scheduler(): next runnable process, else halt until an interrupt | called by the calls that block, the timer and faults | whoever executes is runnable |
| interrupts | core/interrupt.c | subscriptions, pending interrupts and exceptions, flags GOTINT and GOTEXC | timer, device interrupt, exception | messages from PROC_INTERRUPT, functions run in ring 0 | nothing pending is forgotten or given to somebody else |
| boot | core/core.c, core/memory.c | list of free core pages | carve the core space, load drivers, init_proc of every task | the process table that SysTask takes over | every task has a stack, the lists are right before anybody walks them |
| SysTask | modules/systask/systask.c | process table, slot bitmap, names, subscriptions | 20 requests | messages, and pointers into the process table that TaskMM writes itself | unique names where the register looks, one reply per request, slots handed out once, nobody who is gone gets an interrupt |
| TaskMM | modules/memory/ | buddy allocator, page references, kmalloc's tree | fork, exit, wait, page fault, allocation | messages; asks SysTask; writes process.status | no lost wakeup, nobody stopped for ever, pages freed once, memory private although shared |
| TaskTTY | modules/tty/ | console cursor, circular keyboard buffer | print, keyboard interrupt | messages; interrupt_kbd fills the buffer in ring 0 | no code lost or made up, letters with their modifiers, the text stands on the screen, a printing client gets its reply |
| TaskHD, AHCI | modules/hd/hd.c, driver/ahci | open counts, partitions, a sector buffer | open, close, read, write | disk interrupts; the loop that took messages is commented out | the bytes and no others, partitions where the tables say, one interrupt per sector |
| TaskFS | modules/fs/fs.c | FAT parameters | file information, read | messages; asks TaskDEV and TaskHD | the bytes read are those of the file, the file is the one that was named |
| TaskDEV | modules/device/dev.c | lists of free and used entries, wait lists | register, forward, update | messages | the answer to a request is its own, what is put off is not forgotten |
| drivers | core/driver.c | sorted list | sort, check, start | at boot | started by level, each once |
| library | lib/libos.c, header/lib/syscall.h | none | printf, query_proc, fork, exit, wait | messages | calls return |

What is hard here: every service is one process that can be preempted between
any two system calls, calls other services while it serves, and blocks when it
answers somebody who is not receiving; interrupts arrive as messages and as
flags; TaskMM and SysTask both write the process table; EXIT_PROC and a few
other requests have no reply, so that their sender runs ahead of them.  The
list of hazards, with lines and the properties aimed at each, is in
PROJECT.json.

## Modules

| module | models | status |
|---|---|---|
| Rendezvous | what a program may rely on: send, receive and interrupts without queues, flags and scheduler | done |
| IPC | the kernel: syscall_impl.c, process.c's scheduler, interrupt.c; implements Rendezvous | done |
| IPC_proofs | theorems about IPC for any number of processes: states, steps, interrupts, the deadlock check; that it implements Rendezvous | done |
| MC_IPC | instances of IPC | done |
| Services | the programs SysIdle, SysTask (names), TaskTTY and clients on top of IPC | done |
| Services_proofs | theorems about Services for any number of clients; that it runs on IPC | done |
| MC_Services | instances of Services | done |
| ProcLife | fork, exit and wait: programs, TaskMM and SysTask on top of Rendezvous | done |
| ProcLife_proofs | theorems about ProcLife for any number of slots | done |
| ProcTable | boot of the core space, init_proc, slots, proc_list, ALLOC_PROC, EXIT_PROC, interrupt lines | done |
| ProcTable_proofs | theorems about ProcTable for any table that one word of the bitmap is enough for | done |
| ListLemmas | what linking and unlinking do to a list without repetition; least numbers | done |
| Buddy | the page allocator of TaskMM, and a client of it | done |
| Buddy_proofs | theorems about Buddy for any MAX_ORDER, any client and any memory for which no two orders share a bit | done |
| Pages | boot of init, page directories and tables, fork's sharing, copy on write, exit, sbrk on top of Buddy; implements PrivateMemory | done |
| Pages_proofs | theorems about Pages for any number of processes and any program, on such a memory; that it implements PrivateMemory | done |
| PrivateMemory | what a process may rely on: memory of its own | done |
| RbTree | lib/rbtree.c, in words of memory, and a client of it | done |
| Kmem | kmalloc and kfree in one pool on top of RbTree | done |
| MC_Memory | Pages, Buddy and RbTree, one at a time | done |
| Keyboard | the circular buffer with its interrupt, kbd_read, modifiers | done |
| Console | kputc_color: cursor, wrapping, tabs, erasing | done |
| DevManager | TaskDEV, programs and drivers on top of Rendezvous | done |
| FatFS | TaskFS: mounting, looking up and reading | done |
| Disk | hd.c: partition tables, reads and writes by sector | done |
| DriverOrder | core_init_driver | done |
| Devices_proofs | theorems about DriverOrder, Console, DevManager and Keyboard for any sizes and numbers | done |
| MC_Devices | ProcTable, DriverOrder, Keyboard, Console, DevManager, FatFS and Disk, one at a time | done |

The modules build on one another as the system does.  `Services` EXTENDS `IPC`:
its programs are the behaviours of IPC's arbitrary running process, restricted
to what their code calls.  `IPC` instantiates `Rendezvous` as its abstract
specification; `ProcLife` EXTENDS `Rendezvous`, so that it may use the simple
form of the calls: IPC is proved to implement it (KernelIsRendezvous).
`DevManager` EXTENDS `Rendezvous` for the same reason.  `Pages` EXTENDS `Buddy`,
`Kmem` EXTENDS `RbTree`.  MC_Memory and MC_Devices hold several parts that do
not interact: a variable `part`, chosen at the start, says which one moves, so
that one run of TLC checks each of them.

### IPC

System calls run in ring 0 behind an interrupt gate: a whole call is one
action.  `status[p]` is the set of flags of `process.status` that matter here;
`msg[p]` the message that `p_msg` points to; `queue[p]` the list that starts at
`quene_head_sending_to_this_process` and goes on by `quene_body`.  A process
number is the place in `proc_list`.  Actions and code:

| action | code |
|---|---|
| Send: Deliver, Enqueue, Halt; DeadLock, WalkEndless | `__send_msg` 57-103, `__is_dead_lock` 29-55 |
| Recv: RecvReflect, RecvGotInt, RecvGotExc, RecvQueued, RecvBlock | `__recv_msg` 105-244 |
| Schedule, IdleStep | `scheduler()`; its scan up to `sti; hlt` is one step, and one step per process after it, because interrupts are on from there |
| Timer | the timer's branch of `interrupt_handler`; a nested tick only counts |
| HwInterrupt | `interrupt_handler` and `send_interrupt_msg` |
| PageFault | the exception branch and `send_exception_msg`; `status &= PROC_STATUS_ERROR` clears all flags |

`panic` and `assert` are empty unless `__DEBUG__` is defined, which
CMakeLists.txt does not do: the constant `Debug` says which build is meant.
`mode` tells executing programs from the scheduler's halt, from a kernel that
panic() has stopped (`halted`) and from one in the endless walk of
`__is_dead_lock` (`hung`); that walk is described by the set of processes it
visits.  A fault without subscriber stops the kernel, as the code does.

### Services

A step of a program is its code up to and including the next system call;
`pc[p]` names that call.  SysTask's loop has REG_PROC, UNREG_PROC with its
missing break, QUERY_PROC, and one request that stands for those which only
read.  TaskTTY registers, then serves TTY_WRITE with a nested PROC_VIR2PHY call
to SysTask, and keyboard interrupts.  Clients call a request of SysTask, or
printf, which looks the terminal up first.  After a lookup that failed,
query_proc either tries again or gives up, whichever the clock says.

Processes are numbered as in IPC; `Pid` gives each one its slot, since the
register scans slots: `__reg_proc` compares with the pids below proc_count only
(`Scanned`).  Pid 1 stays free until init exists, and exits leave more holes, so
that a process beyond is compared with nobody and can get a name that is taken.
NamesUnique is about the processes the scan reaches; services_calls has one
beyond.  `Calls` says what each client calls.

### ProcLife

`flags[p]` holds STOP, WATING and HANGING (the source's spelling); `list` is
the part of `proc_list` that holds user processes; `sending`, `waiting` and
`msg` are Rendezvous's.  TaskMM's handlers are cut into steps at their system
calls.  Its questions to SysTask are part of its own steps, as SysTask answers
in order and touches nothing else meanwhile; EXIT_PROC, which has no reply, is
`reaping`: SysTask's own step, which interleaves with the rest of the handler
until TaskMM's next question.  `Prompt` is the assumption that a program which
has sent a fork request reaches recv_msg before TaskMM handles it; see the
finding below for what happens without it.  `MaxLive` bounds forks only: with
MaxLive above the number of slots, forks fail too.

### ProcTable

`freemem` and `pagelink` are the list of free pages that core/memory.c threads
through the pages themselves; ZeroCoreSpace is the memset of core_main that
comes after it.  `proc_bitmap`, `proc_table`, `proc_list` and `proc_count` are
the source's.  `ended` holds the processes that TaskMM's free_proc is done
with; SysTask removes them in any order.  `method` and `told` are the tables of
ring-0 functions and of subscribers.  panic does nothing in a release build, so
a process may take a line that is held.  A process calls only what the source
lets it: kernel tasks ask for lines, user processes fork and exit.  The model
stays within one word of the bitmap (MaxProcs), see below.

### Buddy, Pages, PrivateMemory

A page is its index; an order's free list is a sequence, the bits of all orders
are one set with the offsets that memory_init.c computes, each rounded down to
bytes as there.  OrdersApart says that no two orders share a bit all the same,
which depends on the size of the memory: it holds in the runs memory and
memory_shared_heap and not in memory_bit_maps (finding 6).  Allocate and Free
are the recursion of buddy.c; removing a block from a list that it is not in
sets `damaged`, where the panic of buddy.c:16 stands.  In Pages an address is the number of a virtual
page, `Pte` of them to a table; `tab` holds only present entries.  AddressesOf
and TablesOf are what copy_parent and free_proc go through.  Booted is what
start_up_init leaves: the stack, then the segments of init.out one by one;
`Spare` are the pages that page_alloc added to a block to make it a power of
two, which nobody ever uses or frees.  TaskMM's
handlers (Fork with copy_parent, Reply, FixFault, Exit, Sbrk) are atomic as it
serves one message at a time; the processes write in between, and a write to a
read-only page goes through the one slot for faults (TakeFault, FixFault).  The
slot is overwritten by the next fault, whose loser executes its instruction
again; MissFault is the handler that finds a trap number an interrupt has
overwritten.  `Runs` keeps a process from running between its fork and its
answer: it waits in recv_msg.

Three guards keep the model where the C code is defined.  `Intact` says that
the entries a handler looks up are there; `Left(n)` that page_alloc will not
return NULL, which nobody checks; and a process that forks has the pages of its
message buffer to itself, as it has just written its request there.  What
page_alloc's caller does not write is 0, or whatever sbrk's page held (`x`).

The refinement maps `memory` to what each live process sees through its
tables.  `AnyHeap` lets a process call sbrk where mem_sbrk goes wrong: while it
shares a page table, by more than a page at a time (only one page is mapped), or
to the very edge of a page (the page above it is mapped, but fork and exit leave
it out).  It is FALSE in the passing run, where HeapSafe excludes these, and
TRUE in memory_shared_heap.

### RbTree, Kmem

Memory is a function from words to values, so that a node, a block's header and
what kmalloc writes may overlap, as they do.  `wild` says that the code read
fields through NULL; what follows depends on what lies at address 0, and the
model stops there.  The halves of each function that differ by L and R are one
operator with a side.  Kmem keeps the pointer arithmetic of kmem.c, bytes added
to pointers to structures.

### Keyboard, Console

Each byte of the controller is one InterruptKbd, between any two steps of the
reader; the reader's `count--` is a load and a store.  `sent` records what was
delivered, with the keys that were down: what the properties compare with.  The
model assumes that the keyboard never gets a whole buffer ahead.  A cell of
Console is a character cell of the frame buffer, below the rows of the logo.

### DevManager, FatFS, Disk, DriverOrder

DevManager's processes are programs that call the macros of dev.h, TaskDEV, and
drivers that follow the protocol of dev.c's comment; a step ends at the next
system call.  `put` is what a driver has put off.  A driver says when it
registers whether it may write directly (Has_Permission); where it may not,
TaskDEV drops a request and tells nobody of an update, as panic returns and the
code that is to be there is missing (dev.c:213, 268).  RequestsAnswered is about the
others.  FatFS reads an external
disk, on which a byte is named by its place; its step ends with the next read
of a sector.  A directory entry has its short name (`name`) and the name the
file was given (`full`); write_8_3_filename works on characters.  `rest` is what
is left of the path: get_file_info looks for the end of a component in 11
characters, cuts a longer one there, and takes what follows for the next
component (Stops, Cut); where the path ends at the eleventh of a directory it
goes on behind the path's end, where the model stops (`wild`).  FindsTheFile is
about paths of components that are Clear: short enough, and without the short
name of another file.  Disk models
hd.c as a library from init_hd on, with an external drive that takes a command,
offers or asks for a sector at a time, and interrupts.  `frames` are the nested
calls of hd_rw: a write reads the last sector first.  DriverOrder starts from
every assignment of levels to declarations in which those of the first two are
the lowest, as in the build.

## Runs

| run | instance | shows |
|---|---|---|
| ipc_debug | 4 processes, arbitrary calls, keyboard and disk interrupt with one subscriber, page faults of one process, Debug | types, exact queues, the running process is runnable, no missed rendezvous, no circle of senders, flags tell the truth about what is pending, handover, order of senders, and IPC implements Rendezvous |
| services_calls | SysIdle, SysTask, TaskTTY, 2 clients that print and register, 1 that registers and whose pid the register does not reach, all with one name; keyboard, release build | replies match requests, names stay unique among the pids that are compared, the deadlock check ends |
| services_live | the same with two printing clients, fair | every printf returns if interrupts stop; every pending interrupt is delivered |
| proclife_calls | 3 slots, everything init and its descendants can do, slots reused and running out, Prompt | TaskMM never blocks on a process that can not receive, no lost wakeup, only exited processes stay stopped, exit does not return, only exited processes are freed, fork and wait return |
| memory | pages: 3 processes, 2 entries a table, 8 virtual pages, 4 calls; buddy: 64 of 70 pages, orders 0 to 3 (largest block 8), 3 blocks held; rbtree: every order of insertions and removals of 7 keys | reference counts are the number of users, what the MMU reaches is in use, writable pages are private, blocks partition memory and coalesce, the tree stays a search tree (and red-black until a removal), and Pages implements PrivateMemory |
| devices | table: 3 tasks, 8-bit words, 1 line; kbd: a buffer of 8, 5 keys, 3 moves; dev: 2 programs, 2 drivers, each with or without permission; fs: 2 FAT sectors, scattered files, names of up to 14 characters; order: 5 drivers, 4 levels; disk: a chain of 3 partition tables; screen: 2 x 2 cells of text, 6 characters | the process list is exact, lines belong to the living, SysTask never spins; bytes in order, letters with their modifiers; answers match requests, what is put off is kept, requests are answered unless the driver has no permission; reads and look-ups find the file; drivers start in order; transfers and partitions are exact; the text stands on the screen |
| ipc_two_subscribers | 3 processes, two with an interrupt each | violation: GotIntHasInterrupt |
| proclife_orphans | as proclife_calls | violation: OrphansAdopted |
| proclife_preempted | as proclife_calls without Prompt | violation: MMNotStuck |
| memory_shared_heap | as memory, sbrk with shared tables | violation: ImplementsPrivateMemory |
| memory_bit_maps | buddy: 32 of 40 pages, orders 0 to 3, 3 blocks held | violation: ListsIntact |
| memory_kmem | one pool, blocks of 16 bytes, 6 calls | violation: HeadersIntact |

Bounds.  Four processes are the least in which a circle of senders can miss
the caller, a receiver can pick the middle of three waiting senders, and a
subscriber, a handler of faults and a faulting process differ.  The message
body has one value in ipc_debug; what it carries is copied, never examined, by
the kernel, and the sender tells messages apart.  The VIEW of ipc_debug leaves
out the buffer of a process that is not blocked (it is written before it is
read) and excData while it is not available.  Two clients that print contend
for every server, and a third has a pid that the register does not reach;
TaskTTY and a client contend for SysTask.  Three slots in
ProcLife have a process with a child and a parent at once, siblings, and the
reuse of the slot of either.

Three processes in Pages are a page with three users, of which one writes, one
exits and one has a child; four calls (MaxCalls) are two forks, an exit and a
write, or a fork, a write by each side and a move of the heap.  Two page tables
of a program and the stack's own make every case of create_page_table; the heap
crosses a page with each step of sbrk.  Four orders with three blocks held give
splits and merges of every length; 64 of 70 pages, the rest being the allocator's
tables, are a memory whose maps memory_init.c rounds down and that do not overlap all
the same; 32 of 40 one whose maps do; blocks that a client takes are of all sizes
up to one too large.  Seven keys reach every case of rb_insert and
rb_remove and trees of height four.  Eight places with at most three moves wrap
the keyboard's buffer; the keys are one of each class (plain, modifier, E0,
PrintScreen's four bytes, Pause).  In FatFS a cluster has two sectors of two
bytes, so that each read and look-up crosses sectors, clusters and sectors of
the FAT.  In Disk the chain has three tables, of which the last is found only
if each link counts from the extended partition; a transfer has up to three
sectors and a tail of either length.  MaxOps ends
memory_kmem, because the code may loop for ever over damaged memory.

Deadlock checking is off where the system may stop: panic(), and programs that
make no further call or all wait for children that do not exit.

Fairness.  The timer ticks (the HPET or 8253 runs for ever) and a scan goes on
after a halt: weak fairness of Timer and IdleStep.  A program that runs again
and again reaches its next call: strong fairness of each program's step, since
a tick may come in front of every call but time slices are long.  In ProcLife
the scheduler and the queue of TaskMM are below the model: weak fairness of
steps that stay enabled, strong fairness for taking a given sender from
TaskMM's queue, which Handover, NoOvertaking and CallsReturn of the kernel's
runs justify.  No program is assumed to make any call.  In DevManager the steps of
TaskDEV and of the drivers are fair in the same sense (DevFairness); programs are
fair only once they have called, and RequestsAnswered is about the drivers that
put nothing off: when a driver calls back is up to its device.

## Findings

1. **Interrupts of others** (ipc_two_subscribers).  recv_msg takes the lowest
   available interrupt of the whole system.  A process with GOTINT can take
   another's and leave it with the flag and nothing pending; a release build
   then delivers interrupt 0.
2. **Orphans** (proclife_orphans).  When the parent of an exiting process
   waits, SysTask has cleared the slot before mem_exit_proc looks for the
   children of `proc->pid`: they are not given to init, and whoever has parent
   0 is.
3. **A preempted fork stops TaskMM** (proclife_preempted).  fork_proc stops
   the parent even if it has not reached recv_msg; TaskMM's blocking answer
   then waits for a process that only TaskMM could let go on.
4. **sbrk with shared tables** (memory_shared_heap).  After a fork parent and
   child use the same page tables; mem_sbrk changes an entry without looking at
   the table's reference count, so the other process's heap changes too.
5. **kmalloc's strides** (memory_kmem).  kmem.c adds byte sizes to pointers to
   16-byte structures, so that what is left of a block is entered 16 times as far
   away as it is: the memset of insert_to_pool (kmem.c:40, called at 170) clears
   the header of a block in use, and kfree finds its cookie gone.
6. **Bit maps that overlap** (memory_bit_maps).  memory_init.c:156 gives each
   order whole bytes of buddy_map, rounded down, although its comment says one
   bit for each pair.  The last pairs of an order then share bits with the first
   pairs of the next, on a machine with 512 MB too (MAX_ORDER 11, say 130048
   pages: order 8 needs 252 bits and has 248).  page_free takes the buddy of a
   block for free while it is in use: it unlinks it from a list it is not in,
   merges the two, and memory in use is handed out again.

Seen while modelling, without a run of its own; where it can happen within the
bounds it is part of the passing models:

- Processes.  A fork without a free slot answers its caller but leaves it
  stopped (`ForkFailed`).  A process that faults has all its flags cleared.
  EXIT_PROC does not clear the subscription of exceptions; removing the head of
  proc_list leaves it in place (nobody removes SysIdle).  find_first_unset_bit
  forgets `i*32` (bitset.h:33): with every slot of the first word in use it
  hands out one in use; the runs stay below.  core.c:89 clears the core space
  after memory.c threaded the free list through it, so that every process
  after SysIdle has NULL for its kernel stack (ZeroCoreSpace).
- Names.  A process whose pid is not below proc_count can get a name that is taken
  (Services above).  UNREG_PROC has no break (systask.c:70): SysTask goes on into
  QUERY_PROC with the message it has just sent back and sends to itself; a
  release build blocks it for good, and the next sender to it hangs the kernel in
  `__is_dead_lock`.  Nothing in the tree calls unreg_proc; NobodySendsToItself
  has this as its hypothesis.
- Interrupt numbers.  interrupt.c:184 lets one vector past the tables through.
- Pages.  fork gives a page and a table of its own to the child for the message
  buffer only, because the kernel writes there without a fault; a buffer across
  two pages leaks a table (the run's MessagePages has one page, the theorems
  allow both).  exit.c:65 leaves out
  the last page table that fork.c:37 counts, so a table leaks per exit.
  trap_no, from which TaskMM reads the fault, is overwritten by an interrupt
  (MissFault).  page_alloc's NULL is not checked.  sbrk by more than a page maps
  or frees one only, and a break on the edge of a page leaves a page mapped that
  fork does not share and exit does not free (HeapSafe).
- The tree.  rb_remove hands rb_remove_fixup a wrong parent, so that colors
  break or the code reads through NULL: RedBlackTree promises the colors only
  up to the first removal.  rb_search_upper reads through NULL on an empty tree.
- The keyboard.  A lost `count--` leaves a key in the buffer until the next
  one; Pause is not recognised and its bytes stay; peek_circular_buffer
  subtracts the wrong way round at the end; 45 is NumLock also behind E1;
  num_lock is set from caps_lock; set_leds waits for an acknowledgement that
  the interrupt takes.
- The screen.  DEL draws the glyph behind the font; erasing at the start of a
  line goes to the end of the row above, and at the top into the logo.
- TaskDEV.  A driver that sends DEV_UPD while TaskDEV sends to it makes both
  wait for ever; a request for a driver without Has_Permission_To_Write_Directly is
  neither passed on nor answered, and what such a driver puts off is not answered
  either (dev.c:213, 268: panic returns); dev.c:105 clears `next` after linking, so that an update is found for the
  last device only (UpdatesFound of DevManager states the contrary);
  DEV_INFO has no answer; DEV_Unregister sends DEV_REG; init_impl_list writes
  one past its allocation (dev.c:84).  No driver of the tree registers.
- TaskFS.  fs.c:382 reads the first sector of a cluster whatever the offset is:
  ReadsTheFile leaves such offsets out.  An offset behind the end underflows;
  an end marker ends only the inner loop, so that stale entries of the next
  sector are found; the tail of a long name is always ~1, so that files whose
  names begin alike can not be told apart; of a component only 11 characters are
  looked at (fs.c:313): a file with a longer name is not found, and a last
  directory of eleven is followed behind the end of the path (Clear).
  TaskHD does not serve, so that TaskFS waits in HD_dev_open.
- The disk.  hd_identify(1) writes behind the one-entry hd_info and waits for
  ever without a second drive; panics do not stop ring 1, and one sector behind
  a partition may be read; partition 5 is the first logical one by way of
  primary[5]; a count of 0 leaves an interrupt and more than 256 sectors wrap;
  a close without an open wraps open_cnt.  The model's callers do none of it.
- Drivers.  The sort never compares with the head of the list; it is right as
  the first two drivers of the link are never loaded.

## Proofs

### The kernel

IPC_proofs proves, for every N, every set of interrupts and subscriptions,
every set of faulting processes, every payload and both builds:

| theorem | states |
|---|---|
| TypeCorrect | `Spec => []TypeOK` |
| KernelCorrect | `Spec => []KernelInv`, the inductive invariant |
| QueuesAreExact | `Spec => []QueueInv` |
| RunningMayRun | `Spec => []RunningIsRunnable` |
| NobodyMissesRendezvous | `Spec => []NoMissedRendezvous` |
| NoCircleOfSenders | `Spec => []NoSendCycle` |
| WaitersOwnTheirBuffer | `Spec => []WaitingBuffer`, the second invariant of the refinement |
| KernelIsRendezvous | `Spec => ImplementsRendezvous` |

The assumption is IPCAssumption: N is positive, interrupts are numbered from 1,
subscribers are processes.  The types are inductive alone.  The other three
are proved together as `KernelInv == TypeOK /\ QueueInv /\ RunningIsRunnable /\
NoMissedRendezvous`, because each needs the others: that the queue gains a
process once needs that the caller is not blocked (RunningIsRunnable); that a
receive which blocks misses nobody needs that whoever is blocked on it is in
its queue (QueueInv); that the process taken from a queue was a sender, so that
it becomes runnable and stays consistent with its receiver, needs both.  The
proof has a lemma per change of the queues (EnqueueInv, DequeueInv), three
frame lemmas for steps that leave a part of the state alone, one lemma on
RemoveAt, and then one lemma per action.

NoCircleOfSenders: a step can close a circle only by making the caller a
sender, in Enqueue.  The walk of __is_dead_lock from the receiver r then did not
meet the caller, so there is a set T that holds r, is closed under "the receiver
of a sender", and does not hold the caller.  For a circle S that the step
closes, the members of S that are in T sent before the step and wait for one
another, so they are a circle already unless there are none; but r is one.

KernelIsRendezvous: a process is `sending` or `waiting` when its flag says so,
and the buffers are the same.  One lemma per abstract action says when a change
of these three is that action, one lemma per kernel action brings it into that
form, and StepRefines puts them together.  KernelInv is what makes the steps
match: RunningIsRunnable gives the abstract guard that a caller is free, and
QueueInv that what recv_msg finds in its list is exactly what is on offer
(nothing found in the list means nothing on offer, and what is found is a
blocked sender to this process).  The step of an interrupt needs one fact more,
WaitingBuffer: msg_interrupt writes the sender and the data but not the receiver
of the message, so the receiver must be right before.

The second half of IPC_proofs is about single steps and about interrupts:

| theorem | states | hypothesis |
|---|---|---|
| MessagesHandedOver | `Spec => Handover` | |
| ServedInOrder | `Spec => NoOvertaking` | |
| PendingTruthful | `Spec => []PendingIsFlagged` | OneProcessHyp |
| NoFalseInterrupt | `Spec => []GotIntHasInterrupt` | OneProcessHyp |
| WalkEnds | `Spec => []DeadLockCheckEnds` | Debug |

Handover and NoOvertaking follow from KernelInv, action by action: a queue
changes in two places, of which Enqueue appends and RecvQueued takes one element
out without moving the others (RemoveAtProperties of ListLemmas).

OneProcessHyp says that the interrupts that come all belong to one and the same
process, which never faults; that each line has a subscriber of its own would not
be enough.  That is so in the booted system once TaskHD has identified
its drives: it subscribes the disk's interrupt (hd.c:165) and then causes no
more of them, as its loop serves nobody, so that the keyboard's, which TaskTTY
has, are the only ones.  Before that there are two subscribers, one for each
line, and the run ipc_two_subscribers shows that both properties fail then, because recv_msg takes
the lowest interrupt of the whole system: the hypothesis can not be dropped.
Under it the proof carries `GOTINT is set <=> something is pending for p`
through the steps.

The walk of __is_dead_lock does not end when it runs into a circle that does not
hold the caller.  NoCircleOfSenders excludes that in a debug build, where
panic(DEADLOCK) and the assertion against sending to oneself stop whoever would
close a circle: hence `Debug`.  A release build, which the run services_calls checks, needs to
know the programs, and is the matter of ServicesWalkEnds below.

### The services

Services_proofs proves, for any number of clients:

| theorem | states | hypothesis |
|---|---|---|
| ServicesRunOnKernel | `ServicesSpec => Spec` | |
| ServicesCorrect | `ServicesSpec => []ServicesInv`, the inductive invariant | |
| CallsGetTheirReply | `ServicesSpec => []RepliesMatch` | |
| NoNameTwiceInReach | `ServicesSpec => []NamesUnique` | |
| ServicesNeverStop | the kernel is never stopped by an assertion, a panic or an endless walk | no unreg_proc |
| ServicesWalkEnds | `ServicesSpec => []DeadLockCheckEnds`, in either build | no unreg_proc |
| NobodySendsToItself | `ServicesSpec => []NoSelfSend` | no unreg_proc |

ServicesRunOnKernel makes every theorem about IPC one about the services; the
proof has a lemma per program that names the system call its step makes.  The
last three have the hypothesis `UNREG_PROC \notin Ops /\ OneProcessHyp`:
nothing in the tree calls unreg_proc, whose missing break makes SysTask send to
itself.  ServicesInv says of each process where it is, what it is
blocked on and what is in its buffer: a client in a call waits for the server it
has asked and for no other, its request is in its buffer until the server has
taken it, and a server that answers has the request of exactly the client that
still waits.  NoNameTwiceInReach is about the processes whose pid is below
proc_count, the only ones that `__reg_proc` looks at.  Another one escapes the
check, and shares its name with whoever registers it later.

### Processes

ProcLife_proofs proves, for any number of slots and any bound on forks:

| theorem | states | hypothesis |
|---|---|---|
| LifeCorrect | `LifeSpec => []LifeInv`, the inductive invariant | |
| ExitIsFinal | `LifeSpec => []ExitNeverReturns` | |
| WakeupsNotLost | `LifeSpec => []NoLostWakeup` | |
| OnlyExitedAreFreed | `LifeSpec => OnlyExitedFreed` | |
| TaskMMNotStuck | `LifeSpec => []MMNotStuck` | Prompt |
| StoppedForAReason | `LifeSpec => []OnlyExitedStopped` | Prompt |

LifeInv has eight parts: the shape of the list and of the slots (Shape,
EmptySlots), where each program is (Programs), what its flags say about it
(FlagsRight), what holds between the steps of fork (ForkInProgress) and of every
other handler of TaskMM (TaskMMRight), what SysTask still has to remove
(ReapingRight), and that nobody waits for a child that hangs unreported
(WakeupsKept).  The parts need one another: a wakeup is lost only if TaskMM
looks at a parent whose flags are not those of its call, and the flags are right
only if a slot is not reused while EXIT_PROC is under way.  `Prompt` is the
constant described above; proclife_preempted shows both properties fail
without it.

### The process table

ProcTable_proofs proves, for any size of the table, any number of kernel tasks
and any core space, on the hypothesis OneWord:

| theorem | states |
|---|---|
| TableCorrect | `TableSpec => []TableInv`, the inductive invariant |
| ListIsTheBitmap | `TableSpec => []SlotsListed` |
| NoDeadHolder | `TableSpec => []LinesHeldByLive` |
| KfreeReturns | `TableSpec => []NeverSpins` |

OneWord, `MaxProcs <= WordBits`, says that no more processes are alive than one
word of the bitmap has bits (32).  It can not be dropped: find_first_unset_bit
forgets `i*32` (bitset.h:33), so that with a full first word SysTask hands out a
slot that is in use.  TableInv says that some sequence of slots without
repetition is what the next fields link (Listing), and that it has the elements
of the bitmap.  WalkFollows shows that the walk then visits this sequence and
ends; the library's induction can not be used for it, so it takes the least
place where the walk would differ (LeastNumber).  LinkKeeps and UnlinkKeeps are
about Linked and Unlinked, whose CHOOSE finds the last process and the
predecessor.  EXIT_PROC never gets the head, pid 0, as only user processes exit,
and never a stack, as free_proc has emptied pstack (EndedHaveNoStack): that is
why kfree_pages is not reached.

### The keyboard

Devices_proofs proves of the keyboard, for every Size of at least two and every sequence of
presses and releases, however many:

| theorem | states |
|---|---|
| RingCorrect | `KbdSpec => []KbdInv`, the inductive invariant of the ring |
| KeysArriveInOrder | `KbdSpec => []BytesInOrder` |
| ModifiersCorrect | `KbdSpec => []LettersInv`, the inductive invariant of kbd_read |
| LettersArriveAsTyped | `KbdSpec => []LettersAsTyped` |

The assumption is KeyboardAssumption.  BytesInOrder speaks of what kbd_read has
already read; that the next byte it reads is the right one needs RingHolds: the
places from the tail on hold what was delivered and not read, and the head is
as many places behind the tail.  An interrupt writes the place behind the last
of them, which is none of them as long as fewer than Size are pending
(PlacesApart); a read moves every place by one (PlaceAfterNext).  CountBelow
bounds `count` and the value that the reader has loaded, whichever decrements
are lost.

Letters need more than order.  kbd_read looks at one code after the other and
decides by each whether there is one more, so that a single key taken apart at
the wrong place would give all that follow the wrong modifiers.  LettersInv adds
to KbdInv that the bytes delivered, with those that the controller still has,
are made of words (Word: the twelve sequences that kbd_read takes for one key
each; Pause is four of them, none of which changes a modifier), and that a
kbd_read starts at the end of a word and is inside of the next one, wherever the
interrupts fall and whatever `count` says.  So between two calls its modifiers
are those that were down at the end of the last word, and DownNow relates the
keys that are down to the end of the stream.  The set of the ends
of words is carried along as a witness: a key that moves adds those of what it
sends (WordAppended), so that no induction over the stream is needed.

### The drivers and the screen

Devices_proofs proves, for any number of declarations and any levels of which
the first two are the lowest, and for a screen of any size, any font and any
text:

| theorem | states |
|---|---|
| OrderCorrect | `OrderSpec => []OrderInv`, the inductive invariant |
| DriversStartInOrder | `OrderSpec => []StartedInOrder` |
| ScreenCorrect | `ConsoleSpec => []ScreenInv`, the inductive invariant |
| TextStands | `ConsoleSpec => []ShowsTheText` |

The assumptions are OrderAssumption (there are two drivers, levels are numbers)
and ConsoleAssumption (the screen holds at least one character below the logo).
OrderInv says that the list is in order and holds each declaration so far once,
and that the first two, which core_main's link puts first, are no higher than
any.  That is why the sort is right although it never compares with the head:
one of these two is not the head, so that whatever is inserted finds a place
behind the head (BehindFound).  ScreenInv says that the cursor is
on the screen and that the line stands in the cells before it.  It speaks of
cells by their numbers in reading order (Number, Where), which turns wrapping,
tabs and erasing across rows into adding and subtracting (CellOfNumber).

### TaskDEV

Devices_proofs also proves, for any number of programs and drivers, whichever
drivers put requests off and for how long:

| theorem | states |
|---|---|
| DevCorrect | `DevSpec => []DevInv`, the inductive invariant |
| AnswersAreRight | `DevSpec => []AnswersMatch` |
| PutOffStays | `DevSpec => []PutOffKept` |

The assumption is DevAssumption: programs, drivers and TaskDEV are different
processes, the drivers are finitely many, and 0, "anybody" and the interrupt are
no processes.  TaskDEV has one message buffer and one
`job`, while any number of requests are under way, and the answer to a program
carries nothing but the program's number.  DevInv therefore says who waits for
what at every point between a call and its answer:

- what is at TaskDEV, at the driver TaskDEV has asked, or in a wait list is the
  request of a program that awaits its answer (Await), and is in one of these
  places only, once (WaitLists, DevHandles, DevAsks); it may be in none, as TaskDEV
  drops what is for a driver without permission;
- the driver that TaskDEV has asked holds the request or has its answer on
  offer, and no other driver does (IsAsked, DriverGot, DriverSend);
- an update is only for a request that its driver has put off and that stands,
  or is about to stand, in the list of this driver's device (IsUpdate, PutBy).

AnswersMatch alone is not inductive: a second update for the same request would
give a program the answer to its next one.  That there is none needs that what
is put off is in a list once (Once) and that each driver has one device
(OneEach), which in turn needs that a driver registers once.  The proof has a
lemma per action, frame lemmas for what the action leaves alone (DevicesStay,
WaitListsStay, ProgramStays, DriverStays), and ListChanges for a change of one
wait list.

### The page allocator

Buddy_proofs proves, for every MaxOrder, every Usable that is a multiple of the
largest block, and a client that takes blocks of any number of pages and gives
back any of them at any time, on the hypothesis OrdersApart:

| theorem | states |
|---|---|
| BuddyInvariant | `BuddySpec => []BuddyInv`, the inductive invariant |
| BuddyPartition | `BuddySpec => []BlocksPartition` |

OrdersApart says that no two orders share a bit of buddy_map.  memory_init.c does
not ensure it: it is a matter of the size of the memory, and finding 6 is what
happens on others, so that it can not be dropped.  The proofs use it as BitsFit:
an order has at least as many bits as the memory handed out has pairs of that
order, so that its bits end before the next order's begin (ApartFits, SameBit).  BlocksPartition alone is not inductive, as what merges is decided
by the bits.  Sound(mem, used) relates the three tables: no page is in two free
blocks, or in a free block and in use; every page is in one or the other; blocks
are aligned (Arena); and a pair's bit is set just when one half of it is free
and the other is not.

Allocate and Free are recursions over the orders.  tlapm sees a recursive
function as CHOOSE f : f = [n |-> ... f ...], so that nothing is known of it
until some such f is shown to exist.  Recursion does that once for primitive
recursion over Nat, with the least place where none exists (LeastNumber), as the
library's induction theorems take an operator.  AllocateGives then goes down
from the first order that has a block (BlockTaken at each), FreeGivesBack goes
up as long as the buddy is free (BlockPutBack at the end).  Both are stated for
one call on any Sound memory: what a caller of page_alloc and page_free needs.

### The address spaces

Pages_proofs proves, for any number of processes, any size of page
tables and stack, any segments of init.out and any writes, forks, faults, exits
and calls of sbrk in any order:

| theorem | states |
|---|---|
| PagesInvariant | `PagesSpec => []PInv`, the inductive invariant |
| CountsStayRight | `PagesSpec => []CountsRight` |
| ReachableStaysInUse | `PagesSpec => []ReachableInUse` |
| WritableStaysPrivate | `PagesSpec => []WritableIsPrivate` |
| MemoriesArePrivate | `PagesSpec => ImplementsPrivateMemory` |

The assumptions are BuddyAssumption, PagesAssumption and InitFits: the machine
has memory for init, whose segments begin at page 0, follow one another and end
below the page tables of the stack.  The hypotheses of all five are

- OrdersApart, as for the page allocator: MemOK, which all the rest stands on, is
  not kept where it fails;
- `AnyHeap = FALSE`: without it the refinement fails (memory_shared_heap);
- `Image % Units # 0`: init's program does not end on the edge of a page, where
  mem_sbrk would take the page behind it for the current one.

PInv has four parts.  `Core` is about the address spaces, as a record of the
variables, so that it can be stated for the states inside a handler too:

- the page allocator's memory is right (MemOK, from Buddy_proofs), and
  directories and tables are what they should be (Shape);
- a process has mapped exactly the pages that copy_parent and free_proc go
  through (Mapped): without it one of them would read an entry that is not there;
- a directory is one process's and nobody's table (DirsOwn); tables are in use
  with at least one reference for each process that has them, more where exit
  has left one behind (TablesUsed); a table stands at one index, and is shared
  only where fork shared it and the break has not moved since (TablesApart);
- pages are in use and none of Spare (PagesUsed, SpareKept), and have as many
  references as there are entries that lead to them (Counted); what is writable
  has one (WritableOnce).

`Domains` are the types of the rest; `FaultsKnown` says that a fault in the slot
or under way is of a living process at a page of its own, `Answers` that who
waits for the answer to a fork has the buffer's pages to itself.

CountsRight alone is not inductive: two processes count one entry in a table
they share as two users, so that a step that changes a table is right only if
its users are known.  For each kind of step a lemma about Core says what it
does to the users of pages and tables: an entry made writable (MadeWritable), a
page copied with its table (OwnCopied), everything shared (AllShared), a process
gone (Exited), a heap moved (HeapShrunk, HeapGrown).  The second half shows that
what the code does step by step (CopyOnWriteIs, OwnPageIs, SharedIs, GivenUp for
the two walks of free_proc, MapPagesUnfolds, LoadedUnfolds for boot) is one of
these; the loops are recursive functions, unfolded by Recursion of Buddy_proofs.
The fork is AllShared followed by an OwnCopied for each page of the buffer, for
which the allocator must still have room (RoomLess).

For the refinement, `Seen(p)` is what p reads at its addresses.  FixFault and
the forks' copies change no Seen; a Write changes one place of one process, by
WritableIsPrivate; Reply writes past the write bit, into pages that Answers says
are nobody else's.

### What is only model-checked

- RbTree and Kmem: they declare RECURSIVE operators, which the prover does not
  take, and what RedBlackTree promises (any tree, any order of keys) is an
  induction over the tree.
- Liveness (CallsReturn, InterruptsDelivered, ForkReturns, WaitReturns,
  RequestsAnswered): the prover handles neither fairness nor ENABLED.
- FatFS and Disk (ReadsTheFile, FindsTheFile, DiskExact), whose properties say
  what a recursive definition computes for every disk.

The theorems about ProcTable, Services, Buddy and Pages stop at the hypotheses given there;
what happens outside of them is in the findings.

## What could come next

All modules are done, and every safety property of the kernel, the services,
the processes, the process table, the drivers, the page allocator and the
address spaces that a run checks is proved.  Left are the steps of Disk and FatFS
that no recursion is in, and an allocation that fails: Pages stops where the
unchecked NULL of page_alloc would be used.

## Not modelled

- VFS (a stub), the boot loader's tables, descriptor tables and the vector
  table: straight-line set-up.
- The drivers of driver/ (8253, 8259A, APIC, HPET, ACPI, PCI, AHCI) except as
  sources of interrupts: sequences of register accesses and tables that they
  parse, with no state that anybody else uses.
- execve and the ELF loader behind it: TaskMM's case does nothing but answer.
  What init.out's loading leaves behind is in Pages.
- kmalloc with several pools and their merging: memory_kmem shows that one pool
  does not keep its blocks.
- DEV_UNREG, which nothing can send, and DEV_LIST, which formats.
- SysTask's queries of the environment, SWITCHPRIV and subscriptions of
  exceptions, which copy a value each.
- String routines, printf's and kprintf's formatting, the pixels of a glyph,
  the scan code table, and the value that a system call returns (no caller uses
  it).
