----------------------------- MODULE ProcTable -----------------------------
(***************************************************************************)
(* The process table of OmochaOS and what SysTask does to it: the pages of *)
(* the core space that core/memory.c hands out, the kernel tasks that      *)
(* core_main starts with init_proc, the slots that SysTask gives to TaskMM *)
(* and takes back (modules/systask/systask.c), and the tables that say     *)
(* which process is told of an interrupt.                                  *)
(*                                                                         *)
(* SysTask handles one message at a time, so each request is one step.     *)
(* Its checks end in panic(), which does nothing in a release build: any   *)
(* process may ask for any line, held or not.                              *)
(***************************************************************************)
EXTENDS Integers, FiniteSets, FiniteSetsExt

CONSTANTS
  CorePages,  \* pages between core_space_free_start and core_space_free_end
  TaskCount,  \* kernel modules (modules.h), SysTask first
  WordBits,   \* BITS_PER_BITSET, 32
  Words,      \* proc_bitmap_size
  MaxProcs,   \* bound on the processes
  Line        \* the hardware interrupts that can be asked for

Slot == 0..(WordBits * Words - 1)
Nil  == -1                    \* NULL, for slots
Init1 == 1                    \* pid 1, left to init
SystaskPid == 2
FirstUser  == TaskCount + 2   \* after SysIdle, init and the tasks
NoPage    == 0                \* NULL, for pages
UserStack == CorePages + 1    \* KERN_BASE - PROC_STACK_SIZE, below the kernel

ASSUME ProcTableAssumption ==
  /\ CorePages \in Nat \ {0} /\ TaskCount \in Nat \ {0}
  /\ WordBits \in Nat \ {0} /\ Words \in Nat \ {0} /\ MaxProcs \in Nat
  /\ TaskCount + 2 < WordBits

VARIABLES
  phase,      \* how far core_main and TaskMM's start_up_init are
  freemem,    \* the first free page of the core space
  pagelink,   \* list.next of each free page
  proc_bitmap, \* the set of its bits
  proc_table,  \* next, pid and pstack of each process
  proc_list, proc_count,
  ended,      \* the processes that free_proc is done with, not yet removed
  method,     \* interrupt_methods: the pid of each line, 0 when not avail
  told,       \* interrupt_suscribed: the pid of each line, or 0
  spinning    \* SysTask is in the endless loop of kfree_pages

core  == <<freemem, pagelink>>
procs == <<proc_bitmap, proc_table, proc_list, proc_count, ended>>
lines == <<method, told>>
tvars == <<phase, core, procs, lines, spinning>>

Cleared == [next |-> Nil, pid |-> 0, pstack |-> NoPage]

TableInit ==
  /\ phase = "memory"
  /\ freemem = NoPage
  /\ pagelink = [p \in 1..CorePages |-> NoPage]
  /\ proc_bitmap = {} /\ proc_list = Nil /\ proc_count = 0 /\ ended = {}
  /\ proc_table = [s \in Slot |-> Cleared]
  /\ method = [i \in Line |-> 0] /\ told = [i \in Line |-> 0]
  /\ spinning = FALSE

-----------------------------------------------------------------------------
(* The pages of the core space *)

\* core_init_memory frees every page in order: each page points to the one before.
FreeCorePages ==
  /\ phase = "memory" /\ phase' = "zero"
  /\ freemem' = CorePages
  /\ pagelink' = [p \in 1..CorePages |-> p - 1]
  /\ UNCHANGED <<procs, lines, spinning>>

\* core_main zeroes the core space, the list of its free pages included.
ZeroCoreSpace ==
  /\ phase = "zero" /\ phase' = "drivers"
  /\ pagelink' = [p \in 1..CorePages |-> NoPage]
  /\ UNCHANGED <<freemem, procs, lines, spinning>>

\* core_init_driver sorts in a page that it takes and gives back.
LoadDrivers ==
  /\ phase = "drivers" /\ phase' = "tasks"
  /\ UNCHANGED <<core, procs, lines, spinning>>

-----------------------------------------------------------------------------
(* Slots and the list *)

\* The list as it is walked: the n-th process of it, or Nil after the last.
Nth[n \in 0..Cardinality(Slot)] ==
  IF n = 0 THEN proc_list
  ELSE LET before == Nth[n - 1] IN IF before = Nil THEN Nil ELSE proc_table[before].next

Listed == {Nth[n] : n \in 0..Cardinality(Slot)} \ {Nil}
Ends   == Nth[Cardinality(Slot)] = Nil

LastOf(table) == CHOOSE s \in Listed : table[s].next = Nil

\* Slot s at the end of the list.
Linked(table, s) ==
  IF proc_list = Nil THEN [table EXCEPT ![s].next = Nil]
  ELSE [table EXCEPT ![LastOf(table)].next = s, ![s].next = Nil]

BitsOf(w) == {w * WordBits + b : b \in 0..(WordBits - 1)}

\* find_first_unset_bit: the first 0 of the first word that has one, as a bit
\* of that word whichever word it is; Nil when all are set.
FirstUnset ==
  LET open == {w \in 0..(Words - 1) : ~ BitsOf(w) \subseteq proc_bitmap}
  IN IF open = {} THEN Nil ELSE Min(BitsOf(Min(open)) \ proc_bitmap) - Min(open) * WordBits

\* The pids that core_main asks init_proc for: SysIdle's, SysTask's, then any.
Preferred == CASE proc_count = 0 -> 0 [] proc_count = 1 -> SystaskPid [] OTHER -> Nil

\* init_proc, with the bit of init set after the first.
InitProc ==
  /\ phase = "tasks" /\ proc_count < TaskCount + 1
  /\ LET pid == IF Preferred \in Slot \ proc_bitmap THEN Preferred ELSE FirstUnset
     IN /\ proc_bitmap' = proc_bitmap \cup {pid} \cup {Init1}
        /\ proc_table' = Linked([proc_table EXCEPT ![pid] = [@ EXCEPT !.pid = pid, !.pstack = freemem]], pid)
        /\ proc_list' = IF proc_list = Nil THEN pid ELSE proc_list
  /\ proc_count' = proc_count + 1
  /\ freemem' = IF freemem = NoPage THEN NoPage ELSE pagelink[freemem]
  /\ phase' = IF proc_count = TaskCount THEN "init" ELSE phase
  /\ UNCHANGED <<pagelink, ended, lines, spinning>>

\* start_up_init: TaskMM itself puts init at the end of the list.
StartInit ==
  /\ phase = "init" /\ phase' = "up"
  /\ proc_table' = Linked([proc_table EXCEPT ![Init1] = [@ EXCEPT !.pid = Init1, !.pstack = UserStack]], Init1)
  /\ proc_count' = proc_count + 1
  /\ UNCHANGED <<core, proc_bitmap, proc_list, ended, lines, spinning>>

\* ALLOC_PROC, and what fork_proc puts in the slot.
AllocProc ==
  /\ phase = "up" /\ ~spinning /\ proc_count < MaxProcs
  /\ FirstUnset # Nil
  /\ LET pid == FirstUnset
         new == [Cleared EXCEPT !.pid = pid, !.pstack = UserStack]
     IN /\ proc_bitmap' = proc_bitmap \cup {pid}
        /\ proc_table' = Linked([proc_table EXCEPT ![pid] = new], pid)
  /\ proc_count' = proc_count + 1
  /\ UNCHANGED <<phase, core, proc_list, ended, lines, spinning>>

\* free_proc: TaskMM takes the memory of process s, which asks for nothing more
\* (mutant: its stack is left in the slot).
EndProcKeepsStack(s) ==
  /\ phase = "up" /\ s \in Listed \ ended /\ s >= FirstUser
  /\ ended' = ended \cup {s}
  /\ UNCHANGED <<phase, core, proc_bitmap, proc_table, proc_list, proc_count, lines, spinning>>
EndProc(s) ==
  /\ phase = "up" /\ s \in Listed \ ended /\ s >= FirstUser
  /\ ended' = ended \cup {s}
  /\ proc_table' = [proc_table EXCEPT ![s].pstack = NoPage]
  /\ UNCHANGED <<phase, core, proc_bitmap, proc_list, proc_count, lines, spinning>>

\* The list without s: its predecessor skips it, but the head stays
\* (mutant: the slot is cleared first).
UnlinkedLate(s) ==
  IF s = proc_list THEN proc_table
  ELSE [proc_table EXCEPT ![CHOOSE f \in Listed : proc_table[f].next = s].next = Nil]
Unlinked(s) ==
  IF s = proc_list THEN proc_table
  ELSE [proc_table EXCEPT ![CHOOSE f \in Listed : proc_table[f].next = s].next = proc_table[s].next]

\* The stack of a removed process: only a page of the core space can be freed.
FreesStack(s) ==
  LET p == proc_table[s].pstack IN
  CASE p = NoPage -> UNCHANGED <<freemem, pagelink, spinning>>
    [] p = UserStack -> spinning' = TRUE /\ UNCHANGED <<freemem, pagelink>>
    [] OTHER -> freemem' = p /\ pagelink' = [pagelink EXCEPT ![p] = freemem] /\ UNCHANGED spinning

\* EXIT_PROC of s (mutant: its lines are kept).
ReleasedNone(table, s) == table
Released(table, s) == [i \in Line |-> IF table[i] = s THEN 0 ELSE table[i]]
ExitProc(s) ==
  /\ s \in ended /\ ~spinning
  /\ told' = Released(told, s) /\ method' = Released(method, s)
  /\ proc_bitmap' = proc_bitmap \ {s}
  /\ FreesStack(s)
  /\ proc_count' = proc_count - 1
  /\ proc_table' = [Unlinked(s) EXCEPT ![s] = Cleared]
  /\ ended' = ended \ {s}
  /\ UNCHANGED <<phase, proc_list>>

-----------------------------------------------------------------------------
(* Lines *)

Asks(p) == phase = "up" /\ ~spinning /\ p \in Listed \ (ended \cup {0, SystaskPid})

\* REG_INT_FUNC and UNREG_INT_FUNC: the entry is overwritten, whoever holds it.
SetMethod(p, i) ==
  /\ Asks(p)
  /\ method' \in {[method EXCEPT ![i] = p], [method EXCEPT ![i] = 0]}
  /\ UNCHANGED <<phase, core, procs, spinning, told>>

\* REG_INT_MSG and UNREG_INT_MSG
SetTold(p, i) ==
  /\ Asks(p)
  /\ told' \in {[told EXCEPT ![i] = p], [told EXCEPT ![i] = 0]}
  /\ UNCHANGED <<phase, core, procs, spinning, method>>

TableNext ==
  \/ FreeCorePages \/ ZeroCoreSpace \/ LoadDrivers \/ InitProc \/ StartInit \/ AllocProc
  \/ \E s \in Slot : EndProc(s) \/ ExitProc(s)
  \/ \E p \in Slot, i \in Line : SetMethod(p, i) \/ SetTold(p, i)

TableSpec == TableInit /\ [][TableNext]_tvars

-----------------------------------------------------------------------------
(* Properties *)

\* The scheduler walks proc_list and TaskMM walks it too (exit.c): the list ends,
\* it visits exactly the slots whose bit is set, each under its own pid, and
\* init only once start_up_init has put it there.
SlotsListed ==
  /\ Ends
  /\ Listed = IF phase = "up" THEN proc_bitmap ELSE proc_bitmap \ {Init1}
  /\ \A s \in Listed : proc_table[s].pid = s
  /\ proc_count = Cardinality(Listed)

\* An interrupt never calls a function of a process that is gone, nor sends to
\* its slot: EXIT_PROC has taken it out of both tables ("just a insurance").
LinesHeldByLive == \A i \in Line : {method[i], told[i]} \subseteq Listed \cup {0}

\* EXIT_PROC hands only pages of the core space to kfree_pages, which would
\* otherwise stop SysTask, and every service with it, in an endless loop.
NeverSpins == ~spinning
=============================================================================
