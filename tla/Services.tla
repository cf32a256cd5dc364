------------------------------ MODULE Services ------------------------------
(***************************************************************************)
(* The programs that talk to one another over the kernel of IPC: SysIdle,  *)
(* SysTask with the register of process names, TaskTTY that serves the     *)
(* keyboard interrupt and printf, and client programs that use the         *)
(* wrappers of modules/systask.h and printf of lib/libos.c.                *)
(*                                                                         *)
(* A step of a program is the code up to and including its next system     *)
(* call; it can be preempted before and after each.  pc[p] is the call     *)
(* that p makes next.  A message's body is its type on the way to a server *)
(* and its result on the way back.  The requests that only read what no    *)
(* other program here changes (QUERY_ENV, GET_PROC, ...) behave as         *)
(* GET_TICKS does.  Processes are numbered in the order of proc_list, as   *)
(* in IPC; their pids, which only the register looks at, are Pid.          *)
(***************************************************************************)
EXTENDS IPC

CONSTANTS
  TTY,     \* TaskTTY
  Client,  \* the other programs
  Pid,     \* the slot of each process in proc_table
  Ops,     \* what clients call: requests to SysTask, and TTY_WRITE for printf
  Calls    \* which of them each client calls

SysIdle == 0
SysTask == 1

GET_TICKS    == 1
REG_PROC     == 2
UNREG_PROC   == 3
QUERY_PROC   == 4
PROC_VIR2PHY == 15
TTY_WRITE    == 30  \* 3 in tty.h, as UNREG_PROC, but it goes to another server

Failure == -1

ASSUME ServicesAssumption ==
  /\ Proc = {SysIdle, SysTask, TTY} \cup Client
  /\ TTY \notin {SysIdle, SysTask} \cup Client
  /\ {SysIdle, SysTask} \cap Client = {}
  /\ Pid \in [Proc -> Nat] /\ Pid[SysIdle] = 0 /\ Pid[SysTask] = 2
  /\ \A p, q \in Proc : Pid[p] = Pid[q] => p = q
  /\ Ops \subseteq {GET_TICKS, REG_PROC, UNREG_PROC, TTY_WRITE}
  /\ Calls \in [Client -> SUBSET Ops]
  /\ Subscriber \in [Irq -> {SysIdle, TTY}]
  /\ Payload = {Failure, GET_TICKS, REG_PROC, UNREG_PROC, QUERY_PROC,
                PROC_VIR2PHY, TTY_WRITE} \cup Proc

\* The name that a program registers; those of the clients collide.
NameOf(p) == IF p = TTY THEN "TaskTTY" ELSE "app"

VARIABLES
  pc,    \* where each program is
  name,  \* proc_table[p].name
  peer   \* the process that a program's call or handler is about

programs == <<pc, name, peer>>
svars    == <<vars, programs>>

ServicesInit ==
  /\ Init
  /\ pc = [p \in Proc |-> IF p = SysTask THEN "boot"
                          ELSE IF p = TTY THEN "reg"
                          ELSE IF p = SysIdle THEN "recv" ELSE "idle"]
  /\ name = [p \in Proc |-> ""]
  /\ peer = [p \in Proc |-> SysTask]

At(p, l)   == mode = "user" /\ running = p /\ pc[p] = l
Goto(p, l) == pc' = [pc EXCEPT ![p] = l]
Got(p)     == msg[p]

-----------------------------------------------------------------------------
\* SysIdle reflects whatever is sent to it.
SysIdleStep ==
  /\ \/ At(SysIdle, "recv") /\ Recv(PROC_ANY) /\ Goto(SysIdle, "back")
     \/ At(SysIdle, "back") /\ Send(Got(SysIdle).sender, Got(SysIdle).body) /\ Goto(SysIdle, "recv")
  /\ UNCHANGED <<name, peer>>

\* The slots that __reg_proc looks at: as many as there are processes.  The pids
\* of the processes have holes, pid 1 until init exists and those of processes
\* that are gone, so that some process may have a pid that is never looked at.
Scanned(q) == Pid[q] < N

\* Mutant: compares only with the processes before p.
TakenBefore(p) == \E q \in Proc : q < p /\ Scanned(q) /\ name[q] = NameOf(p)

\* __reg_proc refuses a name that it finds in the slot of another process.
Taken(p)  == \E q \in Proc \ {p} : Scanned(q) /\ name[q] = NameOf(p)
RegProc(p) == IF Taken(p) THEN UNCHANGED name ELSE name' = [name EXCEPT ![p] = NameOf(p)]

\* __query_proc: the first process of the list with the name, or 0.
Holders == {p \in Proc : name[p] = "TaskTTY"}
Queried == IF Holders = {} THEN 0 ELSE CHOOSE p \in Holders : \A q \in Holders : p <= q

\* Mutant: REG_PROC falls through as well.
SysTaskHandleNoBreak ==
  LET from == Got(SysTask).sender
      type == Got(SysTask).body IN
  /\ \/ /\ At(SysTask, "handle") /\ type = REG_PROC
        /\ RegProc(from)
        /\ Send(from, IF Taken(from) THEN Failure ELSE 0)
        /\ Goto(SysTask, "fall")
     \/ /\ \/ At(SysTask, "fall")
           \/ At(SysTask, "handle") /\ type # REG_PROC
        /\ Send(from, Queried)
        /\ Goto(SysTask, "recv")
        /\ UNCHANGED name
  /\ UNCHANGED peer

\* One round of the loop of SysTask.  After UNREG_PROC there is no break: the
\* code goes on as for QUERY_PROC, with the reply it has just sent as the request.
SysTaskHandle ==
  LET from == Got(SysTask).sender
      type == Got(SysTask).body IN
  /\ \/ /\ At(SysTask, "handle") /\ type = REG_PROC
        /\ RegProc(from)
        /\ Send(from, IF Taken(from) THEN Failure ELSE 0)
        /\ Goto(SysTask, "recv")
     \/ /\ At(SysTask, "handle") /\ type = UNREG_PROC
        /\ name' = [name EXCEPT ![from] = ""]
        /\ Send(from, 0)
        /\ Goto(SysTask, "fall")
     \/ /\ \/ At(SysTask, "fall")
           \/ At(SysTask, "handle") /\ type = QUERY_PROC
        /\ Send(from, Queried)
        /\ Goto(SysTask, "recv")
        /\ UNCHANGED name
     \/ /\ At(SysTask, "handle") /\ type \in {GET_TICKS, PROC_VIR2PHY}
        /\ Send(from, 0)
        /\ Goto(SysTask, "recv")
        /\ UNCHANGED name
  /\ UNCHANGED peer

SysTaskStep ==
  \/ At(SysTask, "boot") /\ Recv(0) /\ Goto(SysTask, "recv") /\ UNCHANGED <<name, peer>>
  \/ At(SysTask, "recv") /\ Recv(PROC_ANY) /\ Goto(SysTask, "handle") /\ UNCHANGED <<name, peer>>
  \/ SysTaskHandle

\* TaskTTY registers and serves.  To print it must ask SysTask for the physical
\* address of the caller's text; the request it is serving waits in its own msg.
TTYHandle ==
  /\ At(TTY, "handle")
  /\ \/ /\ Got(TTY).sender # PROC_INTERRUPT /\ Got(TTY).body = TTY_WRITE
        /\ peer' = [peer EXCEPT ![TTY] = Got(TTY).sender]
        /\ Send(SysTask, PROC_VIR2PHY)
        /\ Goto(TTY, "phys")
     \/ /\ Got(TTY).sender = PROC_INTERRUPT
        /\ Recv(PROC_ANY)
        /\ UNCHANGED <<pc, peer>>

\* Mutant: awaits the reply of SysTask from anybody.
TTYStepAny ==
  /\ \/ /\ \/ At(TTY, "reg") /\ Send(SysTask, REG_PROC) /\ Goto(TTY, "boot")
           \/ At(TTY, "boot") /\ Recv(SysTask) /\ Goto(TTY, "recv")
           \/ At(TTY, "recv") /\ Recv(PROC_ANY) /\ Goto(TTY, "handle")
           \/ At(TTY, "phys") /\ Recv(PROC_ANY) /\ Goto(TTY, "back")
           \/ At(TTY, "back") /\ Send(peer[TTY], TTY_WRITE) /\ Goto(TTY, "recv")
        /\ UNCHANGED peer
     \/ TTYHandle
  /\ UNCHANGED name

TTYStep ==
  /\ \/ /\ \/ At(TTY, "reg") /\ Send(SysTask, REG_PROC) /\ Goto(TTY, "boot")
           \/ At(TTY, "boot") /\ Recv(SysTask) /\ Goto(TTY, "recv")
           \/ At(TTY, "recv") /\ Recv(PROC_ANY) /\ Goto(TTY, "handle")
           \/ At(TTY, "phys") /\ Recv(SysTask) /\ Goto(TTY, "back")
           \/ At(TTY, "back") /\ Send(peer[TTY], TTY_WRITE) /\ Goto(TTY, "recv")
        /\ UNCHANGED peer
     \/ TTYHandle
  /\ UNCHANGED name

\* A client asks SysTask something, or calls printf, which looks TaskTTY up,
\* retrying until it is there or the time is over, and has it print.
ClientStart(c) ==
  /\ At(c, "idle")
  /\ \E op \in Calls[c] : IF op = TTY_WRITE
                     THEN Send(SysTask, QUERY_PROC) /\ Goto(c, "query")
                     ELSE Send(SysTask, op) /\ Goto(c, "call")
  /\ peer' = [peer EXCEPT ![c] = SysTask]

ClientFound(c) ==
  /\ At(c, "found")
  /\ \/ /\ Got(c).body # 0
        /\ peer' = [peer EXCEPT ![c] = Got(c).body]
        /\ Send(Got(c).body, TTY_WRITE)
        /\ Goto(c, "call")
     \/ /\ Got(c).body = 0
        /\ Send(SysTask, QUERY_PROC)
        /\ Goto(c, "query")
        /\ UNCHANGED peer
     \/ /\ Got(c).body = 0
        /\ Goto(c, "idle")
        /\ UNCHANGED <<vars, peer>>

ClientStep(c) ==
  /\ \/ ClientStart(c)
     \/ ClientFound(c)
     \/ At(c, "query") /\ Recv(SysTask) /\ Goto(c, "found") /\ UNCHANGED peer
     \/ At(c, "call") /\ Recv(peer[c]) /\ Goto(c, "done") /\ UNCHANGED peer
     \/ At(c, "done") /\ Goto(c, "idle") /\ UNCHANGED <<vars, peer>>
  /\ UNCHANGED name

-----------------------------------------------------------------------------

KernelStep == (Timer \/ IdleStep \/ \E i \in Irq : HwInterrupt(i)) /\ UNCHANGED programs

ServicesNext ==
  \/ SysIdleStep
  \/ SysTaskStep
  \/ TTYStep
  \/ \E c \in Client : ClientStep(c)
  \/ KernelStep

\* The timer keeps ticking, the scan of the scheduler goes on after each hlt,
\* and a program that runs again and again gets to its next system call: a tick
\* is long, but there may be one just before the call.
Fairness ==
  /\ WF_svars(Timer /\ UNCHANGED programs)
  /\ WF_svars(IdleStep /\ UNCHANGED programs)
  /\ SF_svars(SysIdleStep)
  /\ SF_svars(SysTaskStep)
  /\ SF_svars(TTYStep)
  /\ \A c \in Client : SF_svars(ClientStep(c))

ServicesSpec == ServicesInit /\ [][ServicesNext]_svars /\ Fairness

-----------------------------------------------------------------------------
(* Properties *)

Returned(p) == Runnable(status, p)

\* A call gets its own reply: neither a keyboard interrupt nor another client's
\* request gets into the receive of a call that waits for its server, also when
\* the server is itself in the middle of serving somebody.
RepliesMatch ==
  /\ \A c \in Client : pc[c] = "done" /\ Returned(c) => Got(c).sender = peer[c]
  /\ \A c \in Client : pc[c] = "found" /\ Returned(c) => Got(c).sender = SysTask
  /\ pc[TTY] = "back" /\ Returned(TTY) => Got(TTY).sender = SysTask

\* Of two processes that hold the same name one has a pid that __reg_proc does not
\* look at, whatever the order of the requests.  That process escapes: once it holds
\* a name, anybody may take it too, and query_proc then finds the one that stands
\* first in proc_list.  Where the pids have no hole every name is unique.
NamesUnique == \A p, q \in Proc :
  Scanned(p) /\ Scanned(q) /\ name[p] = name[q] /\ name[p] # "" => p = q

\* assert(msg->receiver != msg->sender) of __send_msg: no program sends to itself.
NoSelfSend == \A p \in Proc : Sending(p) => msg[p].receiver # p

\* Every call of every client comes back, whatever the interleaving: nobody is
\* starved by the scheduler, overtaken for ever in a queue or left in a rendezvous.
\* recv_msg prefers an interrupt to the senders in the queue, so this needs the
\* interrupts to leave TaskTTY some time: it is claimed if they stop for good.
Interrupted  == \E i \in Irq : HwInterrupt(i)
InterruptsStop == <>[][~Interrupted]_svars
CallsReturn == InterruptsStop => \A c \in Client : pc[c] # "idle" ~> pc[c] = "idle"

\* A pending keyboard interrupt is delivered.
InterruptsDelivered == \A p \in Proc : "GOTINT" \in status[p] ~> "GOTINT" \notin status[p]
=============================================================================
