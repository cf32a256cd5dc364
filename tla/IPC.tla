-------------------------------- MODULE IPC --------------------------------
(***************************************************************************)
(* The OmochaOS kernel core: the synchronous message passing of            *)
(* core/syscall_impl.c, the round-robin scheduler of core/process.c, and   *)
(* the interrupt and exception messages of core/interrupt.c.               *)
(*                                                                         *)
(* System calls run in ring 0 behind an interrupt gate, so a whole call is *)
(* one action of the process proc_running.  What interleaves is the choice *)
(* of the next process, the timer, the device interrupts and page faults.  *)
(* User programs are arbitrary here: a running process may make any call.  *)
(*                                                                         *)
(* Abstractions: processes are numbered in the order of proc_list; p_msg   *)
(* is the one message buffer msg[p] of its process; a message's type,      *)
(* major and data are one value `body'; the list that starts at            *)
(* quene_head_sending_to_this_process and is linked by quene_body is       *)
(* queue[p].  The flags RUNNING, READY, WATING and HANGING are left out:   *)
(* the scheduler ignores them.                                             *)
(***************************************************************************)
EXTENDS Integers, SequencesExt

CONSTANTS
  N,           \* length of proc_list; process 0 is SysIdle
  Irq,         \* the hardware interrupts that occur
  Subscriber,  \* interrupt_suscribed: Irq -> Proc, 0 is nobody
  ExcHandler,  \* exception_suscribed[EXCEPTION_PF], 0 is nobody
  Faulters,    \* the processes whose pages may fault
  Payload,     \* the bodies of the messages that programs send
  Debug        \* is __DEBUG__ defined, i.e. do panic and assert stop the kernel?

Proc == 0 .. N - 1

ASSUME IPCAssumption ==
  /\ N \in Nat \ {0}
  /\ Irq \subseteq Nat \ {0}
  /\ Subscriber \in [Irq -> Proc]
  /\ ExcHandler \in Proc
  /\ Faulters \subseteq Proc
  /\ Debug \in BOOLEAN

PROC_ANY       == N
PROC_INTERRUPT == N + 1
Source         == Proc \cup {PROC_ANY, PROC_INTERRUPT}

Message == [sender : Source, receiver : Proc, body : Nat \cup Payload]
Flag    == {"SENDING", "RECEIVING", "GOTINT", "GOTEXC"}

VARIABLES
  status,   \* process.status, as the set of its flags
  msg,      \* the message buffer of each process
  queue,    \* the senders blocked on each process, oldest first
  avail,    \* the i with interrupt_suscribed_data[i].avail
  excAvail, \* exception_suscribed_data[EXCEPTION_PF].avail
  excData,  \* ... and its data: the process that faulted
  running,  \* proc_running
  mode      \* "user"   : proc_running executes outside the kernel
            \* "idle"   : the kernel is in the sti; hlt loop of scheduler()
            \* "halted" : panic() or an unsubscribed exception stopped it
            \* "hung"   : __is_dead_lock never returns

vars == <<status, msg, queue, avail, excAvail, excData, running, mode>>

TypeOK ==
  /\ status \in [Proc -> SUBSET Flag]
  /\ msg \in [Proc -> Message]
  /\ queue \in [Proc -> Seq(Proc)]
  /\ avail \subseteq Irq
  /\ excAvail \in BOOLEAN
  /\ excData \in Proc
  /\ running \in Proc
  /\ mode \in {"user", "idle", "halted", "hung"}

Init ==
  /\ status = [p \in Proc |-> {}]
  /\ msg = [p \in Proc |-> [sender |-> p, receiver |-> p, body |-> 0]]
  /\ queue = [p \in Proc |-> <<>>]
  /\ avail = {}
  /\ excAvail = FALSE
  /\ excData = 0
  /\ running = 0
  /\ mode = "user"

-----------------------------------------------------------------------------
(* Scheduling *)

Sending(p)   == "SENDING" \in status[p]
Receiving(p) == "RECEIVING" \in status[p]

Runnable(st, p) == st[p] \cap {"SENDING", "RECEIVING"} = {}

\* Mutant: the scan restarts at the head of the list.
DistanceFromHead(p, q) == q

\* How many list steps lead from p to q, wrapping at the end of proc_list.
Distance(p, q) == IF q > p THEN q - p ELSE q - p + N

\* scheduler() called with the flags st: the next runnable process of the list;
\* when the scan is back at proc_running it enables interrupts and halts.
Schedule(st) ==
  LET ready == {q \in Proc \ {running} : Runnable(st, q)} IN
  \/ /\ ready = {}
     /\ mode' = "idle"
     /\ UNCHANGED running
  \/ \E q \in ready :
       /\ \A o \in ready : Distance(running, q) <= Distance(running, o)
       /\ running' = q
       /\ mode' = "user"

\* Mutant: no wrap at the end of the list.
IdleStepNoWrap ==
  /\ mode = "idle"
  /\ \/ Runnable(status, running) /\ mode' = "user" /\ UNCHANGED running
     \/ ~Runnable(status, running) /\ running' = running + 1 /\ UNCHANGED mode
  /\ UNCHANGED <<status, msg, queue, avail, excAvail, excData>>

\* The rest of the scan: one process per step, since interrupts are on by now.
IdleStep ==
  /\ mode = "idle"
  /\ \/ /\ Runnable(status, running)
        /\ mode' = "user"
        /\ UNCHANGED running
     \/ /\ ~Runnable(status, running)
        /\ running' = IF running = N - 1 THEN 0 ELSE running + 1
        /\ UNCHANGED mode
  /\ UNCHANGED <<status, msg, queue, avail, excAvail, excData>>

\* A timer tick outside the kernel preempts proc_running.  A tick that nests in
\* the kernel's halt only counts beats.
Timer ==
  /\ mode = "user"
  /\ Schedule(status)
  /\ UNCHANGED <<status, msg, queue, avail, excAvail, excData>>

-----------------------------------------------------------------------------
(* Sending *)

\* The processes that __is_dead_lock visits from dest on: it follows the
\* receivers of blocked senders.
Closed(S)       == \A p \in S : Sending(p) => msg[p].receiver \in S
SendChain(dest) == {q \in Proc : \A S \in SUBSET Proc : dest \in S /\ Closed(S) => q \in S}

\* Mutant: looks only one step ahead.
DeadLockOneStep(src, dest) == src # dest /\ Sending(dest) /\ msg[dest].receiver = src

\* Its three outcomes: the chain comes back to src, it turns in a circle that
\* misses src, or it ends at a process that is not sending.
DeadLock(src, dest)  == src # dest /\ src \in SendChain(dest)
WalkEndless(dest)    == \A q \in SendChain(dest) : Sending(q)

Waits(r, s) == Receiving(r) /\ msg[r].sender \in {PROC_ANY, s}

\* Mutant: releases the receiver without the copy into its buffer.
DeliverNoCopy(r, m) ==
  /\ msg' = [msg EXCEPT ![running] = m]
  /\ status' = [status EXCEPT ![r] = @ \ {"RECEIVING"}]
  /\ UNCHANGED <<queue, running, mode>>

\* __send_msg: r is waiting for this message, which is copied into its buffer.
Deliver(r, m) ==
  /\ msg' = [msg EXCEPT ![running] = m, ![r] = m]
  /\ status' = [status EXCEPT ![r] = @ \ {"RECEIVING"}]
  /\ UNCHANGED <<queue, running, mode>>

\* Mutant: the new sender becomes the head of the queue.
EnqueueAtHead(r, m) ==
  /\ msg' = [msg EXCEPT ![running] = m]
  /\ status' = [status EXCEPT ![running] = @ \cup {"SENDING"}]
  /\ queue' = [queue EXCEPT ![r] = <<running>> \o @]
  /\ Schedule(status')

\* __send_msg: r is not ready, the sender joins the end of its queue.
Enqueue(r, m) ==
  /\ msg' = [msg EXCEPT ![running] = m]
  /\ status' = [status EXCEPT ![running] = @ \cup {"SENDING"}]
  /\ queue' = [queue EXCEPT ![r] = Append(@, running)]
  /\ Schedule(status')

\* A failed panic() or assert() of a debug build, or a fatal exception.
Halt == mode' = "halted" /\ UNCHANGED <<status, msg, queue, running>>

Send(r, d) ==
  LET m == [sender |-> running, receiver |-> r, body |-> d] IN
  /\ mode = "user"
  /\ \/ /\ WalkEndless(r)
        /\ mode' = "hung"
        /\ UNCHANGED <<status, msg, queue, running>>
     \/ /\ ~WalkEndless(r)
        /\ Debug
        /\ DeadLock(running, r) \/ r = running
        /\ Halt
     \/ /\ ~WalkEndless(r)
        /\ Debug => ~(DeadLock(running, r) \/ r = running)
        /\ IF Waits(r, running) THEN Deliver(r, m) ELSE Enqueue(r, m)
  /\ UNCHANGED <<avail, excAvail, excData>>

-----------------------------------------------------------------------------
(* Receiving *)

\* Mutant: a process that accepts anybody is not told of pending interrupts.
FromInterruptOnly(from) == from = PROC_INTERRUPT

FromInterrupt(from) == from \in {PROC_INTERRUPT, PROC_ANY}

\* recv_from 0 is answered by the call itself: it tells a program its own pid.
RecvReflect(from) ==
  /\ from = 0
  /\ msg' = [msg EXCEPT ![running] = [@ EXCEPT !.receiver = running, !.body = 0]]
  /\ UNCHANGED <<status, queue, avail, excAvail, excData, running, mode>>

\* Mutant: the flag is cleared although a second interrupt is available.
RecvGotIntClears(from) ==
  /\ FromInterrupt(from)
  /\ "GOTINT" \in status[running]
  /\ \E irq \in avail :
       /\ msg' = [msg EXCEPT ![running] = [sender |-> PROC_INTERRUPT,
                                 receiver |-> running, body |-> irq]]
       /\ avail' = avail \ {irq}
  /\ status' = [status EXCEPT ![running] = @ \ {"GOTINT"}]
  /\ UNCHANGED <<queue, excAvail, excData, running, mode>>

\* A pending interrupt: the lowest one that is available, whoever it is for; the
\* flag stays set when a second one is available.  Without any it is a panic,
\* which a release build ignores, to return interrupt number 0.
RecvGotInt(from) ==
  /\ FromInterrupt(from)
  /\ "GOTINT" \in status[running]
  /\ UNCHANGED <<queue, excAvail, excData, running>>
  /\ \/ /\ avail = {} /\ Debug
        /\ mode' = "halted"
        /\ UNCHANGED <<status, msg, avail>>
     \/ /\ avail # {} \/ ~Debug
        /\ \E irq \in IF avail = {} THEN {0} ELSE avail :
             /\ \A i \in avail : irq <= i
             /\ msg' = [msg EXCEPT ![running] = [sender |-> PROC_INTERRUPT,
                                       receiver |-> running, body |-> irq]]
             /\ avail' = avail \ {irq}
             /\ status' = IF avail' = {}
                          THEN [status EXCEPT ![running] = @ \ {"GOTINT"}]
                          ELSE status
             /\ UNCHANGED mode

\* A pending page fault, the only exception anybody subscribes.
RecvGotExc(from) ==
  /\ FromInterrupt(from)
  /\ "GOTINT" \notin status[running]
  /\ "GOTEXC" \in status[running]
  /\ UNCHANGED <<queue, avail, excData, running>>
  /\ \/ /\ ~excAvail /\ Debug
        /\ mode' = "halted"
        /\ UNCHANGED <<status, msg, excAvail>>
     \/ /\ excAvail \/ ~Debug
        /\ msg' = [msg EXCEPT ![running] = [sender |-> PROC_INTERRUPT, receiver |-> running,
                                  body |-> IF excAvail THEN excData ELSE 0]]
        /\ excAvail' = FALSE
        /\ status' = [status EXCEPT ![running] = @ \ {"GOTEXC"}]
        /\ UNCHANGED mode

\* Mutant: looks at the head of the queue only.
CandidatesHead(from) ==
  {k \in DOMAIN queue[running] : k = 1 /\ from \in {PROC_ANY, queue[running][k]}}

\* The position in the queue of the sender that recv_msg(from) takes, if any.
Candidates(from) ==
  {k \in DOMAIN queue[running] :
     IF from = PROC_ANY
     THEN k = 1
     ELSE /\ queue[running][k] = from
          /\ Sending(from)
          /\ msg[from].receiver = running}

NothingPending(from) ==
  FromInterrupt(from) => status[running] \cap {"GOTINT", "GOTEXC"} = {}

\* Mutant: whoever is taken, it is the head that leaves the queue.
RecvQueuedPopsHead(from) ==
  /\ from # 0
  /\ NothingPending(from)
  /\ \E k \in Candidates(from) :
       LET s == queue[running][k] IN
       /\ msg' = [msg EXCEPT ![running] = msg[s]]
       /\ status' = [status EXCEPT ![s] = @ \ {"SENDING"}]
       /\ queue' = [queue EXCEPT ![running] = Tail(@)]
  /\ UNCHANGED <<avail, excAvail, excData, running, mode>>

RecvQueued(from) ==
  /\ from # 0
  /\ NothingPending(from)
  /\ \E k \in Candidates(from) :
       LET s == queue[running][k] IN
       /\ msg' = [msg EXCEPT ![running] = msg[s]]
       /\ status' = [status EXCEPT ![s] = @ \ {"SENDING"}]
       /\ queue' = [queue EXCEPT ![running] = RemoveAt(@, k)]
  /\ UNCHANGED <<avail, excAvail, excData, running, mode>>

\* Mutant: returns to the caller it has just blocked.
RecvBlockNoSchedule(from) ==
  /\ from # 0
  /\ NothingPending(from)
  /\ Candidates(from) = {}
  /\ msg' = [msg EXCEPT ![running] = [sender |-> from, receiver |-> running, body |-> 0]]
  /\ status' = [status EXCEPT ![running] = @ \cup {"RECEIVING"}]
  /\ UNCHANGED <<queue, avail, excAvail, excData, running, mode>>

RecvBlock(from) ==
  /\ from # 0
  /\ NothingPending(from)
  /\ Candidates(from) = {}
  /\ msg' = [msg EXCEPT ![running] = [sender |-> from, receiver |-> running, body |-> 0]]
  /\ status' = [status EXCEPT ![running] = @ \cup {"RECEIVING"}]
  /\ Schedule(status')
  /\ UNCHANGED <<queue, avail, excAvail, excData>>

Recv(from) ==
  /\ mode = "user"
  /\ \/ /\ Debug /\ from = running
        /\ Halt
        /\ UNCHANGED <<avail, excAvail, excData>>
     \/ /\ Debug => from # running
        /\ \/ RecvReflect(from)
           \/ RecvGotInt(from)
           \/ RecvGotExc(from)
           \/ RecvQueued(from)
           \/ RecvBlock(from)

-----------------------------------------------------------------------------
(* Interrupts and exceptions *)

\* Mutant: an interrupt wakes whoever is receiving.
WaitsForAnything(st, h) == "RECEIVING" \in st[h]

WaitsForInterrupt(st, h) ==
  "RECEIVING" \in st[h] /\ msg[h].sender \in {PROC_ANY, PROC_INTERRUPT}

Notify(h, n) ==
  msg' = [msg EXCEPT ![h] = [@ EXCEPT !.sender = PROC_INTERRUPT, !.body = n]]

\* A device interrupt i reaches its subscriber: at once when that waits for it,
\* else as the flag GOTINT.  It never changes which process runs.
HwInterrupt(i) ==
  LET h == Subscriber[i] IN
  /\ mode \in {"user", "idle"}
  /\ h # 0
  /\ \/ /\ WaitsForInterrupt(status, h)
        /\ Notify(h, i)
        /\ status' = [status EXCEPT ![h] = @ \ {"RECEIVING"}]
        /\ UNCHANGED avail
     \/ /\ ~WaitsForInterrupt(status, h)
        /\ status' = [status EXCEPT ![h] = @ \cup {"GOTINT"}]
        /\ avail' = avail \cup {i}
        /\ UNCHANGED msg
  /\ UNCHANGED <<queue, excAvail, excData, running, mode>>

\* proc_running faults.  `status &= PROC_STATUS_ERROR' clears every flag of the
\* process instead of setting ERROR, so it stays runnable; the one slot of the
\* exception is overwritten; the scheduler always runs.
PageFault ==
  LET cleared == [status EXCEPT ![running] = {}]
      h       == ExcHandler IN
  /\ mode = "user"
  /\ running \in Faulters
  /\ UNCHANGED <<queue, avail>>
  /\ \/ /\ h = 0
        /\ mode' = "halted"
        /\ UNCHANGED <<status, msg, excAvail, excData, running>>
     \/ /\ h # 0
        /\ WaitsForInterrupt(cleared, h)
        /\ Notify(h, running)
        /\ status' = [cleared EXCEPT ![h] = @ \ {"RECEIVING"}]
        /\ Schedule(status')
        /\ UNCHANGED <<excAvail, excData>>
     \/ /\ h # 0
        /\ ~WaitsForInterrupt(cleared, h)
        /\ status' = [cleared EXCEPT ![h] = @ \cup {"GOTEXC"}]
        /\ excAvail' = TRUE
        /\ excData' = running
        /\ Schedule(status')
        /\ UNCHANGED msg

-----------------------------------------------------------------------------

Next ==
  \/ \E r \in Proc, d \in Payload : Send(r, d)
  \/ \E from \in Source : Recv(from)
  \/ Timer
  \/ IdleStep
  \/ \E i \in Irq : HwInterrupt(i)
  \/ PageFault

Spec == Init /\ [][Next]_vars
-----------------------------------------------------------------------------
(* Properties *)

\* The comment of __recv_msg "sender is sending so it must in the quene" and the
\* panic "Sender not in quene": the queues hold exactly the blocked senders, each
\* once and in the queue of the process that its message names.
QueueInv ==
  /\ \A r \in Proc : \A k \in DOMAIN queue[r] :
       Sending(queue[r][k]) /\ msg[queue[r][k]].receiver = r
  /\ \A s \in Proc : Sending(s) =>
       \E k \in DOMAIN queue[msg[s].receiver] : queue[msg[s].receiver][k] = s
  /\ \A r \in Proc : \A j, k \in DOMAIN queue[r] : queue[r][j] = queue[r][k] => j = k

\* The process that executes is one that the scheduler may run: no blocking path
\* of __send_msg, __recv_msg or a fault returns to a blocked caller.
RunningIsRunnable == mode = "user" => Runnable(status, running)

\* Nobody sleeps in __recv_msg while what it waits for is already there: a
\* blocked sender it accepts, a pending interrupt or a pending exception.
NoMissedRendezvous ==
  \A r \in Proc : Receiving(r) =>
    /\ ~Sending(r)
    /\ \A s \in Proc : Sending(s) /\ msg[s].receiver = r => ~Waits(r, s)
    /\ FromInterrupt(msg[r].sender) => status[r] \cap {"GOTINT", "GOTEXC"} = {}

\* What the walk of __is_dead_lock and panic(DEADLOCK) are for: in a build where
\* panic stops the kernel no set of senders waits only for one another.
NoSendCycle ==
  Debug => \A S \in SUBSET Proc :
             (\A p \in S : Sending(p) /\ msg[p].receiver \in S) => S = {}

\* GOTINT and GOTEXC tell the truth: each is set exactly while something is
\* pending for that process, so that recv_msg neither forgets an interrupt nor
\* runs into the panic "No interrupt with a interrupt status.".  That is so while
\* all interrupts belong to one process; a process for each line is not enough.
PendingIsFlagged ==
  /\ \A p \in Proc : "GOTINT" \in status[p] <=> \E i \in avail : Subscriber[i] = p
  /\ \A p \in Proc : "GOTEXC" \in status[p] <=> excAvail /\ p = ExcHandler

\* The rendezvous hands over one message: a sender is released only by its
\* addressee, which then holds that message, and a receiver only by a sender or
\* an interrupt it was waiting for.
Handover ==
  [][/\ \A s \in Proc : Sending(s) /\ ~Sending(s)' =>
          running = msg[s].receiver /\ msg'[running] = msg[s]
     /\ \A r \in Proc : Receiving(r) /\ ~Receiving(r)' =>
          \/ /\ msg[r].sender \in {PROC_ANY, running}
             /\ msg'[r].sender = running /\ msg'[r].receiver = r
          \/ FromInterrupt(msg[r].sender) /\ msg'[r].sender = PROC_INTERRUPT]_vars

Before(q, s, t) == \E j, k \in DOMAIN q : j < k /\ q[j] = s /\ q[k] = t

\* Blocked senders are served in order: whoever waits longer is never overtaken
\* in the queue, whichever sender recv_msg picks out of it.
NoOvertaking ==
  [][\A r, s, t \in Proc :
       Before(queue'[r], s, t) => Before(queue[r], s, t) \/ ~Contains(queue[r], t)]_vars

\* The panic of __recv_msg "No interrupt with a interrupt status." never fires.
GotIntHasInterrupt == \A p \in Proc : "GOTINT" \in status[p] => avail # {}

\* The walk of __is_dead_lock ends, so that send_msg comes back from the kernel.
DeadLockCheckEnds == mode # "hung"

-----------------------------------------------------------------------------
(* The abstract specification *)

\* The kernel implements the rendezvous: programs can not tell its queues, flags,
\* preemption and pending interrupts from a direct handover.
Abstract == INSTANCE Rendezvous WITH
  Anybody   <- PROC_ANY,
  Interrupt <- PROC_INTERRUPT,
  Nothing   <- 0,
  Event     <- Irq \cup Proc,
  sending   <- {p \in Proc : Sending(p)},
  waiting   <- {p \in Proc : Receiving(p)}

ImplementsRendezvous == Abstract!Spec
=============================================================================
