--------------------------- MODULE Services_proofs ---------------------------
(***************************************************************************)
(* Proofs about Services.tla: the programs are a case of the arbitrary     *)
(* ones of IPC.tla; a call gets its own reply; a name has one holder among *)
(* the processes that reg_proc looks at; and without unreg_proc no panic,  *)
(* assertion or endless walk ever stops the kernel.                        *)
(*                                                                         *)
(* RepliesMatch is not inductive: that a server answers only somebody who  *)
(* waits for it follows from where each request is.  It is in the buffer   *)
(* of the blocked caller, in that of the server, in peer[TTY] while        *)
(* TaskTTY asks SysTask for the address, or answered.  Protocol says this  *)
(* of every call, in terms of Senders and Receivers and not of the queues, *)
(* which KernelInv keeps.  A kernel that has stopped leaves the programs   *)
(* where they are, so that Protocol is claimed only while it is Going.     *)
(***************************************************************************)
EXTENDS Services, IPC_proofs

\* The kernel has neither stopped nor been caught in an endless walk.
Going == mode \in {"user", "idle"}

(* The invariant *)

\* Where the programs can be, and whom they can ask.
Places ==
  /\ DOMAIN pc = Proc
  /\ pc[SysIdle] \in {"recv", "back"}
  /\ pc[SysTask] \in {"boot", "recv", "handle", "fall"}
  /\ pc[TTY] \in {"reg", "boot", "recv", "handle", "phys", "back"}
  /\ \A c \in Client : pc[c] \in {"idle", "query", "found", "call", "done"}
  /\ peer \in [Proc -> Proc]
  /\ \A c \in Client : peer[c] \in {SysTask, TTY}

\* Whoever has a name has its own, and nobody else within reach of reg_proc has it.
NamesOwn ==
  /\ DOMAIN name = Proc
  /\ \A p \in Proc : name[p] \in {"", NameOf(p)}
  /\ NamesUnique

\* Only TaskTTY subscribes an interrupt.
OnlyTTYFlagged == \A p \in Proc \ {TTY} : status[p] \cap {"GOTINT", "GOTEXC"} = {}

\* While a caller waits, its buffer names the server it waits for; then the server
\* that has answered.
AnswersFrom ==
  /\ \A c \in Client : pc[c] = "done" => msg[c].sender = peer[c]
  /\ \A c \in Client : pc[c] = "found" => msg[c].sender = SysTask
  /\ pc[TTY] = "back" => msg[TTY].sender = SysTask

\* p has called and has no answer: it is about to receive, or receiving.
Calling(p, before, after) == pc[p] = before \/ (pc[p] = after /\ p \in Receivers)

AsksSysTask(p) ==
  \/ p \in Client /\ Calling(p, "query", "found")
  \/ p \in Client /\ Calling(p, "call", "done") /\ peer[p] = SysTask
  \/ p = TTY /\ (Calling(p, "boot", "recv") \/ Calling(p, "phys", "back"))

AsksTTY(p) == p \in Client /\ Calling(p, "call", "done") /\ peer[p] = TTY

\* b is what p may have asked SysTask.
Request(p, b) ==
  \/ p \in Client /\ pc[p] \in {"query", "found"} /\ b = QUERY_PROC
  \/ p \in Client /\ pc[p] \in {"call", "done"} /\ b \in Ops \ {TTY_WRITE}
  \/ p = TTY /\ pc[p] \in {"boot", "recv"} /\ b = REG_PROC
  \/ p = TTY /\ pc[p] \in {"phys", "back"} /\ b = PROC_VIR2PHY

\* Where a program can be blocked in send_msg.
SendersRight ==
  /\ \A p \in Senders : msg[p].sender = p
  /\ SysIdle \notin Senders
  /\ SysTask \in Senders => pc[SysTask] \in {"recv", "fall"}
  /\ TTY \in Senders => pc[TTY] \in {"boot", "phys", "recv"}
  /\ \A c \in Client \cap Senders : pc[c] \in {"query", "call"}

\* Where a program can be blocked in recv_msg, and for whom.
ReceiversRight ==
  /\ pc[SysIdle] = "back" => SysIdle \in Receivers
  /\ SysIdle \in Receivers => msg[SysIdle].sender = PROC_ANY
  /\ SysTask \in Receivers => pc[SysTask] = "handle" /\ msg[SysTask].sender = PROC_ANY
  /\ TTY \in Receivers =>
       \/ pc[TTY] \in {"recv", "back"} /\ msg[TTY].sender = SysTask
       \/ pc[TTY] = "handle" /\ msg[TTY].sender = PROC_ANY
  /\ \A c \in Client \cap Receivers : pc[c] \in {"found", "done"}

\* A request that is on its way goes to the server that its sender awaits.
RequestsRight ==
  /\ \A c \in Client \cap Senders :
       \/ /\ msg[c].receiver = SysTask /\ AsksSysTask(c) /\ Request(c, msg[c].body)
       \/ /\ msg[c].receiver = TTY /\ AsksTTY(c) /\ msg[c].body = TTY_WRITE
  /\ TTY \in Senders /\ pc[TTY] # "recv" =>
       msg[TTY].receiver = SysTask /\ Request(TTY, msg[TTY].body)

\* A request that a server holds is of somebody who waits for that server.
Held ==
  /\ pc[SysTask] = "handle" /\ SysTask \notin Receivers =>
       LET p == msg[SysTask].sender IN
       /\ p \in Client \cup {TTY} /\ AsksSysTask(p) /\ p \notin Senders
       /\ Request(p, msg[SysTask].body)
  /\ pc[SysTask] = "fall" => msg[SysTask].sender = SysTask /\ UNREG_PROC \in Ops
  /\ pc[TTY] = "handle" /\ TTY \notin Receivers =>
       LET p == msg[TTY].sender IN
       \/ p = PROC_INTERRUPT
       \/ p \in Client /\ AsksTTY(p) /\ p \notin Senders /\ msg[TTY].body = TTY_WRITE
  /\ pc[TTY] \in {"phys", "back"} =>
       peer[TTY] \in Client /\ AsksTTY(peer[TTY]) /\ peer[TTY] \notin Senders

\* A reply that is on its way goes to somebody who waits for it.
RepliesRight ==
  /\ SysTask \in Senders =>
       LET p == msg[SysTask].receiver IN
       \/ p = SysTask /\ UNREG_PROC \in Ops
       \/ /\ p \in Client \cup {TTY} /\ AsksSysTask(p) /\ p \notin Senders
          /\ p \in Client /\ pc[p] \in {"query", "found"} => msg[SysTask].body \in {0, TTY}
  /\ TTY \in Senders /\ pc[TTY] = "recv" =>
       LET p == msg[TTY].receiver IN
       p \in Client /\ AsksTTY(p) /\ p \notin Senders
  /\ \A c \in Client : pc[c] = "found" => msg[c].body \in {0, TTY}

Protocol ==
  /\ Places
  /\ OnlyTTYFlagged
  /\ SendersRight
  /\ ReceiversRight
  /\ RequestsRight
  /\ Held
  /\ RepliesRight

ServicesInv == KernelInv /\ NamesOwn /\ AnswersFrom /\ (Going => Protocol)

(* What a system call does to the caller and the others *)

\* The processes differ.
LEMMA ProgramsApart ==
  /\ Proc = {SysIdle, SysTask, TTY} \cup Client /\ Proc \subseteq Nat
  /\ TTY \notin {SysIdle, SysTask} \cup Client /\ {SysIdle, SysTask} \cap Client = {}
  /\ SysIdle # SysTask /\ SysIdle = 0
  /\ PROC_ANY \notin Proc /\ PROC_INTERRUPT \notin Proc /\ PROC_ANY # PROC_INTERRUPT
  /\ Subscriber \in [Irq -> {SysIdle, TTY}]
  /\ \A c \in Client : Calls[c] \subseteq Ops
BY ServicesAssumption, IPCAssumption, ProcNumbers
   DEF ServicesAssumption, IPCAssumption, SysIdle, SysTask, Proc, PROC_ANY, PROC_INTERRUPT

\* The pending interrupts and exceptions of p.
Pending(p) == status[p] \cap {"GOTINT", "GOTEXC"}

\* What send_msg(r) of p comes to: r takes the message at once, or p is blocked.
Sent(p, r, d) ==
  LET accepts == r \in Receivers /\ msg[r].sender \in {PROC_ANY, p} IN
  /\ \A q \in Proc : IF q = p \/ (q = r /\ accepts)
                     THEN msg'[q].sender = p /\ msg'[q].receiver = r /\ msg'[q].body = d
                     ELSE msg'[q] = msg[q]
  /\ Receivers' = IF accepts THEN Receivers \ {r} ELSE Receivers
  /\ Senders' = IF accepts THEN Senders ELSE Senders \cup {p}
  /\ \A q \in Proc : Pending(q)' = Pending(q)

\* What recv_msg(from) of p comes to: a blocked sender's message, a wait, or an
\* interrupt.
Received(p, from) ==
  /\ \A q \in Proc \ {p} : msg'[q] = msg[q]
  /\ \A q \in Proc : Pending(q)' \subseteq Pending(q)
  /\ Senders' \subseteq Senders
  /\ Receivers \subseteq Receivers' /\ Receivers' \subseteq Receivers \cup {p}
  /\ \/ \E s \in Senders :
          /\ from \in {PROC_ANY, s} /\ msg[s].receiver = p
          /\ msg'[p] = msg[s]
          /\ Senders' = Senders \ {s} /\ Receivers' = Receivers
     \/ /\ msg'[p].sender = from /\ msg'[p].body = 0
        /\ Receivers' = Receivers \cup {p} /\ Senders' = Senders
     \/ /\ from = PROC_ANY /\ Pending(p) # {}
        /\ msg'[p].sender = PROC_INTERRUPT
        /\ Receivers' = Receivers /\ Senders' = Senders

\* While the kernel goes on, send_msg does what Sent says.
LEMMA SendEffect ==
  ASSUME KernelInv, NEW r \in Proc, NEW d, Send(r, d), Going'
  PROVE  Sent(running, r, d)
<1> DEFINE m == [sender |-> running, receiver |-> r, body |-> d]
           accepts == r \in Receivers /\ msg[r].sender \in {PROC_ANY, running}
<1>1. running \in Proc /\ status \in [Proc -> SUBSET Flag] /\ msg \in [Proc -> Message]
  BY CallerFree DEF Send, KernelInv, TypeOK
<1>2. Waits(r, running) <=> accepts
  BY DEF Waits, Receivers
<1>m. m.sender = running /\ m.receiver = r /\ m.body = d
  OBVIOUS
<1> HIDE DEF m, accepts
<1>3. CASE Deliver(r, m) /\ Waits(r, running)
  <2>1. status' = [status EXCEPT ![r] = @ \ {"RECEIVING"}]
    BY <1>3 DEF Deliver
  <2>2. Receivers' = Receivers \ {r} /\ Senders' = Senders
    BY <1>1, <2>1 DEF Receivers, Senders, Sending, Receiving
  <2>3. \A p \in Proc : Pending(p)' = Pending(p)
    BY <1>1, <2>1 DEF Pending
  <2>4. \A p \in Proc : msg'[p] = IF p \in {running, r} THEN m ELSE msg[p]
    BY <1>1, <1>3 DEF Deliver
  <2>5. QED
    BY <1>m, <1>2, <1>3, <2>2, <2>3, <2>4 DEF accepts, Sent
<1>4. CASE Enqueue(r, m) /\ ~Waits(r, running)
  <2>1. status' = [status EXCEPT ![running] = @ \cup {"SENDING"}]
    BY <1>4 DEF Enqueue
  <2>2. Senders' = Senders \cup {running} /\ Receivers' = Receivers
    BY <1>1, <2>1 DEF Receivers, Senders, Sending, Receiving
  <2>3. \A p \in Proc : Pending(p)' = Pending(p)
    BY <1>1, <2>1 DEF Pending
  <2>4. \A p \in Proc : msg'[p] = IF p = running THEN m ELSE msg[p]
    BY <1>1, <1>4 DEF Enqueue
  <2>5. QED
    BY <1>m, <1>2, <1>4, <2>2, <2>3, <2>4 DEF accepts, Sent
<1>5. QED
  BY <1>3, <1>4 DEF Send, Halt, m, Going

\* And recv_msg what Received says.
LEMMA RecvEffect ==
  ASSUME KernelInv, NEW from \in Proc \cup {PROC_ANY}, from # 0, Recv(from), Going'
  PROVE  Received(running, from)
<1>1. running \in Proc /\ status \in [Proc -> SUBSET Flag] /\ msg \in [Proc -> Message]
  BY CallerFree DEF Recv, KernelInv, TypeOK
<1>2. CASE RecvGotInt(from)
  <2>1. FromInterrupt(from) /\ "GOTINT" \in status[running]
    BY <1>2 DEF RecvGotInt
  <2>2. PICK n : msg' = [msg EXCEPT ![running] =
                           [sender |-> PROC_INTERRUPT, receiver |-> running, body |-> n]]
    BY <1>2 DEF RecvGotInt, Going
  <2>3. status' = status \/ status' = [status EXCEPT ![running] = @ \ {"GOTINT"}]
    BY <1>2 DEF RecvGotInt
  <2>4. Receivers' = Receivers /\ Senders' = Senders
    BY <1>1, <2>3 DEF Receivers, Senders, Sending, Receiving
  <2>5. \A p \in Proc : status'[p] \subseteq status[p]
    BY <1>1, <2>3
  <2>6. from = PROC_ANY
    BY <2>1, ProgramsApart DEF FromInterrupt
  <2>7. msg'[running].sender = PROC_INTERRUPT /\ \A q \in Proc \ {running} : msg'[q] = msg[q]
    BY <1>1, <2>2
  <2>8. QED
    BY <2>1, <2>4, <2>5, <2>6, <2>7 DEF Received, Pending
<1>3. CASE RecvGotExc(from)
  <2>1. FromInterrupt(from) /\ "GOTEXC" \in status[running]
    BY <1>3 DEF RecvGotExc
  <2>2. PICK n : msg' = [msg EXCEPT ![running] =
                           [sender |-> PROC_INTERRUPT, receiver |-> running, body |-> n]]
    BY <1>3 DEF RecvGotExc, Going
  <2>3. status' = status \/ status' = [status EXCEPT ![running] = @ \ {"GOTEXC"}]
    BY <1>3 DEF RecvGotExc
  <2>4. Receivers' = Receivers /\ Senders' = Senders
    BY <1>1, <2>3 DEF Receivers, Senders, Sending, Receiving
  <2>5. \A p \in Proc : status'[p] \subseteq status[p]
    BY <1>1, <2>3
  <2>6. from = PROC_ANY
    BY <2>1, ProgramsApart DEF FromInterrupt
  <2>7. msg'[running].sender = PROC_INTERRUPT /\ \A q \in Proc \ {running} : msg'[q] = msg[q]
    BY <1>1, <2>2
  <2>8. QED
    BY <2>1, <2>4, <2>5, <2>6, <2>7 DEF Received, Pending
<1>4. CASE RecvQueued(from)
  <2>1. PICK k \in Candidates(from) :
          /\ msg' = [msg EXCEPT ![running] = msg[queue[running][k]]]
          /\ status' = [status EXCEPT ![queue[running][k]] = @ \ {"SENDING"}]
    BY <1>4 DEF RecvQueued
  <2> DEFINE s == queue[running][k]
  <2>2. Sending(s) /\ msg[s].receiver = running /\ from \in {PROC_ANY, s}
    BY <1>1 DEF KernelInv, QueueInv, Candidates
  <2>3. s \in Proc
    BY <1>1, ElementOfSeq, LenProperties DEF KernelInv, TypeOK, Candidates
  <2> HIDE DEF s
  <2>4. status' = [status EXCEPT ![s] = @ \ {"SENDING"}] /\ msg' = [msg EXCEPT ![running] = msg[s]]
    BY <2>1 DEF s
  <2>5. Senders' = Senders \ {s} /\ Receivers' = Receivers
    BY <1>1, <2>3, <2>4 DEF Receivers, Senders, Sending, Receiving
  <2>6. \A p \in Proc : status'[p] \subseteq status[p]
    BY <1>1, <2>3, <2>4
  <2>7. msg'[running] = msg[s] /\ \A q \in Proc \ {running} : msg'[q] = msg[q]
    BY <1>1, <2>4
  <2>8. s \in Senders
    BY <2>2, <2>3 DEF Senders
  <2>9. QED
    BY <2>2, <2>8, <2>5, <2>6, <2>7 DEF Received, Pending
<1>5. CASE RecvBlock(from)
  <2>1. status' = [status EXCEPT ![running] = @ \cup {"RECEIVING"}]
    BY <1>5 DEF RecvBlock
  <2>2. Receivers' = Receivers \cup {running} /\ Senders' = Senders
    BY <1>1, <2>1 DEF Receivers, Senders, Sending, Receiving
  <2>3. \A p \in Proc : Pending(p)' = Pending(p)
    BY <1>1, <2>1 DEF Pending
  <2>4. /\ msg'[running].sender = from /\ msg'[running].body = 0
        /\ \A q \in Proc \ {running} : msg'[q] = msg[q]
    BY <1>1, <1>5 DEF RecvBlock
  <2>5. QED
    BY <2>2, <2>3, <2>4 DEF Received
<1>6. QED
  BY <1>2, <1>3, <1>4, <1>5 DEF Recv, RecvReflect, Halt, Going

\* What is known of the program that makes a call.
LEMMA CallerState ==
  ASSUME ServicesInv, NEW p \in Proc, NEW l, At(p, l)
  PROVE  /\ Protocol /\ AnswersFrom /\ running = p /\ pc[p] = l /\ p \notin Senders \cup Receivers
         /\ Senders \subseteq Proc /\ Receivers \subseteq Proc /\ Senders \cap Receivers = {}
BY CallerFree DEF ServicesInv, At, Going

\* TaskTTY registers its name.
LEMMA TTYRegisters ==
  ASSUME ServicesInv, Going',
         At(TTY, "reg"), Send(SysTask, REG_PROC), Goto(TTY, "boot"), UNCHANGED peer
  PROVE  Protocol' /\ AnswersFrom'
<1> USE ProgramsApart
<1>1. /\ Protocol /\ AnswersFrom /\ running = TTY /\ pc[TTY] = "reg"
      /\ TTY \notin Senders \cup Receivers
      /\ Senders \subseteq Proc /\ Receivers \subseteq Proc /\ Senders \cap Receivers = {}
  BY CallerState
<1>2. Sent(TTY, SysTask, REG_PROC)
  BY <1>1, SendEffect DEF ServicesInv
<1>3. \A q \in Proc : pc'[q] = IF q = TTY THEN "boot" ELSE pc[q]
  BY <1>1 DEF Protocol, Places, Goto
<1>4. Places'
  BY <1>1, <1>2, <1>3 DEF Protocol, Places, Goto
<1>5. OnlyTTYFlagged'
  BY <1>1, <1>2, <1>3 DEF Protocol, OnlyTTYFlagged, Pending, Sent
<1>6. SendersRight'
  BY <1>1, <1>2, <1>3 DEF Protocol, SendersRight, Sent
<1>7. ReceiversRight'
  BY <1>1, <1>2, <1>3 DEF Protocol, ReceiversRight, SendersRight, Sent
<1>8. RequestsRight'
  BY <1>1, <1>2, <1>3
     DEF Protocol, RequestsRight, SendersRight, ReceiversRight, AsksSysTask, AsksTTY,
         Calling, Request, Sent
<1>9. Held'
  BY <1>1, <1>2, <1>3
     DEF Protocol, Held, SendersRight, RequestsRight, ReceiversRight, AsksSysTask,
         AsksTTY, Calling, Request, Sent
<1>10. RepliesRight'
  BY <1>1, <1>2, <1>3
     DEF Protocol, RepliesRight, SendersRight, ReceiversRight, RequestsRight,
         AsksSysTask, AsksTTY, Calling, Sent
<1>11. AnswersFrom'
  BY <1>1, <1>2, <1>3
     DEF Protocol, AnswersFrom, Places, SendersRight, ReceiversRight, RequestsRight,
         Sent
<1>12. QED
  BY <1>4, <1>5, <1>6, <1>7, <1>8, <1>9, <1>10, <1>11 DEF Protocol

\* A client asks SysTask.
LEMMA ClientAsksSysTask ==
  ASSUME ServicesInv, Going',
         NEW c \in Client, NEW d, NEW l,
         At(c, "idle") \/ At(c, "found"), Send(SysTask, d), Goto(c, l),
         \/ l = "query" /\ d = QUERY_PROC /\ (UNCHANGED peer \/ peer' = [peer EXCEPT ![c] = SysTask])
         \/ l = "call" /\ d \in Ops \ {TTY_WRITE} /\ peer' = [peer EXCEPT ![c] = SysTask]
  PROVE  Protocol' /\ AnswersFrom'
<1> USE ProgramsApart
<1>1. /\ Protocol /\ AnswersFrom /\ running = c /\ pc[c] \in {"idle", "found"}
      /\ c \notin Senders \cup Receivers
      /\ Senders \subseteq Proc /\ Receivers \subseteq Proc /\ Senders \cap Receivers = {}
  BY CallerState
<1>2. Sent(c, SysTask, d)
  BY <1>1, SendEffect DEF ServicesInv
<1>3. \A q \in Proc : /\ pc'[q] = IF q = c THEN l ELSE pc[q]
                      /\ peer'[q] = peer[q] \/ (q = c /\ peer'[q] = SysTask)
                      /\ l = "call" => peer'[c] = SysTask
  BY <1>1 DEF Protocol, Places, Goto
<1>4. Places'
  BY <1>1, <1>2, <1>3 DEF Protocol, Places, Goto
<1>5. OnlyTTYFlagged'
  BY <1>1, <1>2, <1>3 DEF Protocol, OnlyTTYFlagged, Pending, Sent
<1>6. SendersRight'
  BY <1>1, <1>2, <1>3 DEF Protocol, SendersRight, Sent
<1>7. ReceiversRight'
  BY <1>1, <1>2, <1>3 DEF Protocol, ReceiversRight, SendersRight, Sent
<1>8. RequestsRight'
  BY <1>1, <1>2, <1>3
     DEF Protocol, RequestsRight, SendersRight, ReceiversRight, AsksSysTask, AsksTTY,
         Calling, Request, Sent
<1>9. Held'
  BY <1>1, <1>2, <1>3
     DEF Protocol, Held, SendersRight, RequestsRight, ReceiversRight, AsksSysTask,
         AsksTTY, Calling, Request, Sent
<1>10. RepliesRight'
  BY <1>1, <1>2, <1>3
     DEF Protocol, RepliesRight, SendersRight, ReceiversRight, RequestsRight,
         AsksSysTask, AsksTTY, Calling, Sent
<1>11. AnswersFrom'
  BY <1>1, <1>2, <1>3
     DEF Protocol, AnswersFrom, Places, SendersRight, ReceiversRight, RequestsRight,
         Sent
<1>12. QED
  BY <1>4, <1>5, <1>6, <1>7, <1>8, <1>9, <1>10, <1>11 DEF Protocol

\* A client that has found TaskTTY asks it to print.
LEMMA ClientAsksTTY ==
  ASSUME ServicesInv, Going',
         NEW c \in Client, At(c, "found"), Send(TTY, TTY_WRITE),
         Goto(c, "call"), peer' = [peer EXCEPT ![c] = TTY]
  PROVE  Protocol' /\ AnswersFrom'
<1> USE ProgramsApart
<1>1. /\ Protocol /\ AnswersFrom /\ running = c /\ pc[c] = "found"
      /\ c \notin Senders \cup Receivers
      /\ Senders \subseteq Proc /\ Receivers \subseteq Proc /\ Senders \cap Receivers = {}
  BY CallerState
<1>2. Sent(c, TTY, TTY_WRITE)
  BY <1>1, SendEffect DEF ServicesInv
<1>3. \A q \in Proc : /\ pc'[q] = IF q = c THEN "call" ELSE pc[q]
                      /\ peer'[q] = IF q = c THEN TTY ELSE peer[q]
  BY <1>1 DEF Protocol, Places, Goto
<1>4. Places'
  BY <1>1, <1>2, <1>3 DEF Protocol, Places, Goto
<1>5. OnlyTTYFlagged'
  BY <1>1, <1>2, <1>3 DEF Protocol, OnlyTTYFlagged, Pending, Sent
<1>6. SendersRight'
  BY <1>1, <1>2, <1>3 DEF Protocol, SendersRight, Sent
<1>7. ReceiversRight'
  BY <1>1, <1>2, <1>3 DEF Protocol, ReceiversRight, SendersRight, Sent
<1>8. RequestsRight'
  BY <1>1, <1>2, <1>3
     DEF Protocol, RequestsRight, SendersRight, ReceiversRight, AsksSysTask, AsksTTY,
         Calling, Request, Sent
<1>9. Held'
  BY <1>1, <1>2, <1>3
     DEF Protocol, Held, SendersRight, RequestsRight, ReceiversRight, AsksSysTask,
         AsksTTY, Calling, Request, Sent
<1>10. RepliesRight'
  BY <1>1, <1>2, <1>3
     DEF Protocol, RepliesRight, SendersRight, ReceiversRight, RequestsRight,
         AsksSysTask, AsksTTY, Calling, Sent
<1>11. AnswersFrom'
  BY <1>1, <1>2, <1>3
     DEF Protocol, AnswersFrom, Places, SendersRight, ReceiversRight, RequestsRight,
         Sent
<1>12. QED
  BY <1>4, <1>5, <1>6, <1>7, <1>8, <1>9, <1>10, <1>11 DEF Protocol

\* A client takes the reply of the server it asked, or waits for it.
LEMMA ClientReceives ==
  ASSUME ServicesInv, Going',
         NEW c \in Client, NEW l, NEW server, Recv(server), Goto(c, l), UNCHANGED peer,
         \/ At(c, "query") /\ server = SysTask /\ l = "found"
         \/ At(c, "call") /\ server = peer[c] /\ l = "done"
  PROVE  Protocol' /\ AnswersFrom'
<1> USE ProgramsApart
<1>1. /\ Protocol /\ AnswersFrom /\ running = c /\ pc[c] \in {"query", "call"}
      /\ c \notin Senders \cup Receivers
      /\ Senders \subseteq Proc /\ Receivers \subseteq Proc /\ Senders \cap Receivers = {}
  BY CallerState
<1>0. /\ server \in {SysTask, TTY}
      /\ pc[c] = "query" => server = SysTask /\ l = "found"
      /\ pc[c] = "call" => server = peer[c] /\ l = "done"
  BY <1>1 DEF At, Protocol, Places
<1>2. Received(c, server)
  BY <1>0, <1>1, RecvEffect DEF ServicesInv
<1>3. \A q \in Proc : pc'[q] = IF q = c THEN l ELSE pc[q]
  BY <1>1 DEF Protocol, Places, Goto
<1>4. Places'
  BY <1>0, <1>1, <1>2, <1>3 DEF Protocol, Places, Goto
<1>5. OnlyTTYFlagged'
  BY <1>0, <1>1, <1>2, <1>3 DEF Protocol, OnlyTTYFlagged, Pending, Received
<1>6. SendersRight'
  BY <1>0, <1>1, <1>2, <1>3 DEF Protocol, SendersRight, Received
<1>7. ReceiversRight'
  BY <1>0, <1>1, <1>2, <1>3 DEF Protocol, ReceiversRight, SendersRight, Received
<1>8. RequestsRight'
  BY <1>0, <1>1, <1>2, <1>3
     DEF Protocol, RequestsRight, SendersRight, ReceiversRight, AsksSysTask, AsksTTY,
         Calling, Request, Received
<1>9. Held'
  BY <1>0, <1>1, <1>2, <1>3
     DEF Protocol, Held, SendersRight, RequestsRight, ReceiversRight, AsksSysTask,
         AsksTTY, Calling, Request, Received
<1>10. RepliesRight'
  BY <1>0, <1>1, <1>2, <1>3
     DEF Protocol, RepliesRight, SendersRight, ReceiversRight, RequestsRight,
         AsksSysTask, AsksTTY, Calling, Received
<1>11. AnswersFrom'
  BY <1>0, <1>1, <1>2, <1>3
     DEF Protocol, AnswersFrom, Places, SendersRight, ReceiversRight, RequestsRight,
         Received
<1>12. QED
  BY <1>4, <1>5, <1>6, <1>7, <1>8, <1>9, <1>10, <1>11 DEF Protocol

\* TaskTTY waits for the reply of SysTask.
LEMMA TTYReceives ==
  ASSUME ServicesInv, Going',
         NEW l, Recv(SysTask), Goto(TTY, l), UNCHANGED peer,
         \/ At(TTY, "boot") /\ l = "recv"
         \/ At(TTY, "phys") /\ l = "back"
  PROVE  Protocol' /\ AnswersFrom'
<1> USE ProgramsApart
<1>1. /\ Protocol /\ AnswersFrom /\ running = TTY /\ pc[TTY] \in {"boot", "phys"}
      /\ TTY \notin Senders \cup Receivers
      /\ Senders \subseteq Proc /\ Receivers \subseteq Proc /\ Senders \cap Receivers = {}
  BY CallerState
<1>2. Received(TTY, SysTask)
  BY <1>1, RecvEffect DEF ServicesInv
<1>3. /\ \A q \in Proc : pc'[q] = IF q = TTY THEN l ELSE pc[q]
      /\ \/ pc[TTY] = "boot" /\ l = "recv"
         \/ pc[TTY] = "phys" /\ l = "back"
  BY <1>1 DEF At, Protocol, Places, Goto
<1>4. Places'
  BY <1>1, <1>2, <1>3 DEF Protocol, Places, Goto
<1>5. OnlyTTYFlagged'
  BY <1>1, <1>2, <1>3 DEF Protocol, OnlyTTYFlagged, Pending, Received
<1>6. SendersRight'
  BY <1>1, <1>2, <1>3 DEF Protocol, SendersRight, Received
<1>7. ReceiversRight'
  BY <1>1, <1>2, <1>3 DEF Protocol, ReceiversRight, SendersRight, Received
<1>8. RequestsRight'
  BY <1>1, <1>2, <1>3
     DEF Protocol, RequestsRight, SendersRight, ReceiversRight, AsksSysTask, AsksTTY,
         Calling, Request, Received
<1>9. Held'
  BY <1>1, <1>2, <1>3
     DEF Protocol, Held, SendersRight, RequestsRight, ReceiversRight, AsksSysTask,
         AsksTTY, Calling, Request, Received
<1>10. RepliesRight'
  BY <1>1, <1>2, <1>3
     DEF Protocol, RepliesRight, SendersRight, ReceiversRight, RequestsRight,
         AsksSysTask, AsksTTY, Calling, Received
<1>11. AnswersFrom'
  BY <1>1, <1>2, <1>3
     DEF Protocol, AnswersFrom, Places, SendersRight, ReceiversRight, RequestsRight,
         Received
<1>12. QED
  BY <1>4, <1>5, <1>6, <1>7, <1>8, <1>9, <1>10, <1>11 DEF Protocol

\* TaskTTY waits for a request or an interrupt.
LEMMA TTYReceivesAny ==
  ASSUME ServicesInv, Going',
         Recv(PROC_ANY), UNCHANGED peer,
         \/ At(TTY, "recv") /\ Goto(TTY, "handle")
         \/ At(TTY, "handle") /\ msg[TTY].sender = PROC_INTERRUPT /\ UNCHANGED pc
  PROVE  Protocol' /\ AnswersFrom'
<1> USE ProgramsApart
<1>1. /\ Protocol /\ AnswersFrom /\ running = TTY /\ pc[TTY] \in {"recv", "handle"}
      /\ TTY \notin Senders \cup Receivers
      /\ Senders \subseteq Proc /\ Receivers \subseteq Proc /\ Senders \cap Receivers = {}
  BY CallerState
<1>2. Received(TTY, PROC_ANY)
  BY <1>1, RecvEffect DEF ServicesInv
<1>3. \A q \in Proc : pc'[q] = IF q = TTY THEN "handle" ELSE pc[q]
  BY <1>1 DEF At, Protocol, Places, Goto
<1>4. Places'
  BY <1>1, <1>2, <1>3 DEF Protocol, Places, Goto
<1>5. OnlyTTYFlagged'
  BY <1>1, <1>2, <1>3 DEF Protocol, OnlyTTYFlagged, Pending, Received
<1>6. SendersRight'
  BY <1>1, <1>2, <1>3 DEF Protocol, SendersRight, Received
<1>7. ReceiversRight'
  BY <1>1, <1>2, <1>3 DEF Protocol, ReceiversRight, SendersRight, Received
<1>8. RequestsRight'
  BY <1>1, <1>2, <1>3
     DEF Protocol, RequestsRight, SendersRight, ReceiversRight, AsksSysTask, AsksTTY,
         Calling, Request, Received
<1>9. Held'
  BY <1>1, <1>2, <1>3
     DEF Protocol, Held, SendersRight, RequestsRight, ReceiversRight, AsksSysTask,
         AsksTTY, Calling, Request, RepliesRight, Received
<1>10. RepliesRight'
  BY <1>1, <1>2, <1>3
     DEF Protocol, RepliesRight, SendersRight, ReceiversRight, RequestsRight,
         AsksSysTask, AsksTTY, Calling, Received
<1>11. AnswersFrom'
  BY <1>1, <1>2, <1>3
     DEF Protocol, AnswersFrom, Places, SendersRight, ReceiversRight, RequestsRight,
         Received
<1>12. QED
  BY <1>4, <1>5, <1>6, <1>7, <1>8, <1>9, <1>10, <1>11 DEF Protocol

\* TaskTTY asks SysTask for the address of the text it prints.
LEMMA TTYAsksAddress ==
  ASSUME ServicesInv, Going',
         At(TTY, "handle"), msg[TTY].sender # PROC_INTERRUPT,
         Send(SysTask, PROC_VIR2PHY), Goto(TTY, "phys"), peer' = [peer EXCEPT ![TTY] = msg[TTY].sender]
  PROVE  Protocol' /\ AnswersFrom'
<1> USE ProgramsApart
<1>1. /\ Protocol /\ AnswersFrom /\ running = TTY /\ pc[TTY] = "handle"
      /\ TTY \notin Senders \cup Receivers
      /\ Senders \subseteq Proc /\ Receivers \subseteq Proc /\ Senders \cap Receivers = {}
  BY CallerState
<1>2. Sent(TTY, SysTask, PROC_VIR2PHY)
  BY <1>1, SendEffect DEF ServicesInv
<1>3. /\ \A q \in Proc : pc'[q] = IF q = TTY THEN "phys" ELSE pc[q]
      /\ peer'[TTY] = msg[TTY].sender /\ \A q \in Proc \ {TTY} : peer'[q] = peer[q]
  BY <1>1 DEF Protocol, Places, Goto
<1>4. Places'
  BY <1>1, <1>2, <1>3 DEF Protocol, Places, Goto, Held
<1>5. OnlyTTYFlagged'
  BY <1>1, <1>2, <1>3 DEF Protocol, OnlyTTYFlagged, Pending, Sent
<1>6. SendersRight'
  BY <1>1, <1>2, <1>3 DEF Protocol, SendersRight, Sent
<1>7. ReceiversRight'
  BY <1>1, <1>2, <1>3 DEF Protocol, ReceiversRight, SendersRight, Sent
<1>8. RequestsRight'
  BY <1>1, <1>2, <1>3
     DEF Protocol, RequestsRight, SendersRight, ReceiversRight, AsksSysTask, AsksTTY,
         Calling, Request, Sent
<1>9. Held'
  BY <1>1, <1>2, <1>3
     DEF Protocol, Held, SendersRight, RequestsRight, ReceiversRight, AsksSysTask,
         AsksTTY, Calling, Request, Sent
<1>10. RepliesRight'
  BY <1>1, <1>2, <1>3
     DEF Protocol, RepliesRight, SendersRight, ReceiversRight, RequestsRight,
         AsksSysTask, AsksTTY, Calling, Sent
<1>11. AnswersFrom'
  BY <1>1, <1>2, <1>3
     DEF Protocol, AnswersFrom, Places, SendersRight, ReceiversRight, RequestsRight,
         Sent
<1>12. QED
  BY <1>4, <1>5, <1>6, <1>7, <1>8, <1>9, <1>10, <1>11 DEF Protocol

\* TaskTTY answers the client whose text it has printed.
LEMMA TTYReplies ==
  ASSUME ServicesInv, Going',
         At(TTY, "back"),
         Send(peer[TTY], TTY_WRITE), Goto(TTY, "recv"), UNCHANGED peer
  PROVE  Protocol' /\ AnswersFrom'
<1> USE ProgramsApart
<1>1. /\ Protocol /\ AnswersFrom /\ running = TTY /\ pc[TTY] = "back"
      /\ TTY \notin Senders \cup Receivers
      /\ Senders \subseteq Proc /\ Receivers \subseteq Proc /\ Senders \cap Receivers = {}
  BY CallerState
<1>2. Sent(TTY, peer[TTY], TTY_WRITE)
  BY <1>1, SendEffect DEF ServicesInv, Protocol, Held
<1>3. \A q \in Proc : pc'[q] = IF q = TTY THEN "recv" ELSE pc[q]
  BY <1>1 DEF Protocol, Places, Goto
<1>4. Places'
  BY <1>1, <1>2, <1>3 DEF Protocol, Places, Goto
<1>5. OnlyTTYFlagged'
  BY <1>1, <1>2, <1>3 DEF Protocol, OnlyTTYFlagged, Pending, Sent
<1>6. SendersRight'
  BY <1>1, <1>2, <1>3 DEF Protocol, SendersRight, Sent
<1>7. ReceiversRight'
  BY <1>1, <1>2, <1>3 DEF Protocol, ReceiversRight, SendersRight, Held, Sent
<1>8. RequestsRight'
  BY <1>1, <1>2, <1>3
     DEF Protocol, RequestsRight, SendersRight, ReceiversRight, AsksSysTask, AsksTTY,
         Calling, Request, Sent
<1>9. Held'
  BY <1>1, <1>2, <1>3
     DEF Protocol, Held, SendersRight, RequestsRight, ReceiversRight, AsksSysTask,
         AsksTTY, Calling, Request, Sent
<1>10. RepliesRight'
  BY <1>1, <1>2, <1>3
     DEF Protocol, RepliesRight, SendersRight, ReceiversRight, RequestsRight,
         AsksSysTask, AsksTTY, Calling, Held, Sent
<1>11. AnswersFrom'
  BY <1>1, <1>2, <1>3
     DEF Protocol, AnswersFrom, Places, SendersRight, ReceiversRight, RequestsRight,
         Sent
<1>12. QED
  BY <1>4, <1>5, <1>6, <1>7, <1>8, <1>9, <1>10, <1>11 DEF Protocol

\* SysTask waits for a request.
LEMMA SysTaskReceives ==
  ASSUME ServicesInv, Going',
         At(SysTask, "recv"), Recv(PROC_ANY), Goto(SysTask, "handle"), UNCHANGED peer
  PROVE  Protocol' /\ AnswersFrom'
<1> USE ProgramsApart
<1>1. /\ Protocol /\ AnswersFrom /\ running = SysTask /\ pc[SysTask] = "recv"
      /\ SysTask \notin Senders \cup Receivers
      /\ Senders \subseteq Proc /\ Receivers \subseteq Proc /\ Senders \cap Receivers = {}
  BY CallerState
<1>2. Received(SysTask, PROC_ANY)
  BY <1>1, RecvEffect DEF ServicesInv
<1>3. \A q \in Proc : pc'[q] = IF q = SysTask THEN "handle" ELSE pc[q]
  BY <1>1 DEF Protocol, Places, Goto
<1>4. Places'
  BY <1>1, <1>2, <1>3 DEF Protocol, Places, Goto
<1>5. OnlyTTYFlagged'
  BY <1>1, <1>2, <1>3 DEF Protocol, OnlyTTYFlagged, Pending, Received
<1>6. SendersRight'
  BY <1>1, <1>2, <1>3 DEF Protocol, SendersRight, Received
<1>7. ReceiversRight'
  BY <1>1, <1>2, <1>3
     DEF Protocol, ReceiversRight, SendersRight, OnlyTTYFlagged, Pending, RepliesRight,
         Received
<1>8. RequestsRight'
  BY <1>1, <1>2, <1>3
     DEF Protocol, RequestsRight, SendersRight, ReceiversRight, AsksSysTask, AsksTTY,
         Calling, Request, OnlyTTYFlagged, Pending, RepliesRight, Received
<1>9. Held'
  BY <1>1, <1>2, <1>3
     DEF Protocol, Held, SendersRight, RequestsRight, ReceiversRight, AsksSysTask,
         AsksTTY, Calling, Request, OnlyTTYFlagged, Pending, RepliesRight, Received
<1>10. RepliesRight'
  BY <1>1, <1>2, <1>3
     DEF Protocol, RepliesRight, SendersRight, ReceiversRight, RequestsRight,
         AsksSysTask, AsksTTY, Calling, OnlyTTYFlagged, Pending, Received
<1>11. AnswersFrom'
  BY <1>1, <1>2, <1>3
     DEF Protocol, AnswersFrom, Places, SendersRight, ReceiversRight, RequestsRight,
         Received
<1>12. QED
  BY <1>4, <1>5, <1>6, <1>7, <1>8, <1>9, <1>10, <1>11 DEF Protocol

\* SysTask answers a request; after UNREG_PROC it goes on as for QUERY_PROC.
LEMMA SysTaskReplies ==
  ASSUME ServicesInv, Going',
         At(SysTask, "handle"), NEW d, NEW l, Send(msg[SysTask].sender, d),
         Goto(SysTask, l), UNCHANGED peer,
         \/ l = "recv" /\ (msg[SysTask].body = QUERY_PROC => d \in {0, TTY})
         \/ l = "fall" /\ msg[SysTask].body = UNREG_PROC
  PROVE  Protocol' /\ AnswersFrom'
<1> USE ProgramsApart
<1>1. /\ Protocol /\ AnswersFrom /\ running = SysTask /\ pc[SysTask] = "handle"
      /\ SysTask \notin Senders \cup Receivers
      /\ Senders \subseteq Proc /\ Receivers \subseteq Proc /\ Senders \cap Receivers = {}
  BY CallerState
<1>2. Sent(SysTask, msg[SysTask].sender, d)
  BY <1>1, SendEffect DEF ServicesInv, Protocol, Held
<1>3. \A q \in Proc : pc'[q] = IF q = SysTask THEN l ELSE pc[q]
  BY <1>1 DEF Protocol, Places, Goto
<1>4. Places'
  BY <1>1, <1>2, <1>3 DEF Protocol, Places, Goto
<1>5. OnlyTTYFlagged'
  BY <1>1, <1>2, <1>3 DEF Protocol, OnlyTTYFlagged, Pending, Sent
<1>6. SendersRight'
  BY <1>1, <1>2, <1>3 DEF Protocol, SendersRight, Sent
<1>7. ReceiversRight'
  BY <1>1, <1>2, <1>3 DEF Protocol, ReceiversRight, SendersRight, Held, Sent
<1>8. RequestsRight'
  BY <1>1, <1>2, <1>3
     DEF Protocol, RequestsRight, SendersRight, ReceiversRight, AsksSysTask, AsksTTY,
         Calling, Request, Sent
<1>9. Held'
  BY <1>1, <1>2, <1>3
     DEF Protocol, Held, SendersRight, RequestsRight, ReceiversRight, AsksSysTask,
         AsksTTY, Calling, Request, QUERY_PROC, UNREG_PROC, REG_PROC, PROC_VIR2PHY, Sent
<1>10. RepliesRight'
  BY <1>1, <1>2, <1>3
     DEF Protocol, RepliesRight, SendersRight, ReceiversRight, RequestsRight,
         AsksSysTask, AsksTTY, Calling, Held, Request, QUERY_PROC, UNREG_PROC, Sent
<1>11. AnswersFrom'
  BY <1>1, <1>2, <1>3
     DEF Protocol, AnswersFrom, Places, SendersRight, ReceiversRight, RequestsRight,
         Sent
<1>12. QED
  BY <1>4, <1>5, <1>6, <1>7, <1>8, <1>9, <1>10, <1>11 DEF Protocol

\* The second reply after UNREG_PROC goes to SysTask itself.
LEMMA SysTaskFallsThrough ==
  ASSUME ServicesInv, Going',
         At(SysTask, "fall"), NEW d, Send(msg[SysTask].sender, d), Goto(SysTask, "recv"), UNCHANGED peer
  PROVE  Protocol' /\ AnswersFrom'
<1> USE ProgramsApart
<1>1. /\ Protocol /\ AnswersFrom /\ running = SysTask /\ pc[SysTask] = "fall"
      /\ SysTask \notin Senders \cup Receivers
      /\ Senders \subseteq Proc /\ Receivers \subseteq Proc /\ Senders \cap Receivers = {}
  BY CallerState
<1>2. Sent(SysTask, SysTask, d)
  BY <1>1, SendEffect DEF ServicesInv, Protocol, Held
<1>3. \A q \in Proc : pc'[q] = IF q = SysTask THEN "recv" ELSE pc[q]
  BY <1>1 DEF Protocol, Places, Goto
<1>4. Places'
  BY <1>1, <1>2, <1>3 DEF Protocol, Places, Goto
<1>5. OnlyTTYFlagged'
  BY <1>1, <1>2, <1>3 DEF Protocol, OnlyTTYFlagged, Pending, Sent
<1>6. SendersRight'
  BY <1>1, <1>2, <1>3 DEF Protocol, SendersRight, Sent
<1>7. ReceiversRight'
  BY <1>1, <1>2, <1>3 DEF Protocol, ReceiversRight, SendersRight, Held, Sent
<1>8. RequestsRight'
  BY <1>1, <1>2, <1>3
     DEF Protocol, RequestsRight, SendersRight, ReceiversRight, AsksSysTask, AsksTTY,
         Calling, Request, Sent
<1>9. Held'
  BY <1>1, <1>2, <1>3
     DEF Protocol, Held, SendersRight, RequestsRight, ReceiversRight, AsksSysTask,
         AsksTTY, Calling, Request, Sent
<1>10. RepliesRight'
  BY <1>1, <1>2, <1>3
     DEF Protocol, RepliesRight, SendersRight, ReceiversRight, RequestsRight,
         AsksSysTask, AsksTTY, Calling, Held, Sent
<1>11. AnswersFrom'
  BY <1>1, <1>2, <1>3
     DEF Protocol, AnswersFrom, Places, SendersRight, ReceiversRight, RequestsRight,
         Sent
<1>12. QED
  BY <1>4, <1>5, <1>6, <1>7, <1>8, <1>9, <1>10, <1>11 DEF Protocol

\* SysIdle waits for a message, which nobody sends it.
LEMMA SysIdleReceives ==
  ASSUME ServicesInv, Going',
         At(SysIdle, "recv"), Recv(PROC_ANY), Goto(SysIdle, "back"), UNCHANGED peer
  PROVE  Protocol' /\ AnswersFrom'
<1> USE ProgramsApart
<1>1. /\ Protocol /\ AnswersFrom /\ running = SysIdle /\ pc[SysIdle] = "recv"
      /\ SysIdle \notin Senders \cup Receivers
      /\ Senders \subseteq Proc /\ Receivers \subseteq Proc /\ Senders \cap Receivers = {}
  BY CallerState
<1>2. Received(SysIdle, PROC_ANY)
  BY <1>1, RecvEffect DEF ServicesInv
<1>3. \A q \in Proc : pc'[q] = IF q = SysIdle THEN "back" ELSE pc[q]
  BY <1>1 DEF Protocol, Places, Goto
<1>4. Places'
  BY <1>1, <1>2, <1>3 DEF Protocol, Places, Goto
<1>5. OnlyTTYFlagged'
  BY <1>1, <1>2, <1>3 DEF Protocol, OnlyTTYFlagged, Pending, Received
<1>6. SendersRight'
  BY <1>1, <1>2, <1>3
     DEF Protocol, SendersRight, OnlyTTYFlagged, Pending, RepliesRight, RequestsRight,
         AsksSysTask, AsksTTY, Calling, Received
<1>7. ReceiversRight'
  BY <1>1, <1>2, <1>3
     DEF Protocol, ReceiversRight, SendersRight, OnlyTTYFlagged, Pending, RepliesRight,
         RequestsRight, AsksSysTask, AsksTTY, Calling, Received
<1>8. RequestsRight'
  BY <1>1, <1>2, <1>3
     DEF Protocol, RequestsRight, SendersRight, ReceiversRight, AsksSysTask, AsksTTY,
         Calling, Request, OnlyTTYFlagged, Pending, RepliesRight, Received
<1>9. Held'
  BY <1>1, <1>2, <1>3
     DEF Protocol, Held, SendersRight, RequestsRight, ReceiversRight, AsksSysTask,
         AsksTTY, Calling, Request, OnlyTTYFlagged, Pending, RepliesRight, Received
<1>10. RepliesRight'
  BY <1>1, <1>2, <1>3
     DEF Protocol, RepliesRight, SendersRight, ReceiversRight, RequestsRight,
         AsksSysTask, AsksTTY, Calling, OnlyTTYFlagged, Pending, Received
<1>11. AnswersFrom'
  BY <1>1, <1>2, <1>3
     DEF Protocol, AnswersFrom, Places, SendersRight, ReceiversRight, RequestsRight,
         Received
<1>12. QED
  BY <1>4, <1>5, <1>6, <1>7, <1>8, <1>9, <1>10, <1>11 DEF Protocol

\* SysTask learns its own number.
LEMMA SysTaskBoots ==
  ASSUME ServicesInv, Going', At(SysTask, "boot"), Recv(0), Goto(SysTask, "recv"), UNCHANGED peer
  PROVE  Protocol' /\ AnswersFrom'
<1> USE ProgramsApart
<1>1. /\ Protocol /\ AnswersFrom /\ running = SysTask /\ pc[SysTask] = "boot"
      /\ SysTask \notin Senders \cup Receivers
      /\ Senders \subseteq Proc /\ Receivers \subseteq Proc /\ Senders \cap Receivers = {}
  BY CallerState
<1>2. /\ UNCHANGED status
      /\ \A q \in Proc \ {SysTask} : msg'[q] = msg[q]
  <2>1. RecvReflect(0)
    BY <1>1
       DEF Recv, RecvGotInt, RecvGotExc, RecvQueued, RecvBlock, FromInterrupt, Halt,
           Going
  <2>2. QED
    BY <1>1, <2>1 DEF RecvReflect, ServicesInv, KernelInv, TypeOK
<1>3. Receivers' = Receivers /\ Senders' = Senders /\ \A q \in Proc : Pending(q)' = Pending(q)
  BY <1>2 DEF Receivers, Senders, Receiving, Sending, Pending
<1>4. \A q \in Proc : pc'[q] = IF q = SysTask THEN "recv" ELSE pc[q]
  BY <1>1 DEF Protocol, Places, Goto
<1>5. Places'
  BY <1>1, <1>2, <1>3, <1>4 DEF Protocol, Places, Goto
<1>6. OnlyTTYFlagged'
  BY <1>1, <1>2, <1>3, <1>4 DEF Protocol, OnlyTTYFlagged, Pending
<1>7. SendersRight'
  BY <1>1, <1>2, <1>3, <1>4 DEF Protocol, SendersRight
<1>8. ReceiversRight'
  BY <1>1, <1>2, <1>3, <1>4 DEF Protocol, ReceiversRight, SendersRight
<1>9. RequestsRight'
  BY <1>1, <1>2, <1>3, <1>4
     DEF Protocol, RequestsRight, SendersRight, ReceiversRight, AsksSysTask, AsksTTY,
         Calling, Request
<1>10. Held'
  BY <1>1, <1>2, <1>3, <1>4
     DEF Protocol, Held, SendersRight, RequestsRight, ReceiversRight, AsksSysTask,
         AsksTTY, Calling, Request
<1>11. RepliesRight'
  BY <1>1, <1>2, <1>3, <1>4
     DEF Protocol, RepliesRight, SendersRight, ReceiversRight, RequestsRight,
         AsksSysTask, AsksTTY, Calling
<1>12. AnswersFrom'
  BY <1>1, <1>2, <1>3, <1>4
     DEF Protocol, AnswersFrom, Places, SendersRight, ReceiversRight, RequestsRight
<1>13. QED
  BY <1>5, <1>6, <1>7, <1>8, <1>9, <1>10, <1>11, <1>12 DEF Protocol

\* A client goes on without a system call.
LEMMA ClientRests ==
  ASSUME ServicesInv, Going', NEW c \in Client, At(c, "found") \/ At(c, "done"),
         Goto(c, "idle"), UNCHANGED <<vars, peer>>
  PROVE  Protocol' /\ AnswersFrom'
<1> USE ProgramsApart
<1>1. /\ Protocol /\ AnswersFrom /\ running = c /\ pc[c] \in {"found", "done"}
      /\ c \notin Senders \cup Receivers
      /\ Senders \subseteq Proc /\ Receivers \subseteq Proc /\ Senders \cap Receivers = {}
  BY CallerState
<1>2. Receivers' = Receivers /\ Senders' = Senders /\ \A q \in Proc : Pending(q)' = Pending(q)
  BY DEF Receivers, Senders, Receiving, Sending, Pending, vars
<1>3. msg' = msg /\ \A q \in Proc : pc'[q] = IF q = c THEN "idle" ELSE pc[q]
  BY <1>1 DEF Protocol, Places, Goto, vars
<1>4. Places'
  BY <1>1, <1>2, <1>3 DEF Protocol, Places, Goto
<1>5. OnlyTTYFlagged'
  BY <1>1, <1>2, <1>3 DEF Protocol, OnlyTTYFlagged, Pending
<1>6. SendersRight'
  BY <1>1, <1>2, <1>3 DEF Protocol, SendersRight
<1>7. ReceiversRight'
  BY <1>1, <1>2, <1>3 DEF Protocol, ReceiversRight, SendersRight
<1>8. RequestsRight'
  BY <1>1, <1>2, <1>3
     DEF Protocol, RequestsRight, SendersRight, ReceiversRight, AsksSysTask, AsksTTY,
         Calling, Request
<1>9. Held'
  BY <1>1, <1>2, <1>3
     DEF Protocol, Held, SendersRight, RequestsRight, ReceiversRight, AsksSysTask,
         AsksTTY, Calling, Request
<1>10. RepliesRight'
  BY <1>1, <1>2, <1>3
     DEF Protocol, RepliesRight, SendersRight, ReceiversRight, RequestsRight,
         AsksSysTask, AsksTTY, Calling
<1>11. AnswersFrom'
  BY <1>1, <1>2, <1>3
     DEF Protocol, AnswersFrom, Places, SendersRight, ReceiversRight, RequestsRight
<1>12. QED
  BY <1>4, <1>5, <1>6, <1>7, <1>8, <1>9, <1>10, <1>11 DEF Protocol

\* A keyboard interrupt gets into a receive of TaskTTY that accepts anybody.
LEMMA InterruptArrives ==
  ASSUME ServicesInv, NEW i \in Irq, HwInterrupt(i), UNCHANGED programs
  PROVE  Protocol' /\ AnswersFrom'
<1> USE ProgramsApart
<1>1. /\ Protocol /\ AnswersFrom /\ Subscriber[i] = TTY
      /\ Senders \subseteq Proc /\ Receivers \subseteq Proc /\ Senders \cap Receivers = {}
      /\ status \in [Proc -> SUBSET Flag] /\ msg \in [Proc -> Message]
  <2>1. mode \in {"user", "idle"} /\ Subscriber[i] # 0
    BY DEF HwInterrupt
  <2>2. QED
    BY <2>1
       DEF ServicesInv, Going, KernelInv, TypeOK, Senders, Receivers,
           NoMissedRendezvous, Sending, Receiving
<1>2. /\ \A q \in Proc \ {TTY} : msg'[q] = msg[q] /\ Pending(q)' = Pending(q)
      /\ Senders' = Senders
      /\ \/ Receivers' = Receivers /\ msg'[TTY] = msg[TTY]
         \/ /\ TTY \in Receivers /\ msg[TTY].sender \in {PROC_ANY, PROC_INTERRUPT}
            /\ msg'[TTY].sender = PROC_INTERRUPT /\ Receivers' = Receivers \ {TTY}
  <2>1. CASE WaitsForInterrupt(status, TTY)
    <3>1. status' = [status EXCEPT ![TTY] = @ \ {"RECEIVING"}] /\ Notify(TTY, i)
      BY <1>1, <2>1 DEF HwInterrupt
    <3>2. Senders' = Senders /\ Receivers' = Receivers \ {TTY}
          /\ \A q \in Proc : Pending(q)' = Pending(q)
      BY <1>1, <3>1 DEF Senders, Receivers, Sending, Receiving, Pending
    <3>3. msg'[TTY].sender = PROC_INTERRUPT /\ \A q \in Proc \ {TTY} : msg'[q] = msg[q]
      BY <1>1, <3>1 DEF Notify, Message
    <3>4. QED
      BY <2>1, <3>2, <3>3 DEF WaitsForInterrupt, Receivers, Receiving
  <2>2. CASE ~WaitsForInterrupt(status, TTY)
    <3>1. status' = [status EXCEPT ![TTY] = @ \cup {"GOTINT"}] /\ msg' = msg
      BY <1>1, <2>2 DEF HwInterrupt
    <3>2. Senders' = Senders /\ Receivers' = Receivers
          /\ \A q \in Proc \ {TTY} : Pending(q)' = Pending(q)
      BY <1>1, <3>1 DEF Senders, Receivers, Sending, Receiving, Pending
    <3>3. QED
      BY <3>1, <3>2
  <2>3. QED
    BY <2>1, <2>2
<1>3. pc' = pc /\ peer' = peer
  BY DEF programs
<1>4. Places'
  BY <1>1, <1>2, <1>3 DEF Protocol, Places, Goto
<1>5. OnlyTTYFlagged'
  BY <1>1, <1>2, <1>3 DEF Protocol, OnlyTTYFlagged, Pending
<1>6. SendersRight'
  BY <1>1, <1>2, <1>3 DEF Protocol, SendersRight
<1>7. ReceiversRight'
  BY <1>1, <1>2, <1>3 DEF Protocol, ReceiversRight, SendersRight
<1>8. RequestsRight'
  BY <1>1, <1>2, <1>3
     DEF Protocol, RequestsRight, SendersRight, ReceiversRight, AsksSysTask, AsksTTY,
         Calling, Request
<1>9. Held'
  BY <1>1, <1>2, <1>3
     DEF Protocol, Held, SendersRight, RequestsRight, ReceiversRight, AsksSysTask,
         AsksTTY, Calling, Request
<1>10. RepliesRight'
  BY <1>1, <1>2, <1>3
     DEF Protocol, RepliesRight, SendersRight, ReceiversRight, RequestsRight,
         AsksSysTask, AsksTTY, Calling
<1>11. AnswersFrom'
  BY <1>1, <1>2, <1>3
     DEF Protocol, AnswersFrom, Places, SendersRight, ReceiversRight, RequestsRight
<1>12. QED
  BY <1>4, <1>5, <1>6, <1>7, <1>8, <1>9, <1>10, <1>11 DEF Protocol

\* The scheduler changes nothing that the protocol is about.
LEMMA SchedulerStep ==
  ASSUME ServicesInv, Timer \/ IdleStep, UNCHANGED programs
  PROVE  Protocol' /\ AnswersFrom'
<1>1. Protocol /\ AnswersFrom
  BY DEF ServicesInv, Timer, IdleStep, Going
<1>2. status' = status /\ msg' = msg /\ pc' = pc /\ peer' = peer
  BY DEF Timer, IdleStep, programs
<1>3. Receivers' = Receivers /\ Senders' = Senders /\ \A q \in Proc : Pending(q)' = Pending(q)
  BY <1>2 DEF Receivers, Senders, Receiving, Sending, Pending
<1>4. Places'
  BY <1>1, <1>2, <1>3 DEF Protocol, Places, Goto
<1>5. OnlyTTYFlagged'
  BY <1>1, <1>2, <1>3 DEF Protocol, OnlyTTYFlagged, Pending
<1>6. SendersRight'
  BY <1>1, <1>2, <1>3 DEF Protocol, SendersRight
<1>7. ReceiversRight'
  BY <1>1, <1>2, <1>3 DEF Protocol, ReceiversRight, SendersRight
<1>8. RequestsRight'
  BY <1>1, <1>2, <1>3
     DEF Protocol, RequestsRight, SendersRight, ReceiversRight, AsksSysTask, AsksTTY,
         Calling, Request
<1>9. Held'
  BY <1>1, <1>2, <1>3
     DEF Protocol, Held, SendersRight, RequestsRight, ReceiversRight, AsksSysTask,
         AsksTTY, Calling, Request
<1>10. RepliesRight'
  BY <1>1, <1>2, <1>3
     DEF Protocol, RepliesRight, SendersRight, ReceiversRight, RequestsRight,
         AsksSysTask, AsksTTY, Calling
<1>11. AnswersFrom'
  BY <1>1, <1>2, <1>3
     DEF Protocol, AnswersFrom, Places, SendersRight, ReceiversRight, RequestsRight
<1>12. QED
  BY <1>4, <1>5, <1>6, <1>7, <1>8, <1>9, <1>10, <1>11 DEF Protocol

(* Every step of the programs *)

\* query_proc answers with TaskTTY or 0: nobody else holds that name.
LEMMA QueriedIsTTY ==
  ASSUME NamesOwn
  PROVE  Queried \in {0, TTY}
<1>1. \A p \in Holders : p = TTY
  BY ProgramsApart DEF NamesOwn, Holders, NameOf
<1>2. CASE Holders = {}
  BY <1>2 DEF Queried
<1>3. CASE Holders # {}
  <2>1. Holders = {TTY}
    BY <1>1, <1>3
  <2>2. \E p \in Holders : \A q \in Holders : p <= q
    BY <2>1, ProgramsApart
  <2>3. Queried \in Holders
    BY <1>3, <2>2 DEF Queried
  <2>4. QED
    BY <2>1, <2>3
<1>4. QED
  BY <1>2, <1>3

\* SysTask answers whom it should: one lemma above for each step of its loop.
LEMMA SysTaskKeepsProtocol ==
  ASSUME ServicesInv, SysTaskStep, Going'
  PROVE  Protocol' /\ AnswersFrom'
<1> USE DEF QUERY_PROC, REG_PROC, UNREG_PROC, GET_TICKS, PROC_VIR2PHY
<1>1. CASE At(SysTask, "boot") /\ Recv(0) /\ Goto(SysTask, "recv") /\ UNCHANGED <<name, peer>>
  BY <1>1, SysTaskBoots
<1>2. CASE At(SysTask, "recv") /\ Recv(PROC_ANY) /\ Goto(SysTask, "handle") /\ UNCHANGED <<name, peer>>
  BY <1>2, SysTaskReceives
<1>3. CASE SysTaskHandle
  <2>1. CASE /\ At(SysTask, "handle") /\ Got(SysTask).body # UNREG_PROC
             /\ \E d : /\ Send(msg[SysTask].sender, d)
                       /\ Got(SysTask).body = QUERY_PROC => d = Queried
             /\ Goto(SysTask, "recv") /\ UNCHANGED peer
    BY <2>1, SysTaskReplies, QueriedIsTTY DEF ServicesInv, Got
  <2>2. CASE /\ At(SysTask, "handle") /\ Got(SysTask).body = UNREG_PROC
             /\ Send(msg[SysTask].sender, 0) /\ Goto(SysTask, "fall") /\ UNCHANGED peer
    BY <2>2, SysTaskReplies DEF Got
  <2>3. CASE /\ At(SysTask, "fall") /\ Send(msg[SysTask].sender, Queried)
             /\ Goto(SysTask, "recv") /\ UNCHANGED peer
    BY <2>3, SysTaskFallsThrough
  <2>4. UNCHANGED peer
    BY <1>3 DEF SysTaskHandle
  <2>5. CASE /\ At(SysTask, "handle") /\ Got(SysTask).body = REG_PROC
             /\ Send(Got(SysTask).sender, IF Taken(Got(SysTask).sender) THEN Failure ELSE 0)
             /\ Goto(SysTask, "recv")
    BY <2>1, <2>4, <2>5 DEF Got
  <2>6. CASE /\ At(SysTask, "handle") /\ Got(SysTask).body = UNREG_PROC
             /\ Send(Got(SysTask).sender, 0) /\ Goto(SysTask, "fall")
    BY <2>2, <2>4, <2>6 DEF Got
  <2>7. CASE /\ \/ At(SysTask, "fall")
                \/ At(SysTask, "handle") /\ Got(SysTask).body = QUERY_PROC
             /\ Send(Got(SysTask).sender, Queried) /\ Goto(SysTask, "recv")
    BY <2>1, <2>3, <2>4, <2>7 DEF Got
  <2>8. CASE /\ At(SysTask, "handle") /\ Got(SysTask).body \in {GET_TICKS, PROC_VIR2PHY}
             /\ Send(Got(SysTask).sender, 0) /\ Goto(SysTask, "recv")
    BY <2>1, <2>4, <2>8 DEF Got
  <2>9. QED
    BY <1>3, <2>5, <2>6, <2>7, <2>8 DEF SysTaskHandle
<1>4. QED
  BY <1>1, <1>2, <1>3 DEF SysTaskStep

\* So does TaskTTY.
LEMMA TTYKeepsProtocol ==
  ASSUME ServicesInv, TTYStep, Going'
  PROVE  Protocol' /\ AnswersFrom'
<1>1. CASE At(TTY, "reg") /\ Send(SysTask, REG_PROC) /\ Goto(TTY, "boot") /\ UNCHANGED peer
  BY <1>1, TTYRegisters
<1>2. CASE At(TTY, "boot") /\ Recv(SysTask) /\ Goto(TTY, "recv") /\ UNCHANGED peer
  BY <1>2, TTYReceives
<1>7. CASE At(TTY, "phys") /\ Recv(SysTask) /\ Goto(TTY, "back") /\ UNCHANGED peer
  BY <1>7, TTYReceives
<1>3. CASE At(TTY, "recv") /\ Recv(PROC_ANY) /\ Goto(TTY, "handle") /\ UNCHANGED peer
  BY <1>3, TTYReceivesAny
<1>4. CASE At(TTY, "back") /\ Send(peer[TTY], TTY_WRITE) /\ Goto(TTY, "recv") /\ UNCHANGED peer
  BY <1>4, TTYReplies
<1>5. CASE TTYHandle
  BY <1>5, TTYAsksAddress, TTYReceivesAny DEF TTYHandle, Got
<1>6. QED
  BY <1>1, <1>2, <1>3, <1>4, <1>5, <1>7 DEF TTYStep

\* Clients ask SysTask, or TaskTTY if query_proc has found it.
LEMMA ClientKeepsProtocol ==
  ASSUME ServicesInv, NEW c \in Client, ClientStep(c), Going'
  PROVE  Protocol' /\ AnswersFrom'
<1>1. CASE ClientStart(c)
  <2>1. PICK op \in Calls[c] : IF op = TTY_WRITE
                               THEN Send(SysTask, QUERY_PROC) /\ Goto(c, "query")
                               ELSE Send(SysTask, op) /\ Goto(c, "call")
    BY <1>1 DEF ClientStart
  <2>2. At(c, "idle") /\ peer' = [peer EXCEPT ![c] = SysTask]
    BY <1>1 DEF ClientStart
  <2>3. CASE op = TTY_WRITE
    BY <2>1, <2>2, <2>3, ClientAsksSysTask
  <2>4. CASE op # TTY_WRITE
    BY <2>1, <2>2, <2>4, ClientAsksSysTask, ProgramsApart
  <2>5. QED
    BY <2>3, <2>4
<1>2. CASE ClientFound(c)
  <2>1. CASE /\ At(c, "found") /\ Got(c).body # 0 /\ peer' = [peer EXCEPT ![c] = Got(c).body]
             /\ Send(Got(c).body, TTY_WRITE) /\ Goto(c, "call")
    <3>1. Got(c).body = TTY
      BY <2>1, ProgramsApart DEF At, ServicesInv, Going, Protocol, RepliesRight, Got
    <3>2. QED
      BY <2>1, <3>1, ClientAsksTTY
  <2>2. CASE At(c, "found") /\ Send(SysTask, QUERY_PROC) /\ Goto(c, "query") /\ UNCHANGED peer
    BY <2>2, ClientAsksSysTask
  <2>3. CASE At(c, "found") /\ Goto(c, "idle") /\ UNCHANGED <<vars, peer>>
    BY <2>3, ClientRests
  <2>4. QED
    BY <1>2, <2>1, <2>2, <2>3 DEF ClientFound
<1>3. CASE \/ At(c, "query") /\ Recv(SysTask) /\ Goto(c, "found") /\ UNCHANGED peer
           \/ At(c, "call") /\ Recv(peer[c]) /\ Goto(c, "done") /\ UNCHANGED peer
  BY <1>3, ClientReceives
<1>4. CASE At(c, "done") /\ Goto(c, "idle") /\ UNCHANGED <<vars, peer>>
  BY <1>4, ClientRests
<1>5. QED
  BY <1>1, <1>2, <1>3, <1>4 DEF ClientStep

\* While the kernel runs, every step keeps the protocol and the answers right.
LEMMA ProtocolKept ==
  ASSUME ServicesInv, ServicesNext, Going'
  PROVE  Protocol' /\ AnswersFrom'
<1>1. CASE SysIdleStep
  <2>1. ~At(SysIdle, "back")
    BY CallerState, ProgramsApart DEF Protocol, ReceiversRight
  <2>2. QED
    BY <1>1, <2>1, SysIdleReceives DEF SysIdleStep
<1>2. CASE KernelStep
  BY <1>2, InterruptArrives, SchedulerStep DEF KernelStep
<1>3. QED
  BY <1>1, <1>2, SysTaskKeepsProtocol, TTYKeepsProtocol, ClientKeepsProtocol
     DEF ServicesNext

\* A call in which the kernel stops leaves the messages alone.
LEMMA StoppingCall ==
  ASSUME ServicesInv, ~Going', mode = "user"
  PROVE  /\ \A r, d : Send(r, d) => UNCHANGED msg
         /\ \A from : Recv(from) => /\ UNCHANGED msg
                                    /\ from \in {running, PROC_ANY, PROC_INTERRUPT}
<1>1. running \in Proc /\ msg \in [Proc -> Message] /\ status \in [Proc -> SUBSET Flag]
  BY CallerFree DEF ServicesInv
<1>2. ASSUME NEW st, Schedule(st) PROVE Going'
  BY <1>2 DEF Schedule, Going
<1>3. ASSUME NEW r, NEW d, Send(r, d) PROVE UNCHANGED msg
  BY <1>2, <1>3 DEF Send, Halt, Deliver, Enqueue, Going
<1>4. ASSUME NEW from, Recv(from)
      PROVE  UNCHANGED msg /\ from \in {running, PROC_ANY, PROC_INTERRUPT}
  BY <1>2, <1>4
     DEF Recv, Halt, RecvReflect, RecvGotInt, RecvGotExc, RecvQueued, RecvBlock,
         FromInterrupt, Going
<1>5. QED
  BY <1>3, <1>4

\* Nor does it bring a program to where it has got its answer.
LEMMA AnswersKeptAtStop ==
  ASSUME ServicesInv, ServicesNext, ~Going'
  PROVE  AnswersFrom'
<1> USE ProgramsApart
<1>1. ~KernelStep
  BY DEF KernelStep, Timer, IdleStep, HwInterrupt, Schedule, Going
<1>2. mode = "user" /\ Places /\ AnswersFrom
  BY <1>1
     DEF ServicesNext, SysIdleStep, SysTaskStep, SysTaskHandle, TTYStep, TTYHandle,
         ClientStep,
              ClientStart, ClientFound, At, ServicesInv, Protocol, Going
<1>3. ~UNCHANGED vars
  BY <1>2 DEF vars, Going
<1> DEFINE Elsewhere == /\ UNCHANGED msg
                        /\ \A c \in Client : /\ pc'[c] = "done" => pc[c] = "done" /\ peer'[c] = peer[c]
                                             /\ pc'[c] = "found" => pc[c] = "found"
                        /\ pc'[TTY] = "back" => pc[TTY] = "back"
<1>4. ASSUME SysIdleStep PROVE Elsewhere
  <2>1. UNCHANGED <<msg, peer>> /\ \A q \in Proc \ {SysIdle} : pc'[q] = pc[q]
    BY <1>2, <1>4, StoppingCall DEF SysIdleStep, Goto, Places
  <2>2. QED
    BY <2>1
<1>5. ASSUME SysTaskStep PROVE Elsewhere
  <2>1. UNCHANGED <<msg, peer>> /\ \A q \in Proc \ {SysTask} : pc'[q] = pc[q]
    BY <1>2, <1>5, StoppingCall DEF SysTaskStep, SysTaskHandle, Goto, Places
  <2>2. QED
    BY <2>1
<1>6. ASSUME TTYStep PROVE Elsewhere
  <2>1. \A q \in Proc \ {TTY} : pc'[q] = pc[q] /\ peer'[q] = peer[q]
    BY <1>2, <1>6 DEF TTYStep, TTYHandle, Goto, Places
  <2>2. UNCHANGED msg
    BY <1>2, <1>6, StoppingCall DEF TTYStep, TTYHandle
  <2>3. pc'[TTY] # "back" \/ pc[TTY] = "back"
    BY <1>2, <1>6, StoppingCall DEF TTYStep, TTYHandle, Goto, Places, At
  <2>4. QED
    BY <2>1, <2>2, <2>3
<1>7. ASSUME NEW c \in Client, ClientStep(c)
      PROVE  Elsewhere
  <2>1. \A q \in Proc \ {c} : pc'[q] = pc[q] /\ peer'[q] = peer[q]
    BY <1>2, <1>3, <1>7 DEF ClientStep, ClientStart, ClientFound, Goto, Places, vars
  <2>2. UNCHANGED msg
    BY <1>2, <1>3, <1>7, StoppingCall DEF ClientStep, ClientStart, ClientFound
  <2>3. pc'[c] \notin {"done", "found"}
    <3>1. CASE ClientStart(c) \/ ClientFound(c)
      BY <1>2, <1>3, <3>1 DEF ClientStart, ClientFound, Goto, Places
    <3>2. ~(At(c, "query") /\ Recv(SysTask)) /\ ~(At(c, "call") /\ Recv(peer[c]))
      BY <1>2, StoppingCall DEF At, Places
    <3>3. QED
      BY <1>3, <1>7, <3>1, <3>2 DEF ClientStep
  <2>4. QED
    BY <2>1, <2>2, <2>3
<1>8. Elsewhere
  BY <1>1, <1>4, <1>5, <1>6, <1>7 DEF ServicesNext
<1>9. QED
  BY <1>2, <1>8 DEF AnswersFrom

\* Only SysTask writes names: it registers one that it does not find, or removes one.
LEMMA NamesKept ==
  ASSUME ServicesInv, ServicesNext
  PROVE  NamesOwn'
<1> USE ProgramsApart
<1>1. CASE UNCHANGED name
  BY <1>1 DEF ServicesInv, NamesOwn, NamesUnique
<1>2. CASE At(SysTask, "handle") /\ RegProc(msg[SysTask].sender)
  <2>1. msg[SysTask].sender \in Proc
    BY <1>2, CallerState DEF Protocol, Held
  <2>2. CASE ~Taken(msg[SysTask].sender)
    <3> DEFINE f == msg[SysTask].sender
    <3>1. \A q \in Proc \ {f} : Scanned(q) => name[q] # NameOf(f)
      BY <2>2 DEF Taken
    <3>2. DOMAIN name' = Proc /\ \A q \in Proc : name'[q] = IF q = f THEN NameOf(f) ELSE name[q]
      BY <1>2, <2>1, <2>2 DEF RegProc, ServicesInv, NamesOwn
    <3> HIDE DEF f
    <3>3. QED
      BY <3>1, <3>2 DEF ServicesInv, NamesOwn, NamesUnique
  <2>3. QED
    BY <1>1, <1>2, <2>2 DEF RegProc
<1>3. CASE At(SysTask, "handle") /\ name' = [name EXCEPT ![msg[SysTask].sender] = ""]
  BY <1>3 DEF ServicesInv, NamesOwn, NamesUnique
<1>4. CASE SysTaskHandle
  BY <1>1, <1>2, <1>3, <1>4 DEF SysTaskHandle, Got
<1>5. QED
  BY <1>1, <1>4
     DEF ServicesNext, SysIdleStep, SysTaskStep, TTYStep, ClientStep, KernelStep,
         programs

\* The programs only make calls that Next of IPC.tla knows.
LEMMA ProgramsMakeCalls ==
  ASSUME ServicesInv, [ServicesNext]_svars
  PROVE  [Next]_vars
<1> USE ProgramsApart
<1>0. /\ \A r \in Proc, d \in Payload : Send(r, d) => Next
      /\ \A from \in Proc \cup {PROC_ANY} : Recv(from) => Next
      /\ Proc \subseteq Payload
      /\ {Failure, GET_TICKS, REG_PROC, QUERY_PROC, PROC_VIR2PHY, TTY_WRITE} \cup Ops \subseteq Payload
  BY ServicesAssumption DEF Next, Source, ServicesAssumption
<1>1. CASE SysIdleStep
  <2>1. ~At(SysIdle, "back")
    BY CallerState, ProgramsApart DEF Protocol, ReceiversRight
  <2>2. QED
    BY <1>0, <1>1, <2>1 DEF SysIdleStep
<1>2. CASE SysTaskStep
  <2>1. CASE SysTaskHandle
    <3>1. msg[SysTask].sender \in Proc
      BY <2>1, CallerState DEF SysTaskHandle, Protocol, Held
    <3>2. Queried \in Proc
      BY QueriedIsTTY DEF ServicesInv
    <3>3. QED
      BY <1>0, <2>1, <3>1, <3>2 DEF SysTaskHandle, Got
  <2>2. QED
    BY <1>0, <1>2, <2>1 DEF SysTaskStep
<1>3. CASE TTYStep
  <2>1. At(TTY, "back") => peer[TTY] \in Proc
    BY CallerState DEF Protocol, Places
  <2>2. QED
    BY <1>0, <1>3, <2>1 DEF TTYStep, TTYHandle
<1>4. ASSUME NEW c \in Client, ClientStep(c)
      PROVE  [Next]_vars
  <2>1. At(c, "call") => peer[c] \in Proc
    BY CallerState DEF Protocol, Places
  <2>2. At(c, "found") => msg[c].body \in Proc
    BY CallerState DEF Protocol, RepliesRight
  <2>3. QED
    BY <1>0, <1>4, <2>1, <2>2 DEF ClientStep, ClientStart, ClientFound, Got
<1>5. CASE KernelStep
  BY <1>5 DEF KernelStep, Next
<1>6. CASE UNCHANGED svars
  BY <1>6 DEF svars
<1>7. QED
  BY <1>1, <1>2, <1>3, <1>4, <1>5, <1>6 DEF ServicesNext

(* The theorems *)

\* The invariant holds at first ...
LEMMA ServicesInitInv == ServicesInit => ServicesInv
<1> SUFFICES ASSUME ServicesInit
             PROVE  ServicesInv
  OBVIOUS
<1> USE ProgramsApart
<1>1. /\ \A p \in Proc : status[p] = {}
      /\ Senders = {} /\ Receivers = {} /\ DOMAIN pc = Proc
  BY DEF ServicesInit, Init, Senders, Receivers, Sending, Receiving
<1>2. pc[SysIdle] = "recv" /\ pc[SysTask] = "boot" /\ pc[TTY] = "reg" /\ \A c \in Client : pc[c] = "idle"
  BY DEF ServicesInit
<1>3. KernelInv
  BY KernelInit DEF ServicesInit
<1>4. NamesOwn /\ AnswersFrom
  BY <1>2 DEF ServicesInit, NamesOwn, NamesUnique, AnswersFrom
<1>5. Places /\ OnlyTTYFlagged
  BY <1>1, <1>2 DEF ServicesInit, Places, OnlyTTYFlagged
<1>6. SendersRight /\ ReceiversRight /\ RequestsRight /\ Held /\ RepliesRight
  BY <1>1, <1>2 DEF SendersRight, ReceiversRight, RequestsRight, Held, RepliesRight
<1>7. QED
  BY <1>3, <1>4, <1>5, <1>6 DEF ServicesInv, Protocol

\* ... and every step keeps it.
LEMMA ServicesInvKept == ServicesInv /\ [ServicesNext]_svars => ServicesInv'
<1> SUFFICES ASSUME ServicesInv, [ServicesNext]_svars
             PROVE  ServicesInv'
  OBVIOUS
<1>1. KernelInv'
  BY ProgramsMakeCalls, KernelKept DEF ServicesInv
<1>2. CASE ServicesNext
  BY <1>1, <1>2, NamesKept, ProtocolKept, AnswersKeptAtStop DEF ServicesInv
<1>3. CASE UNCHANGED svars
  <2>1. Senders' = Senders /\ Receivers' = Receivers
    BY <1>3 DEF svars, vars, Senders, Receivers, Sending, Receiving
  <2>2. NamesOwn' /\ AnswersFrom' /\ Going' = Going
    BY <1>3
       DEF svars, vars, programs, ServicesInv, NamesOwn, NamesUnique, AnswersFrom, Going
  <2>3. Protocol => Protocol'
    BY <1>3, <2>1
       DEF svars, vars, programs, Protocol, Places, OnlyTTYFlagged, SendersRight,
           ReceiversRight,
       RequestsRight, Held, RepliesRight, AsksSysTask, AsksTTY, Calling, Request
  <2>4. QED
    BY <1>1, <2>2, <2>3 DEF ServicesInv
<1>4. QED
  BY <1>2, <1>3

\* The programs keep to their protocol as long as the kernel runs.
THEOREM ServicesCorrect == ServicesSpec => []ServicesInv
BY ServicesInitInv, ServicesInvKept, PTL DEF ServicesSpec

\* The programs are a case of the arbitrary ones of IPC.tla, so that all that is
\* proved of the kernel there holds while they run.
THEOREM ServicesRunOnKernel == ServicesSpec => Spec
<1>1. ServicesInit => Init
  BY DEF ServicesInit
<1>2. ServicesInv /\ [ServicesNext]_svars => [Next]_vars
  BY ProgramsMakeCalls
<1>3. QED
  BY <1>1, <1>2, ServicesCorrect, PTL DEF ServicesSpec, Spec

\* A call gets its own reply, from the server that it asked, whatever else arrives
\* meanwhile: in every state in which the caller has its answer.
THEOREM CallsGetTheirReply == ServicesSpec => []RepliesMatch
<1>1. ServicesInv => RepliesMatch
  BY DEF ServicesInv, AnswersFrom, RepliesMatch, Got
<1>2. QED
  BY <1>1, ServicesCorrect, PTL

\* Of two processes that hold the same name one has a pid that __reg_proc does not
\* look at, in any order of the requests and with any holes between the pids.
THEOREM NoNameTwiceInReach == ServicesSpec => []NamesUnique
<1>1. ServicesInv => NamesUnique
  BY DEF ServicesInv, NamesOwn
<1>2. QED
  BY <1>1, ServicesCorrect, PTL

(* Without unreg_proc the kernel never stops *)

\* send_msg(r) goes on when the walk from r comes to a process that does not send,
\* and does not pass the caller.
LEMMA CallGoesOn ==
  ASSUME NEW r \in Proc, NEW d, Send(r, d), NEW q \in SendChain(r), ~Sending(q),
         NEW S \in SUBSET Proc, r \in S, Closed(S), running \notin S
  PROVE  Going'
<1>1. ~WalkEndless(r) /\ ~DeadLock(running, r) /\ r # running
  BY DEF WalkEndless, DeadLock, SendChain
<1>2. QED
  BY <1>1 DEF Send, Deliver, Enqueue, Schedule, Going

\* A program that is not called by anybody who waits for it may call SysTask: the
\* walk ends there, or at the program that SysTask answers.
LEMMA AskingSysTaskGoesOn ==
  ASSUME ServicesInv, mode = "user", UNREG_PROC \notin Ops, NEW d, Send(SysTask, d),
         running # SysTask, ~AsksSysTask(running)
  PROVE  Going'
<1> USE ProgramsApart
<1>1. Protocol /\ TypeOK /\ running \in Proc
  BY CallerFree DEF ServicesInv, KernelInv, Going
<1>2. /\ SysTask \in SendChain(SysTask)
      /\ SysTask \in Senders => msg[SysTask].receiver \in SendChain(SysTask)
  BY <1>1, ChainClosed DEF Senders
<1>3. CASE SysTask \notin Senders
  <2>1. ~Sending(SysTask)
    BY <1>3 DEF Senders
  <2>2. Closed({SysTask})
    BY <2>1 DEF Closed
  <2>3. QED
    BY <1>1, <1>2, <2>1, <2>2, CallGoesOn
<1>4. CASE SysTask \in Senders
  <2> DEFINE p == msg[SysTask].receiver
  <2>1. p \in Proc /\ p # running /\ ~Sending(p)
    BY <1>1, <1>4 DEF Protocol, RepliesRight, Senders
  <2>2. Closed({SysTask, p})
    BY <2>1 DEF Closed
  <2> HIDE DEF p
  <2>3. p \in SendChain(SysTask)
    BY <1>2, <1>4 DEF p
  <2>4. QED
    BY <1>1, <2>1, <2>2, <2>3, CallGoesOn
<1>5. QED
  BY <1>3, <1>4

\* A client may call TaskTTY: the walk ends there, at the client that TaskTTY
\* answers, at SysTask, or at the program that SysTask answers.
LEMMA AskingTTYGoesOn ==
  ASSUME ServicesInv, mode = "user", UNREG_PROC \notin Ops, NEW d, Send(TTY, d),
         running \in Client, ~AsksSysTask(running), ~AsksTTY(running)
  PROVE  Going'
<1> USE ProgramsApart
<1>1. Protocol /\ TypeOK /\ running \in Proc
  BY CallerFree DEF ServicesInv, KernelInv, Going
<1>2. /\ TTY \in SendChain(TTY)
      /\ \A q \in SendChain(TTY) \cap Senders : msg[q].receiver \in SendChain(TTY)
  BY <1>1, ChainClosed DEF Senders
<1>3. CASE TTY \notin Senders
  <2>1. ~Sending(TTY)
    BY <1>3 DEF Senders
  <2>2. Closed({TTY})
    BY <2>1 DEF Closed
  <2>3. QED
    BY <1>1, <1>2, <2>1, <2>2, CallGoesOn
<1>4. CASE TTY \in Senders /\ msg[TTY].receiver \notin Senders
  <2> DEFINE p == msg[TTY].receiver
  <2>1. p \in Proc /\ p # running /\ ~Sending(p)
    BY <1>1, <1>4 DEF Protocol, RepliesRight, RequestsRight, SendersRight, Senders
  <2>2. Closed({TTY, p})
    BY <2>1 DEF Closed
  <2>3. p \in SendChain(TTY)
    BY <1>2, <1>4
  <2> HIDE DEF p
  <2>4. QED
    BY <1>1, <2>1, <2>2, <2>3, CallGoesOn
<1>5. CASE TTY \in Senders /\ msg[TTY].receiver \in Senders
  <2> DEFINE p == msg[SysTask].receiver
  <2>1. msg[TTY].receiver = SysTask
    BY <1>1, <1>5 DEF Protocol, RepliesRight, RequestsRight, SendersRight
  <2>2. p \in Proc /\ p # running /\ ~Sending(p)
    BY <1>1, <1>5, <2>1 DEF Protocol, RepliesRight, Senders
  <2>3. Closed({TTY, SysTask, p})
    BY <2>1, <2>2 DEF Closed
  <2>4. p \in SendChain(TTY)
    BY <1>2, <1>5, <2>1
  <2> HIDE DEF p
  <2>5. QED
    BY <1>1, <2>2, <2>3, <2>4, CallGoesOn
<1>6. QED
  BY <1>3, <1>4, <1>5

\* A server may answer a program that is not sending.
LEMMA AnsweringGoesOn ==
  ASSUME ServicesInv, NEW r \in Proc, NEW d, Send(r, d), r # running, r \notin Senders
  PROVE  Going'
<1>1. ~Sending(r)
  BY DEF Senders
<1>2. Closed({r})
  BY <1>1 DEF Closed
<1>3. r \in SendChain(r)
  BY ChainClosed DEF ServicesInv, KernelInv
<1>4. QED
  BY <1>1, <1>2, <1>3, CallGoesOn, CallerFree DEF Send, ServicesInv

\* recv_msg goes on: whoever has a flag set has something pending.
LEMMA ReceivingGoesOn ==
  ASSUME ServicesInv, PendingIsFlagged, NEW from, Recv(from), from # running
  PROVE  Going'
<1>1. running \in Proc
  BY CallerFree DEF Recv, ServicesInv
<1>2. /\ "GOTINT" \in status[running] => avail # {}
      /\ "GOTEXC" \in status[running] => excAvail
  BY <1>1 DEF PendingIsFlagged
<1>3. QED
  BY <1>2
     DEF Recv, RecvReflect, RecvGotInt, RecvGotExc, RecvQueued, RecvBlock, Schedule,
         Going

\* Without UNREG_PROC no step stops the kernel.
LEMMA GoingKept ==
  ASSUME ServicesInv, PendingIsFlagged, UNREG_PROC \notin Ops, ServicesNext
  PROVE  Going'
<1> USE ProgramsApart
<1>1. CASE SysIdleStep
  <2>1. ~At(SysIdle, "back")
    BY CallerState DEF Protocol, ReceiversRight
  <2>2. QED
    BY <1>1, <2>1, ReceivingGoesOn DEF SysIdleStep, At
<1>2. CASE SysTaskStep
  <2>1. CASE SysTaskHandle
    <3>1. ~At(SysTask, "fall")
      BY CallerState DEF Protocol, Held
    <3>2. At(SysTask, "handle") => /\ running = SysTask /\ msg[SysTask].sender \in Proc \ {SysTask}
                                   /\ msg[SysTask].sender \notin Senders
      BY CallerState DEF Protocol, Held
    <3>3. QED
      BY <2>1, <3>1, <3>2, AnsweringGoesOn DEF SysTaskHandle, Got
  <2>2. QED
    BY <1>2, <2>1, ReceivingGoesOn DEF SysTaskStep, At
<1>3. CASE TTYStep
  <2>1. mode = "user" /\ running = TTY
    BY <1>3 DEF TTYStep, TTYHandle, At
  <2>2. At(TTY, "back") => peer[TTY] \in Client /\ peer[TTY] \notin Senders
    BY CallerState DEF Protocol, Held
  <2>3. ASSUME NEW d, Send(SysTask, d), At(TTY, "reg") \/ At(TTY, "handle")
        PROVE  Going'
    <3>1. ~AsksSysTask(TTY)
      BY <2>3 DEF At, AsksSysTask, Calling
    <3>2. QED
      BY <2>1, <2>3, <3>1, AskingSysTaskGoesOn
  <2>4. CASE TTYHandle
    BY <2>1, <2>3, <2>4, ReceivingGoesOn DEF TTYHandle
  <2>5. QED
    BY <1>3, <2>1, <2>2, <2>3, <2>4, ReceivingGoesOn, AnsweringGoesOn DEF TTYStep
<1>4. ASSUME NEW c \in Client, ClientStep(c)
      PROVE  Going'
  <2>1. mode = "user" /\ running = c
    BY <1>4 DEF ClientStep, ClientStart, ClientFound, At
  <2>2. At(c, "call") => peer[c] # c
    BY CallerState DEF Protocol, Places
  <2>3. CASE At(c, "idle") \/ At(c, "found")
    <3>1. ~AsksSysTask(c) /\ ~AsksTTY(c)
      BY <2>3, CallerState DEF At, AsksSysTask, AsksTTY, Calling
    <3>2. At(c, "found") => msg[c].body \in {0, TTY}
      BY CallerState DEF Protocol, RepliesRight
    <3>3. ClientStart(c) => Going'
      BY <2>1, <3>1, AskingSysTaskGoesOn DEF ClientStart
    <3>4. ClientFound(c) => Going'
      BY <2>1, <3>1, <3>2, AskingSysTaskGoesOn, AskingTTYGoesOn
         DEF ClientFound, Got, vars, Going
    <3>5. QED
      BY <1>4, <2>3, <3>3, <3>4 DEF ClientStep, At
  <2>4. QED
    BY <1>4, <2>1, <2>2, <2>3, ReceivingGoesOn
       DEF ClientStep, ClientStart, ClientFound, At, vars, Going
<1>5. CASE KernelStep
  BY <1>5 DEF KernelStep, Timer, IdleStep, HwInterrupt, Schedule, Going
<1>6. QED
  BY <1>1, <1>2, <1>3, <1>4, <1>5 DEF ServicesNext

\* Programs that do not call unreg_proc never run into a panic, an assertion or
\* an endless walk of the kernel, in any build, as long as all interrupts belong to
\* one process, which never faults: neither their requests to one another nor their replies ever
\* close a circle.
THEOREM ServicesNeverStop ==
  UNREG_PROC \notin Ops /\ OneProcessHyp => (ServicesSpec => []Going)
<1> SUFFICES ASSUME UNREG_PROC \notin Ops, OneProcessHyp
             PROVE  ServicesSpec => []Going
  OBVIOUS
<1>1. ServicesInit => Going
  BY DEF ServicesInit, Init, Going
<1>2. ServicesInv /\ PendingIsFlagged /\ Going /\ [ServicesNext]_svars => Going'
  BY GoingKept DEF svars, vars, Going
<1>3. ServicesSpec => []PendingIsFlagged
  BY PendingTruthful, ServicesRunOnKernel, PTL
<1>4. QED
  BY <1>1, <1>2, <1>3, ServicesCorrect, PTL DEF ServicesSpec

\* So the walk of __is_dead_lock ends in a release build too ...
THEOREM ServicesWalkEnds ==
  UNREG_PROC \notin Ops /\ OneProcessHyp => (ServicesSpec => []DeadLockCheckEnds)
<1>1. Going => DeadLockCheckEnds
  BY DEF Going, DeadLockCheckEnds
<1>2. QED
  BY <1>1, ServicesNeverStop, PTL

\* ... and no program sends to itself; after unreg_proc SysTask does.
THEOREM NobodySendsToItself ==
  UNREG_PROC \notin Ops /\ OneProcessHyp => (ServicesSpec => []NoSelfSend)
<1> SUFFICES ASSUME UNREG_PROC \notin Ops, OneProcessHyp
             PROVE  ServicesSpec => []NoSelfSend
  OBVIOUS
<1>1. ServicesInv /\ Going => NoSelfSend
  <2> SUFFICES ASSUME Protocol
               PROVE  NoSelfSend
    BY DEF ServicesInv
  <2>1. \A p \in Senders : msg[p].receiver # p
    BY ProgramsApart DEF Protocol, SendersRight, RequestsRight, RepliesRight, Senders
  <2>2. QED
    BY <2>1 DEF NoSelfSend, Senders
<1>2. QED
  BY <1>1, ServicesCorrect, ServicesNeverStop, PTL
=============================================================================
