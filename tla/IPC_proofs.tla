----------------------------- MODULE IPC_proofs -----------------------------
(***************************************************************************)
(* Theorems about IPC for every number of processes, set of interrupts,    *)
(* choice of subscribers and both kinds of build: what holds in every      *)
(* state, and what a single step may do.                                   *)
(***************************************************************************)
EXTENDS IPC, ListLemmas, SequenceTheorems, TLAPS

(* Scheduling *)

\* The processes are numbers, with SysIdle among them, and proc_list is a ring.
LEMMA ProcNumbers ==
  /\ 0 \in Proc
  /\ Proc \subseteq Nat
  /\ \A p \in Proc : (IF p = N - 1 THEN 0 ELSE p + 1) \in Proc
BY IPCAssumption DEF IPCAssumption, Proc

\* Whatever scheduler() does, it ends at a process of the list, and outside the
\* kernel at one that the flags it was called with allow to run.
LEMMA ScheduleProperties ==
  ASSUME NEW st, running \in Proc, Schedule(st)
  PROVE  /\ running' \in Proc
         /\ mode' \in {"user", "idle"}
         /\ mode' = "user" => Runnable(st, running')
BY DEF Schedule

(* Types *)

\* Whom a message may come from.
LEMMA SourceMembers ==
  PROC_ANY \in Source /\ PROC_INTERRUPT \in Source /\ Proc \subseteq Source
BY DEF Source

\* The two ways in which the kernel rewrites fields of a message buffer in place.
LEMMA MessageUpdate ==
  ASSUME NEW m \in Message, NEW s \in Source, NEW r \in Proc, NEW n \in Nat \cup Payload
  PROVE  /\ [m EXCEPT !.sender = s, !.body = n] \in Message
         /\ [m EXCEPT !.receiver = r, !.body = n] \in Message
         /\ [sender |-> s, receiver |-> r, body |-> n] \in Message
BY DEF Message

\* One buffer is written, one flag is set or cleared.
LEMMA BufferWritten ==
  ASSUME NEW ms \in [Proc -> Message], NEW p \in Proc, NEW m \in Message
  PROVE  [ms EXCEPT ![p] = m] \in [Proc -> Message]
OBVIOUS

LEMMA FlagChanged ==
  ASSUME NEW st \in [Proc -> SUBSET Flag], NEW p \in Proc, NEW f \in Flag
  PROVE  /\ [st EXCEPT ![p] = @ \ {f}] \in [Proc -> SUBSET Flag]
         /\ [st EXCEPT ![p] = @ \cup {f}] \in [Proc -> SUBSET Flag]
OBVIOUS

\* The variables of the kernel start with values of their types ...
LEMMA TypeInit == Init => TypeOK
<1> USE IPCAssumption, ProcNumbers, SourceMembers DEF IPCAssumption, TypeOK, Flag
<1> SUFFICES ASSUME Init
             PROVE  TypeOK
  OBVIOUS
<1>1. msg \in [Proc -> Message]
  BY DEF Init, Message
<1>2. queue \in [Proc -> Seq(Proc)] /\ status \in [Proc -> SUBSET Flag]
  BY DEF Init
<1>3. QED
  BY <1>1, <1>2 DEF Init

\* ... and are kept by every system call, interrupt and exception: in particular
\* every message names existing processes.
LEMMA TypeStep == TypeOK /\ [Next]_vars => TypeOK'
<1> USE IPCAssumption, ProcNumbers, SourceMembers DEF IPCAssumption, TypeOK, Flag
<1> SUFFICES ASSUME TypeOK, [Next]_vars
             PROVE  TypeOK'
  OBVIOUS
<1>1. ASSUME NEW r \in Proc, NEW d \in Payload, Send(r, d)
      PROVE  TypeOK'
  <2> DEFINE m == [sender |-> running, receiver |-> r, body |-> d]
  <2> HIDE DEF m
  <2>0. m \in Message
    BY MessageUpdate DEF m
  <2>1. CASE Deliver(r, m)
    BY <1>1, <2>0, <2>1 DEF Send, Deliver
  <2>2. CASE Enqueue(r, m)
    <3>1. running' \in Proc /\ mode' \in {"user", "idle"}
      BY <2>2, ScheduleProperties DEF Enqueue
    <3>2. queue' \in [Proc -> Seq(Proc)]
      BY <2>2, AppendProperties DEF Enqueue
    <3>3. QED
      BY <1>1, <2>0, <2>2, <3>1, <3>2 DEF Send, Enqueue
  <2>3. QED
    BY <1>1, <2>1, <2>2 DEF Send, Halt, m
<1>2. ASSUME NEW from \in Source, Recv(from)
      PROVE  TypeOK'
  <2>1. CASE RecvReflect(from)
    <3>1. [msg[running] EXCEPT !.receiver = running, !.body = 0] \in Message
      BY MessageUpdate
    <3>2. msg' \in [Proc -> Message]
      BY <2>1, <3>1 DEF RecvReflect
    <3>3. QED
      BY <2>1, <3>2 DEF RecvReflect
  <2>2. CASE RecvGotInt(from)
    <3>1. CASE avail = {} /\ Debug /\ mode' = "halted"
               /\ UNCHANGED <<status, msg, avail>>
      BY <2>2, <3>1 DEF RecvGotInt
    <3>2. CASE mode' = mode
      <4>1. PICK irq \in Nat :
              /\ msg' = [msg EXCEPT ![running] = [sender |-> PROC_INTERRUPT,
                                     receiver |-> running, body |-> irq]]
              /\ avail' = avail \ {irq}
              /\ status' = IF avail' = {}
                           THEN [status EXCEPT ![running] = @ \ {"GOTINT"}]
                           ELSE status
        BY <1>2, <2>2, <3>2 DEF RecvGotInt, Recv
      <4>2. msg' \in [Proc -> Message]
        BY <4>1, MessageUpdate
      <4>3. status' \in [Proc -> SUBSET Flag] /\ avail' \subseteq Irq
        BY <4>1
      <4>4. QED
        BY <2>2, <3>2, <4>2, <4>3 DEF RecvGotInt
    <3>3. QED
      BY <1>2, <2>2, <3>1, <3>2 DEF RecvGotInt, Recv
  <2>3. CASE RecvGotExc(from)
    <3>1. (IF excAvail THEN excData ELSE 0) \in Nat
      OBVIOUS
    <3>2. [sender |-> PROC_INTERRUPT, receiver |-> running,
           body |-> IF excAvail THEN excData ELSE 0] \in Message
      BY <3>1, MessageUpdate
    <3>3. msg' \in [Proc -> Message]
      <4>1. \/ msg' = msg
            \/ msg' = [msg EXCEPT ![running] =
                         [sender |-> PROC_INTERRUPT, receiver |-> running,
                          body |-> IF excAvail THEN excData ELSE 0]]
        BY <2>3 DEF RecvGotExc
      <4>2. msg \in [Proc -> Message] /\ running \in Proc
        OBVIOUS
      <4>3. QED
        BY ONLY <3>2, <4>1, <4>2, BufferWritten
    <3>4. \/ status' = status /\ excAvail' = excAvail
          \/ /\ status' = [status EXCEPT ![running] = @ \ {"GOTEXC"}]
             /\ excAvail' = FALSE
      BY <2>3 DEF RecvGotExc
    <3>5. mode' \in {"user", "idle", "halted", "hung"} /\ avail' = avail
      BY <2>3 DEF RecvGotExc
    <3>6. status' \in [Proc -> SUBSET Flag]
      BY <3>4, FlagChanged
    <3>7. UNCHANGED <<queue, excData, running>>
      BY <2>3 DEF RecvGotExc
    <3>8. QED
      BY <3>3, <3>4, <3>5, <3>6, <3>7
  <2>4. CASE RecvQueued(from)
    <3>1. PICK k \in Candidates(from) :
            LET s == queue[running][k] IN
            /\ msg' = [msg EXCEPT ![running] = msg[s]]
            /\ status' = [status EXCEPT ![s] = @ \ {"SENDING"}]
            /\ queue' = [queue EXCEPT ![running] = RemoveAt(@, k)]
      BY <2>4 DEF RecvQueued
    <3>2. k \in 1 .. Len(queue[running])
      BY LenProperties DEF Candidates
    <3>3. queue[running][k] \in Proc /\ RemoveAt(queue[running], k) \in Seq(Proc)
      BY <3>2, ElementOfSeq, RemoveAtProperties
    <3>4. QED
      BY <2>4, <3>1, <3>3 DEF RecvQueued
  <2>5. CASE RecvBlock(from)
    <3>1. running' \in Proc /\ mode' \in {"user", "idle"}
      BY <2>5, ScheduleProperties DEF RecvBlock
    <3>2. QED
      BY <2>5, <3>1, MessageUpdate DEF RecvBlock
  <2>6. QED
    BY <1>2, <2>1, <2>2, <2>3, <2>4, <2>5 DEF Recv, Halt
<1>3. CASE Timer
  BY <1>3, ScheduleProperties DEF Timer
<1>4. CASE IdleStep
  BY <1>4 DEF IdleStep
<1>5. ASSUME NEW i \in Irq, HwInterrupt(i)
      PROVE  TypeOK'
  <2> DEFINE h == Subscriber[i]
  <2>1. h \in Proc
    OBVIOUS
  <2>2. [msg[h] EXCEPT !.sender = PROC_INTERRUPT, !.body = i] \in Message
    BY <2>1, MessageUpdate
  <2>3. msg' \in [Proc -> Message]
    <3>1. \/ msg' = msg
          \/ msg' = [msg EXCEPT ![h] = [@ EXCEPT !.sender = PROC_INTERRUPT, !.body = i]]
      BY <1>5 DEF HwInterrupt, Notify
    <3>2. msg \in [Proc -> Message]
      OBVIOUS
    <3> HIDE DEF h
    <3>3. QED
      BY ONLY <2>1, <2>2, <3>1, <3>2, BufferWritten
  <2>4. \/ status' = [status EXCEPT ![h] = @ \ {"RECEIVING"}]
        \/ status' = [status EXCEPT ![h] = @ \cup {"GOTINT"}]
    BY <1>5 DEF HwInterrupt
  <2>5. avail' \subseteq Irq
    BY <1>5 DEF HwInterrupt
  <2>6. UNCHANGED <<queue, excAvail, excData, running, mode>>
    BY <1>5 DEF HwInterrupt
  <2>7. status' \in [Proc -> SUBSET Flag]
    <3>1. status \in [Proc -> SUBSET Flag] /\ "RECEIVING" \in Flag /\ "GOTINT" \in Flag
      OBVIOUS
    <3> HIDE DEF h
    <3>2. QED
      BY ONLY <2>1, <2>4, <3>1, FlagChanged
  <2>8. QED
    BY <2>3, <2>5, <2>6, <2>7
<1>6. CASE PageFault
  <2> DEFINE cleared == [status EXCEPT ![running] = {}]
  <2>1. ExcHandler # 0 => running' \in Proc /\ mode' \in {"user", "idle"}
    BY <1>6, ScheduleProperties DEF PageFault
  <2>2. [msg[ExcHandler] EXCEPT !.sender = PROC_INTERRUPT, !.body = running] \in Message
    BY MessageUpdate
  <2>3. cleared \in [Proc -> SUBSET Flag]
    OBVIOUS
  <2>4. msg' \in [Proc -> Message]
    <3>1. \/ msg' = msg
          \/ msg' = [msg EXCEPT ![ExcHandler] =
                       [@ EXCEPT !.sender = PROC_INTERRUPT, !.body = running]]
      BY <1>6 DEF PageFault, Notify
    <3>2. msg \in [Proc -> Message] /\ ExcHandler \in Proc
      OBVIOUS
    <3>3. QED
      BY ONLY <2>2, <3>1, <3>2, BufferWritten
  <2>5. status' \in [Proc -> SUBSET Flag]
    <3>1. \/ status' = status
          \/ status' = [cleared EXCEPT ![ExcHandler] = @ \ {"RECEIVING"}]
          \/ status' = [cleared EXCEPT ![ExcHandler] = @ \cup {"GOTEXC"}]
      BY <1>6 DEF PageFault
    <3>2. QED
      BY <2>3, <3>1
  <2>6. QED
    BY <1>6, <2>1, <2>4, <2>5 DEF PageFault
<1>7. CASE UNCHANGED vars
  BY <1>7 DEF vars
<1>8. QED
  BY <1>1, <1>2, <1>3, <1>4, <1>5, <1>6, <1>7 DEF Next

\* The types of the kernel's variables hold in every execution.
THEOREM TypeCorrect == Spec => []TypeOK
BY TypeInit, TypeStep, PTL DEF Spec

(* The queues and the rendezvous *)

\* The inductive invariant.  Each part needs the others: that the caller of
\* send_msg is not queued yet follows from RunningIsRunnable and QueueInv, and
\* that recv_msg(PROC_ANY) misses nobody from QueueInv.
KernelInv == TypeOK /\ QueueInv /\ RunningIsRunnable /\ NoMissedRendezvous

\* QueueInv depends only on the queues, on who is sending and on whom to.
LEMMA QueueFrame ==
  ASSUME TypeOK, QueueInv, queue' = queue,
         \A p \in Proc : /\ Sending(p)' <=> Sending(p)
                         /\ Sending(p) => msg'[p].receiver = msg[p].receiver
  PROVE  QueueInv'
<1>1. ASSUME NEW r \in Proc, NEW k \in DOMAIN queue[r]
      PROVE  queue[r][k] \in Proc
  BY ElementOfSeq, LenProperties DEF TypeOK
<1>2. ASSUME NEW s \in Proc
      PROVE  msg[s].receiver \in Proc
  BY DEF TypeOK, Message
<1>3. QED
  BY <1>1, <1>2 DEF QueueInv, Sending

\* No rendezvous is missed in a step in which nobody begins to send or receive
\* and no process that awaits interrupts gets one only flagged.
LEMMA RendezvousFrame ==
  ASSUME TypeOK, NoMissedRendezvous,
         \A p \in Proc : Sending(p)' => Sending(p) /\ msg'[p].receiver = msg[p].receiver,
         \A p \in Proc : Receiving(p)' =>
           /\ Receiving(p) /\ msg'[p].sender = msg[p].sender
           /\ FromInterrupt(msg[p].sender) =>
                status'[p] \cap {"GOTINT", "GOTEXC"} \subseteq status[p]
  PROVE  NoMissedRendezvous'
BY DEF NoMissedRendezvous, Waits

\* A call that finds the caller's flags changed only outside SENDING and
\* RECEIVING returns to a caller that may run.
LEMMA RunnableFrame ==
  ASSUME RunningIsRunnable, running' = running, mode' # mode => mode' # "user",
         status'[running] \cap {"SENDING", "RECEIVING"}
           \subseteq status[running] \cap {"SENDING", "RECEIVING"}
  PROVE  RunningIsRunnable'
BY DEF RunningIsRunnable, Runnable

\* A blocked sender joins one queue, which it was in none of before.
LEMMA EnqueueInv ==
  ASSUME TypeOK, QueueInv, NEW r \in Proc, NEW m \in Message, m.receiver = r,
         ~Sending(running), Enqueue(r, m)
  PROVE  QueueInv'
<1> USE DEF TypeOK
<1>1. /\ msg' = [msg EXCEPT ![running] = m]
      /\ status' = [status EXCEPT ![running] = @ \cup {"SENDING"}]
      /\ queue' = [queue EXCEPT ![r] = Append(@, running)]
  BY DEF Enqueue
<1>2. \A p \in Proc : /\ "SENDING" \in status'[p] <=> Sending(p) \/ p = running
                      /\ msg'[p] = IF p = running THEN m ELSE msg[p]
  BY <1>1 DEF Sending
<1>3. /\ \A p \in Proc : Len(queue[p]) \in Nat /\ DOMAIN queue[p] = 1 .. Len(queue[p])
      /\ \A p \in Proc : \A k \in DOMAIN queue[p] : queue[p][k] \in Proc
  BY LenProperties, ElementOfSeq
<1>4. /\ \A p \in Proc \ {r} : queue'[p] = queue[p]
      /\ DOMAIN queue'[r] = 1 .. Len(queue[r]) + 1
      /\ \A k \in 1 .. Len(queue[r]) : queue'[r][k] = queue[r][k]
      /\ queue'[r][Len(queue[r]) + 1] = running
  <2>1. queue'[r] = Append(queue[r], running) /\ queue[r] \in Seq(Proc)
    BY <1>1
  <2>2. \A p \in Proc \ {r} : queue'[p] = queue[p]
    BY <1>1
  <2>3. QED
    BY <2>1, <2>2, AppendProperties, LenProperties
<1>5. \A p \in Proc : \A k \in DOMAIN queue[p] : queue[p][k] # running
  BY DEF QueueInv
<1>6. \A p \in Proc : msg[p].receiver \in Proc
  BY DEF Message
<1>7. (\A p \in Proc : \A k \in DOMAIN queue[p] :
        Sending(queue[p][k]) /\ msg[queue[p][k]].receiver = p)'
  <2> SUFFICES ASSUME NEW p \in Proc, NEW k \in DOMAIN queue'[p]
               PROVE  /\ "SENDING" \in status'[queue'[p][k]]
                      /\ msg'[queue'[p][k]].receiver = p
    BY DEF Sending
  <2>1. CASE p = r /\ k = Len(queue[r]) + 1
    <3>1. queue'[p][k] = running
      BY <1>4, <2>1
    <3>2. "SENDING" \in status'[running] /\ msg'[running].receiver = r
      BY <1>2
    <3>3. QED
      BY <2>1, <3>1, <3>2
  <2>2. CASE ~(p = r /\ k = Len(queue[r]) + 1)
    <3>1. k \in DOMAIN queue[p] /\ queue'[p][k] = queue[p][k]
      <4>1. CASE p = r
        <5>1. k \in 1 .. Len(queue[r])
          <6>1. k \in 1 .. Len(queue[r]) + 1 /\ k # Len(queue[r]) + 1 /\ Len(queue[r]) \in Nat
            BY <1>3, <1>4, <2>2, <4>1
          <6>2. QED
            BY ONLY <6>1
        <5>2. QED
          BY <1>3, <1>4, <4>1, <5>1
      <4>2. CASE p # r
        BY <1>4, <4>2
      <4>3. QED
        BY <4>1, <4>2
    <3>2. /\ queue[p][k] \in Proc /\ queue[p][k] # running
          /\ Sending(queue[p][k]) /\ msg[queue[p][k]].receiver = p
      BY <1>3, <1>5, <3>1 DEF QueueInv
    <3>3. "SENDING" \in status'[queue[p][k]] /\ msg'[queue[p][k]] = msg[queue[p][k]]
      BY <1>2, <3>2
    <3>4. QED
      BY <3>1, <3>2, <3>3
  <2>3. QED
    BY <2>1, <2>2
<1>8. (\A s \in Proc : Sending(s) =>
        \E k \in DOMAIN queue[msg[s].receiver] : queue[msg[s].receiver][k] = s)'
  <2> SUFFICES ASSUME NEW s \in Proc, "SENDING" \in status'[s]
               PROVE  \E k \in DOMAIN queue'[msg'[s].receiver] :
                        queue'[msg'[s].receiver][k] = s
    BY DEF Sending
  <2>1. CASE s = running
    <3>1. msg'[s].receiver = r
      BY <1>2, <2>1
    <3>2. Len(queue[r]) + 1 \in DOMAIN queue'[r]
      BY <1>3, <1>4
    <3>3. QED
      BY <1>4, <2>1, <3>1, <3>2
  <2>2. CASE s # running
    <3>1. Sending(s) /\ msg'[s] = msg[s]
      BY <1>2, <2>2
    <3>2. PICK k \in DOMAIN queue[msg[s].receiver] : queue[msg[s].receiver][k] = s
      BY <3>1 DEF QueueInv
    <3>3. /\ k \in DOMAIN queue'[msg[s].receiver]
          /\ queue'[msg[s].receiver][k] = s
      <4>1. CASE msg[s].receiver = r
        <5>1. k \in 1 .. Len(queue[r]) /\ k \in 1 .. Len(queue[r]) + 1
          BY <1>3, <3>2, <4>1
        <5>2. QED
          BY <1>4, <3>2, <4>1, <5>1
      <4>2. CASE msg[s].receiver # r
        BY <1>4, <1>6, <3>2, <4>2
      <4>3. QED
        BY <4>1, <4>2
    <3>4. QED
      BY <3>1, <3>3
  <2>3. QED
    BY <2>1, <2>2
<1>9. (\A p \in Proc : \A j, k \in DOMAIN queue[p] : queue[p][j] = queue[p][k] => j = k)'
  <2> SUFFICES ASSUME NEW p \in Proc, NEW j \in DOMAIN queue'[p], NEW k \in DOMAIN queue'[p],
                      queue'[p][j] = queue'[p][k]
               PROVE  j = k
    OBVIOUS
  <2>1. CASE p # r
    BY <1>4, <2>1 DEF QueueInv
  <2>2. CASE p = r
    <3>1. /\ j \in 1 .. Len(queue[r]) + 1 /\ k \in 1 .. Len(queue[r]) + 1
          /\ Len(queue[r]) \in Nat
      BY <1>3, <1>4, <2>2
    <3>2. CASE j = Len(queue[r]) + 1 \/ k = Len(queue[r]) + 1
      <4>1. ASSUME NEW i \in 1 .. Len(queue[r])
            PROVE  queue'[r][i] # running
        <5>1. i \in DOMAIN queue[r] /\ queue'[r][i] = queue[r][i]
          BY <1>3, <1>4
        <5>2. QED
          BY <1>5, <5>1
      <4>2. QED
        BY <1>4, <2>2, <3>1, <3>2, <4>1
    <3>3. CASE j # Len(queue[r]) + 1 /\ k # Len(queue[r]) + 1
      <4>1. j \in DOMAIN queue[r] /\ k \in DOMAIN queue[r]
        BY <1>3, <3>1, <3>3
      <4>2. queue[r][j] = queue[r][k]
        BY <1>3, <1>4, <2>2, <4>1
      <4>3. QED
        BY <4>1, <4>2 DEF QueueInv
    <3>4. QED
      BY <3>2, <3>3
  <2>3. QED
    BY <2>1, <2>2
<1>10. QED
  BY <1>7, <1>8, <1>9 DEF QueueInv

\* The sender that recv_msg takes leaves its queue and is no longer sending.
LEMMA DequeueInv ==
  ASSUME TypeOK, QueueInv, ~Sending(running), NEW k \in DOMAIN queue[running],
         msg' = [msg EXCEPT ![running] = msg[queue[running][k]]],
         status' = [status EXCEPT ![queue[running][k]] = @ \ {"SENDING"}],
         queue' = [queue EXCEPT ![running] = RemoveAt(@, k)]
  PROVE  QueueInv'
<1> USE DEF TypeOK
<1> DEFINE s == queue[running][k]
           n == Len(queue[running])
<1>1. /\ \A p \in Proc : Len(queue[p]) \in Nat /\ DOMAIN queue[p] = 1 .. Len(queue[p])
      /\ \A p \in Proc : \A j \in DOMAIN queue[p] : queue[p][j] \in Proc
      /\ s \in Proc /\ n \in Nat /\ k \in 1 .. n
  BY LenProperties, ElementOfSeq
<1>2. \A p \in Proc : /\ Sending(p)' <=> Sending(p) /\ p # s
                      /\ Sending(p) => msg'[p] = msg[p]
  BY <1>1 DEF Sending
<1>3. Sending(s) /\ msg[s].receiver = running
  BY DEF QueueInv
<1>4. /\ \A p \in Proc \ {running} : queue'[p] = queue[p]
      /\ DOMAIN queue'[running] = 1 .. n - 1
      /\ \A i \in 1 .. n - 1 :
           queue'[running][i] = IF i < k THEN queue[running][i] ELSE queue[running][i + 1]
  <2>1. queue'[running] = RemoveAt(queue[running], k) /\ queue[running] \in Seq(Proc)
    OBVIOUS
  <2>2. /\ RemoveAt(queue[running], k) \in Seq(Proc)
        /\ Len(RemoveAt(queue[running], k)) = n - 1
        /\ \A i \in 1 .. n - 1 : RemoveAt(queue[running], k)[i]
              = IF i < k THEN queue[running][i] ELSE queue[running][i + 1]
    BY <1>1, <2>1, RemoveAtProperties
  <2>3. DOMAIN RemoveAt(queue[running], k) = 1 .. n - 1
    BY <2>2, LenProperties
  <2>4. QED
    BY <2>1, <2>2, <2>3
<1>5. \A p \in Proc : \A j \in DOMAIN queue[p] : queue[p][j] = s => p = running /\ j = k
  BY <1>1, <1>3 DEF QueueInv
<1> HIDE DEF s, n
<1>6. \A j \in 1 .. n - 1 : queue'[running][j] # s /\ queue'[running][j] \in Proc
                            /\ Sending(queue'[running][j])
                            /\ msg[queue'[running][j]].receiver = running
  <2> SUFFICES ASSUME NEW j \in 1 .. n - 1
               PROVE  /\ queue'[running][j] # s /\ queue'[running][j] \in Proc
                      /\ Sending(queue'[running][j])
                      /\ msg[queue'[running][j]].receiver = running
    OBVIOUS
  <2>0. /\ (IF j < k THEN j ELSE j + 1) \in 1 .. n
        /\ (IF j < k THEN j ELSE j + 1) # k
    BY <1>1
  <2>1. PICK i \in 1 .. n : i # k /\ queue'[running][j] = queue[running][i]
    BY <1>1, <1>4, <2>0
  <2>2. i \in DOMAIN queue[running]
    BY <1>1 DEF n
  <2>3. QED
    BY <1>1, <1>5, <2>1, <2>2 DEF QueueInv
<1>7. (\A p \in Proc : \A j \in DOMAIN queue[p] :
        Sending(queue[p][j]) /\ msg[queue[p][j]].receiver = p)'
  <2> SUFFICES ASSUME NEW p \in Proc, NEW j \in DOMAIN queue'[p]
               PROVE  "SENDING" \in status'[queue'[p][j]] /\ msg'[queue'[p][j]].receiver = p
    BY DEF Sending
  <2>1. queue'[p][j] \in Proc /\ queue'[p][j] # s
        /\ Sending(queue'[p][j]) /\ msg[queue'[p][j]].receiver = p
    <3>1. CASE p = running
      BY <1>4, <1>6, <3>1
    <3>2. CASE p # running
      <4>1. j \in DOMAIN queue[p] /\ queue'[p][j] = queue[p][j]
        BY <1>4, <3>2
      <4>2. QED
        BY <1>1, <1>5, <3>2, <4>1 DEF QueueInv
    <3>3. QED
      BY <3>1, <3>2
  <2> DEFINE o == queue'[p][j]
  <2> HIDE DEF o
  <2>2. o \in Proc /\ o # s /\ Sending(o) /\ msg[o].receiver = p
    BY <2>1 DEF o
  <2>3. "SENDING" \in status'[o] /\ msg'[o] = msg[o]
    BY <1>2, <2>2 DEF Sending
  <2>4. QED
    BY <2>2, <2>3 DEF o
<1>8. (\A p \in Proc : Sending(p) =>
        \E j \in DOMAIN queue[msg[p].receiver] : queue[msg[p].receiver][j] = p)'
  <2> SUFFICES ASSUME NEW p \in Proc, "SENDING" \in status'[p]
               PROVE  \E j \in DOMAIN queue'[msg'[p].receiver] :
                        queue'[msg'[p].receiver][j] = p
    BY DEF Sending
  <2>0. Sending(p) /\ p # s /\ msg'[p] = msg[p]
    BY <1>2 DEF Sending
  <2>1. msg[p].receiver \in Proc
    BY DEF Message
  <2>2. PICK j \in DOMAIN queue[msg[p].receiver] : queue[msg[p].receiver][j] = p
    BY <2>0 DEF QueueInv
  <2>3. CASE msg[p].receiver # running
    BY <1>4, <2>0, <2>1, <2>2, <2>3
  <2>4. CASE msg[p].receiver = running /\ j < k
    <3>1. j \in 1 .. n - 1 /\ queue'[running][j] = p
      BY <1>1, <1>4, <2>2, <2>4 DEF n
    <3>2. QED
      BY <1>4, <2>0, <2>4, <3>1
  <2>5. CASE msg[p].receiver = running /\ ~(j < k)
    <3>1. j # k
      BY <2>0, <2>2, <2>5 DEF s
    <3>2. /\ j - 1 \in 1 .. n - 1 /\ ~(j - 1 < k) /\ (j - 1) + 1 = j
      BY <1>1, <2>2, <2>5, <3>1 DEF n
    <3>3. queue'[running][j - 1] = p
      BY <1>4, <2>2, <2>5, <3>2
    <3>4. QED
      BY <1>4, <2>0, <2>5, <3>2, <3>3
  <2>6. QED
    BY <2>3, <2>4, <2>5
<1>9. (\A p \in Proc : \A i, j \in DOMAIN queue[p] : queue[p][i] = queue[p][j] => i = j)'
  <2>1. \A i, j \in DOMAIN queue'[running] :
          queue'[running][i] = queue'[running][j] => i = j
    <3> SUFFICES ASSUME NEW i \in 1 .. n - 1, NEW j \in 1 .. n - 1,
                        queue'[running][i] = queue'[running][j]
                 PROVE  i = j
      BY <1>4
    <3> DEFINE old(l) == IF l < k THEN l ELSE l + 1
    <3>1. /\ old(i) \in 1 .. n /\ old(j) \in 1 .. n
          /\ old(i) = old(j) => i = j
      <4>1. n \in Nat /\ k \in 1 .. n
        BY <1>1
      <4>2. QED
        BY ONLY <4>1
    <3>2. /\ queue'[running][i] = queue[running][old(i)]
          /\ queue'[running][j] = queue[running][old(j)]
      BY <1>1, <1>4
    <3> HIDE DEF old
    <3>3. old(i) \in DOMAIN queue[running] /\ old(j) \in DOMAIN queue[running]
      BY <1>1, <3>1 DEF n
    <3>4. QED
      BY <3>1, <3>2, <3>3 DEF QueueInv
  <2>2. QED
    BY <1>4, <2>1 DEF QueueInv
<1>10. QED
  BY <1>7, <1>8, <1>9 DEF QueueInv

\* send_msg: who is delivered to leaves __recv_msg, who is enqueued was awaited
\* by nobody, and the next process is chosen among those not blocked.
LEMMA SendCorrect ==
  ASSUME KernelInv, NEW r \in Proc, NEW d \in Payload, Send(r, d)
  PROVE  QueueInv' /\ RunningIsRunnable' /\ NoMissedRendezvous'
<1> DEFINE m == [sender |-> running, receiver |-> r, body |-> d]
<1> TypeOK /\ QueueInv /\ RunningIsRunnable /\ NoMissedRendezvous
  BY DEF KernelInv
<1>1. /\ running \in Proc /\ status \in [Proc -> SUBSET Flag]
      /\ msg \in [Proc -> Message]
      /\ ~Sending(running) /\ ~Receiving(running)
  BY DEF TypeOK, RunningIsRunnable, Runnable, Sending, Receiving, Send
<1>2. m \in Message /\ m.receiver = r
  BY <1>1, IPCAssumption, MessageUpdate, SourceMembers DEF IPCAssumption
<1>a. m.sender = running
  OBVIOUS
<1> HIDE DEF m
<1>3. CASE Deliver(r, m) /\ Waits(r, running)
  <2>1. /\ msg' = [msg EXCEPT ![running] = m, ![r] = m]
        /\ status' = [status EXCEPT ![r] = @ \ {"RECEIVING"}]
        /\ UNCHANGED <<queue, running, mode>>
    BY <1>3 DEF Deliver
  <2>2. Receiving(r) /\ ~Sending(r)
    BY <1>3 DEF Waits, NoMissedRendezvous
  <2>3. \A p \in Proc : /\ Sending(p)' <=> Sending(p)
                        /\ Sending(p) => msg'[p] = msg[p]
                        /\ Receiving(p)' => Receiving(p) /\ msg'[p] = msg[p]
                        /\ status'[p] \subseteq status[p]
    BY <1>1, <2>1, <2>2 DEF Sending, Receiving
  <2>4. QED
    BY <1>1, <2>1, <2>3, QueueFrame, RendezvousFrame, RunnableFrame
<1>4. CASE Enqueue(r, m) /\ ~Waits(r, running)
  <2>1. /\ msg' = [msg EXCEPT ![running] = m]
        /\ status' = [status EXCEPT ![running] = @ \cup {"SENDING"}]
        /\ Schedule(status')
    BY <1>4 DEF Enqueue
  <2>2. QueueInv'
    BY <1>1, <1>2, <1>4, EnqueueInv
  <2>3. RunningIsRunnable'
    BY <1>1, <2>1, ScheduleProperties DEF RunningIsRunnable
  <2>4. \A p \in Proc :
           /\ Sending(p)' <=> Sending(p) \/ p = running
           /\ msg'[p] = IF p = running THEN m ELSE msg[p]
           /\ Receiving(p)' <=> Receiving(p) /\ p # running
           /\ p # running => status'[p] = status[p]
    BY <1>1, <2>1 DEF Sending, Receiving
  <2>5. NoMissedRendezvous'
    BY <1>1, <1>2, <1>4, <2>4 DEF NoMissedRendezvous, Waits
  <2>6. QED
    BY <2>2, <2>3, <2>5
<1>5. CASE UNCHANGED <<status, msg, queue, running>> /\ mode' # "user"
  BY <1>5, QueueFrame, RendezvousFrame DEF Sending, Receiving, RunningIsRunnable
<1>6. QED
  BY <1>3, <1>4, <1>5 DEF Send, Halt, m

\* recv_msg: it blocks only when no sender that it accepts is in its queue and
\* no interrupt it accepts is flagged.
LEMMA RecvCorrect ==
  ASSUME KernelInv, NEW from \in Source, Recv(from)
  PROVE  QueueInv' /\ RunningIsRunnable' /\ NoMissedRendezvous'
<1> TypeOK /\ QueueInv /\ RunningIsRunnable /\ NoMissedRendezvous
  BY DEF KernelInv
<1>1. /\ running \in Proc /\ status \in [Proc -> SUBSET Flag]
      /\ msg \in [Proc -> Message]
      /\ ~Sending(running) /\ ~Receiving(running)
  BY DEF TypeOK, RunningIsRunnable, Runnable, Sending, Receiving, Recv
\* Whatever recv_msg does to a caller that it does not block.
<1>2. ASSUME UNCHANGED <<queue, running>>, mode' # mode => mode' # "user",
             \A p \in Proc \ {running} : msg'[p] = msg[p] /\ status'[p] = status[p],
             status'[running] \subseteq status[running]
      PROVE  QueueInv' /\ RunningIsRunnable' /\ NoMissedRendezvous'
  <2>1. \A p \in Proc : /\ Sending(p)' <=> Sending(p)
                        /\ Sending(p) => msg'[p] = msg[p]
                        /\ Receiving(p)' => Receiving(p) /\ msg'[p] = msg[p]
                        /\ status'[p] \subseteq status[p]
    BY <1>1, <1>2 DEF Sending, Receiving
  <2>2. QED
    BY <1>1, <1>2, <2>1, QueueFrame, RendezvousFrame, RunnableFrame
<1>3. CASE Halt
  BY <1>2, <1>3 DEF Halt
<1>4. CASE RecvReflect(from)
  BY <1>1, <1>2, <1>4 DEF RecvReflect
<1>5. CASE RecvGotInt(from)
  <2>1. \A p \in Proc \ {running} : msg'[p] = msg[p] /\ status'[p] = status[p]
    BY <1>1, <1>5 DEF RecvGotInt
  <2>2. status'[running] \subseteq status[running]
    BY <1>1, <1>5 DEF RecvGotInt
  <2>3. UNCHANGED <<queue, running>> /\ (mode' # mode => mode' # "user")
    BY <1>5 DEF RecvGotInt
  <2>4. QED
    BY <1>2, <2>1, <2>2, <2>3
<1>6. CASE RecvGotExc(from)
  <2>1. \A p \in Proc \ {running} : msg'[p] = msg[p] /\ status'[p] = status[p]
    BY <1>1, <1>6 DEF RecvGotExc
  <2>2. status'[running] \subseteq status[running]
    BY <1>1, <1>6 DEF RecvGotExc
  <2>3. UNCHANGED <<queue, running>> /\ (mode' # mode => mode' # "user")
    BY <1>6 DEF RecvGotExc
  <2>4. QED
    BY <1>2, <2>1, <2>2, <2>3
<1>7. CASE RecvQueued(from)
  <2>1. PICK k \in Candidates(from) :
          /\ msg' = [msg EXCEPT ![running] = msg[queue[running][k]]]
          /\ status' = [status EXCEPT ![queue[running][k]] = @ \ {"SENDING"}]
          /\ queue' = [queue EXCEPT ![running] = RemoveAt(@, k)]
    BY <1>7 DEF RecvQueued
  <2>2. k \in DOMAIN queue[running] /\ UNCHANGED <<running, mode>>
    BY <1>7 DEF Candidates, RecvQueued
  <2>3. QueueInv'
    BY <1>1, <2>1, <2>2, DequeueInv
  <2>4. queue[running][k] \in Proc
    BY <1>1, <2>2, LenProperties, ElementOfSeq DEF TypeOK
  <2>5. \A p \in Proc : /\ Sending(p)' => Sending(p) /\ msg'[p] = msg[p]
                        /\ Receiving(p)' => Receiving(p) /\ msg'[p] = msg[p]
                        /\ status'[p] \subseteq status[p]
    BY <1>1, <2>1, <2>4 DEF Sending, Receiving
  <2>6. QED
    BY <1>1, <2>2, <2>3, <2>5, RendezvousFrame, RunnableFrame
<1>8. CASE RecvBlock(from)
  <2>1. /\ msg' = [msg EXCEPT ![running] = [sender |-> from, receiver |-> running, body |-> 0]]
        /\ status' = [status EXCEPT ![running] = @ \cup {"RECEIVING"}]
        /\ Schedule(status') /\ UNCHANGED queue
        /\ Candidates(from) = {} /\ NothingPending(from)
    BY <1>8 DEF RecvBlock
  <2>2. \A p \in Proc :
           /\ Sending(p)' <=> Sending(p)
           /\ p # running => msg'[p] = msg[p] /\ status'[p] = status[p]
           /\ Receiving(p)' <=> Receiving(p) \/ p = running
           /\ status'[p] \cap {"GOTINT", "GOTEXC"} = status[p] \cap {"GOTINT", "GOTEXC"}
    BY <1>1, <2>1 DEF Sending, Receiving
  <2>3. msg'[running].sender = from
    BY <1>1, <2>1
  <2>4. QueueInv'
    BY <1>1, <2>1, <2>2, QueueFrame
  <2>5. RunningIsRunnable'
    BY <1>1, <2>1, ScheduleProperties DEF RunningIsRunnable
  <2>6. ASSUME NEW s \in Proc, Sending(s), msg[s].receiver = running
        PROVE  from \notin {PROC_ANY, s}
    <3>1. PICK k \in DOMAIN queue[running] : queue[running][k] = s
      BY <2>6 DEF QueueInv
    <3>2. Len(queue[running]) \in Nat /\ DOMAIN queue[running] = 1 .. Len(queue[running])
      BY <1>1, LenProperties DEF TypeOK
    <3>3. CASE from = PROC_ANY
      <4>1. 1 \in DOMAIN queue[running]
        BY <3>1, <3>2
      <4>2. QED
        BY <2>1, <3>3, <4>1 DEF Candidates
    <3>4. CASE from = s /\ from # PROC_ANY
      BY <2>1, <2>6, <3>1, <3>4 DEF Candidates
    <3>5. QED
      BY <3>3, <3>4
  <2>7. NoMissedRendezvous'
    BY <1>1, <2>1, <2>2, <2>3, <2>6 DEF NoMissedRendezvous, NothingPending, Waits
  <2>8. QED
    BY <2>4, <2>5, <2>7
<1>9. QED
  BY <1>3, <1>4, <1>5, <1>6, <1>7, <1>8 DEF Recv

\* An interrupt message changes one buffer, and not whom it is addressed to.
LEMMA NotifyProperties ==
  ASSUME msg \in [Proc -> Message], NEW h \in Proc, NEW n, Notify(h, n)
  PROVE  \A p \in Proc : /\ p # h => msg'[p] = msg[p]
                         /\ msg'[p].receiver = msg[p].receiver
<1>1. msg' = [msg EXCEPT ![h] = [msg[h] EXCEPT !.sender = PROC_INTERRUPT, !.body = n]]
  BY DEF Notify
<1>2. \A p \in Proc : p # h => msg'[p] = msg[p]
  BY <1>1
<1>3. msg'[h] = [msg[h] EXCEPT !.sender = PROC_INTERRUPT, !.body = n]
  BY <1>1
<1>4. msg[h] \in Message
  OBVIOUS
<1>5. [msg[h] EXCEPT !.sender = PROC_INTERRUPT, !.body = n].receiver = msg[h].receiver
  BY <1>4 DEF Message
<1>6. QED
  BY <1>2, <1>3, <1>5

\* A device interrupt: who waits for it wakes, who does not is only flagged.
LEMMA HwInterruptCorrect ==
  ASSUME KernelInv, NEW i \in Irq, HwInterrupt(i)
  PROVE  QueueInv' /\ RunningIsRunnable' /\ NoMissedRendezvous'
<1> DEFINE h == Subscriber[i]
<1> TypeOK /\ QueueInv /\ RunningIsRunnable /\ NoMissedRendezvous
  BY DEF KernelInv
<1>1. /\ running \in Proc /\ status \in [Proc -> SUBSET Flag]
      /\ msg \in [Proc -> Message] /\ h \in Proc
  BY IPCAssumption DEF IPCAssumption, TypeOK
<1>2. /\ msg' = msg \/ Notify(h, i)
      /\ \/ status' = [status EXCEPT ![h] = @ \ {"RECEIVING"}]
         \/ /\ ~WaitsForInterrupt(status, h)
            /\ status' = [status EXCEPT ![h] = @ \cup {"GOTINT"}]
            /\ msg' = msg
      /\ UNCHANGED <<queue, running, mode>>
  BY DEF HwInterrupt
<1> HIDE DEF h
<1>3. \A p \in Proc : /\ p # h => msg'[p] = msg[p]
                      /\ msg'[p].receiver = msg[p].receiver
  BY <1>1, <1>2, NotifyProperties
<1>4. \A p \in Proc :
         /\ Sending(p)' <=> Sending(p)
         /\ Receiving(p)' =>
              /\ Receiving(p) /\ msg'[p].sender = msg[p].sender
              /\ FromInterrupt(msg[p].sender) => status'[p] \subseteq status[p]
  BY <1>1, <1>2, <1>3 DEF Sending, Receiving, WaitsForInterrupt, FromInterrupt
<1>5. QueueInv' /\ NoMissedRendezvous'
  BY <1>2, <1>3, <1>4, QueueFrame, RendezvousFrame
<1>6. status'[running] \cap {"SENDING", "RECEIVING"}
        \subseteq status[running] \cap {"SENDING", "RECEIVING"}
  BY <1>1, <1>2
<1>7. QED
  BY <1>2, <1>5, <1>6, RunnableFrame

\* A page fault: the flags that it clears are those of a process that is not
\* blocked, and the handler is flagged only when it does not wait.
LEMMA PageFaultCorrect ==
  ASSUME KernelInv, PageFault
  PROVE  QueueInv' /\ RunningIsRunnable' /\ NoMissedRendezvous'
<1> DEFINE cleared == [status EXCEPT ![running] = {}]
           h       == ExcHandler
<1> TypeOK /\ QueueInv /\ RunningIsRunnable /\ NoMissedRendezvous
  BY DEF KernelInv
<1>1. /\ running \in Proc /\ status \in [Proc -> SUBSET Flag]
      /\ msg \in [Proc -> Message] /\ h \in Proc
      /\ ~Sending(running) /\ ~Receiving(running)
  BY IPCAssumption
     DEF IPCAssumption, TypeOK, RunningIsRunnable, Runnable, Sending, Receiving, PageFault
<1>2. CASE h = 0
  <2>1. UNCHANGED <<queue, status, msg, running>> /\ mode' # "user"
    BY <1>2 DEF PageFault
  <2>2. QED
    BY <2>1, QueueFrame, RendezvousFrame DEF Sending, Receiving, RunningIsRunnable
<1>3. CASE h # 0
  <2>1. /\ msg' = msg \/ Notify(h, running)
        /\ \/ status' = [cleared EXCEPT ![h] = @ \ {"RECEIVING"}]
           \/ /\ ~WaitsForInterrupt(cleared, h)
              /\ status' = [cleared EXCEPT ![h] = @ \cup {"GOTEXC"}]
              /\ msg' = msg
        /\ Schedule(status') /\ UNCHANGED queue
    BY <1>3 DEF PageFault
  <2>2. /\ cleared \in [Proc -> SUBSET Flag]
        /\ \A p \in Proc : /\ cleared[p] \subseteq status[p]
                           /\ "SENDING" \in cleared[p] <=> Sending(p)
                           /\ "RECEIVING" \in cleared[p] <=> Receiving(p)
    BY <1>1 DEF Sending, Receiving
  <2> HIDE DEF h, cleared
  <2>3. \A p \in Proc : /\ p # h => msg'[p] = msg[p]
                        /\ msg'[p].receiver = msg[p].receiver
    BY <1>1, <2>1, NotifyProperties
  <2>4. \A p \in Proc :
           /\ Sending(p)' <=> Sending(p)
           /\ Receiving(p)' =>
                /\ Receiving(p) /\ msg'[p].sender = msg[p].sender
                /\ FromInterrupt(msg[p].sender) => status'[p] \subseteq status[p]
    BY <1>1, <2>1, <2>2, <2>3 DEF Sending, Receiving, WaitsForInterrupt, FromInterrupt
  <2>5. QueueInv' /\ NoMissedRendezvous'
    BY <2>1, <2>3, <2>4, QueueFrame, RendezvousFrame
  <2>6. RunningIsRunnable'
    BY <1>1, <2>1, ScheduleProperties DEF RunningIsRunnable
  <2>7. QED
    BY <2>5, <2>6
<1>4. QED
  BY <1>2, <1>3

\* The three invariants hold at first.
LEMMA KernelInit == Init => KernelInv
<1> USE ProcNumbers
<1> SUFFICES ASSUME Init
             PROVE  QueueInv /\ RunningIsRunnable /\ NoMissedRendezvous
  BY TypeInit DEF KernelInv
<1>1. /\ \A p \in Proc : status[p] = {} /\ queue[p] = <<>>
      /\ running \in Proc
  BY DEF Init
<1>2. QED
  BY <1>1 DEF QueueInv, RunningIsRunnable, NoMissedRendezvous, Runnable, Sending, Receiving

\* Every step of the kernel keeps them together.
LEMMA KernelKept == KernelInv /\ [Next]_vars => KernelInv'
<1> USE ProcNumbers, SourceMembers
<1> SUFFICES ASSUME KernelInv, [Next]_vars
             PROVE  QueueInv' /\ RunningIsRunnable' /\ NoMissedRendezvous'
  BY TypeStep DEF KernelInv
<1> TypeOK /\ QueueInv /\ RunningIsRunnable /\ NoMissedRendezvous
  BY DEF KernelInv
<1> TypeOK'
  BY TypeStep
<1>0. /\ running \in Proc /\ status \in [Proc -> SUBSET Flag]
      /\ msg \in [Proc -> Message]
      /\ mode = "user" => ~Sending(running) /\ ~Receiving(running)
  BY DEF TypeOK, RunningIsRunnable, Runnable, Sending, Receiving
<1>1. ASSUME NEW r \in Proc, NEW d \in Payload, Send(r, d)
      PROVE  QueueInv' /\ RunningIsRunnable' /\ NoMissedRendezvous'
  BY <1>1, SendCorrect
<1>2. ASSUME NEW from \in Source, Recv(from)
      PROVE  QueueInv' /\ RunningIsRunnable' /\ NoMissedRendezvous'
  BY <1>2, RecvCorrect
<1>3. CASE Timer
  <2>1. UNCHANGED <<status, msg, queue>>
    BY <1>3 DEF Timer
  <2>2. RunningIsRunnable'
    BY <1>0, <1>3, <2>1, ScheduleProperties DEF Timer, RunningIsRunnable, Runnable
  <2>3. QED
    BY <2>1, <2>2, QueueFrame, RendezvousFrame DEF Sending, Receiving
<1>4. CASE IdleStep
  <2>1. UNCHANGED <<status, msg, queue>>
    BY <1>4 DEF IdleStep
  <2>2. RunningIsRunnable'
    BY <1>4 DEF IdleStep, RunningIsRunnable, Runnable
  <2>3. QED
    BY <2>1, <2>2, QueueFrame, RendezvousFrame DEF Sending, Receiving
<1>5. ASSUME NEW i \in Irq, HwInterrupt(i)
      PROVE  QueueInv' /\ RunningIsRunnable' /\ NoMissedRendezvous'
  BY <1>5, HwInterruptCorrect
<1>6. CASE PageFault
  BY <1>6, PageFaultCorrect
<1>7. CASE UNCHANGED vars
  BY <1>7, QueueFrame, RendezvousFrame
     DEF vars, Sending, Receiving, RunningIsRunnable, Runnable
<1>8. QED
  BY <1>1, <1>2, <1>3, <1>4, <1>5, <1>6, <1>7 DEF Next

\* The kernel keeps its queues, its current process and its sleepers right: what
\* IPC.tla states as QueueInv, RunningIsRunnable and NoMissedRendezvous.
THEOREM KernelCorrect == Spec => []KernelInv
BY KernelInit, KernelKept, PTL DEF Spec

\* The queues hold exactly the blocked senders: the comment and the panic of
\* __recv_msg about a sender that is not in the queue are right.
THEOREM QueuesAreExact == Spec => []QueueInv
BY KernelCorrect, PTL DEF KernelInv

\* No blocking path of the kernel returns to a caller that it has blocked.
THEOREM RunningMayRun == Spec => []RunningIsRunnable
BY KernelCorrect, PTL DEF KernelInv

\* No process sleeps in recv_msg while a sender or an interrupt that it waits
\* for is already there.
THEOREM NobodyMissesRendezvous == Spec => []NoMissedRendezvous
BY KernelCorrect, PTL DEF KernelInv

(* Circles of senders *)

\* A step after which nobody new is sending, and nobody to somebody else, closes
\* no circle.
LEMMA NoNewSender ==
  ASSUME NoSendCycle,
         \A p \in Proc : Sending(p)' => Sending(p) /\ msg'[p].receiver = msg[p].receiver
  PROVE  NoSendCycle'
<1> SUFFICES ASSUME Debug, NEW S \in SUBSET Proc,
                    \A p \in S : "SENDING" \in status'[p] /\ msg'[p].receiver \in S
             PROVE  S = {}
  BY DEF NoSendCycle, Sending
<1>1. \A p \in S : Sending(p) /\ msg[p].receiver \in S
  BY DEF Sending
<1>2. QED
  BY <1>1 DEF NoSendCycle

\* The check of __is_dead_lock suffices.  When it does not come back to the caller
\* there is a set T that it can not leave, without the caller: the part in T of a
\* circle through the caller would have been a circle before.
LEMMA EnqueueClosesNoCircle ==
  ASSUME TypeOK, NoSendCycle, NEW r \in Proc, NEW m, m.receiver = r,
         Enqueue(r, m), Debug => ~(DeadLock(running, r) \/ r = running)
  PROVE  NoSendCycle'
<1> SUFFICES ASSUME Debug, NEW S \in SUBSET Proc,
                    \A p \in S : "SENDING" \in status'[p] /\ msg'[p].receiver \in S
             PROVE  S = {}
  BY DEF NoSendCycle, Sending
<1>1. /\ running \in Proc
      /\ \A p \in Proc : /\ "SENDING" \in status'[p] <=> Sending(p) \/ p = running
                         /\ msg'[p] = IF p = running THEN m ELSE msg[p]
  BY DEF TypeOK, Enqueue, Sending
<1>2. PICK T \in SUBSET Proc : r \in T /\ Closed(T) /\ running \notin T
  BY <1>1 DEF DeadLock, SendChain
<1>3. \A p \in S : p # running => Sending(p) /\ msg[p].receiver \in S
  BY <1>1
<1>4. S \cap T = {}
  BY <1>2, <1>3 DEF NoSendCycle, Closed
<1>5. running \notin S
  BY <1>1, <1>2, <1>4
<1>6. QED
  BY <1>3, <1>5 DEF NoSendCycle

\* In a build where panic stops the kernel no set of processes waits only for one
\* another in send_msg: what the deadlock check of __send_msg is there for.
THEOREM NoCircleOfSenders == Spec => []NoSendCycle
<1> USE ProcNumbers, SourceMembers
<1>1. Init => NoSendCycle
  BY DEF Init, NoSendCycle, Sending
<1>2. KernelInv /\ NoSendCycle /\ [Next]_vars => NoSendCycle'
  <2> SUFFICES ASSUME KernelInv, NoSendCycle, [Next]_vars
               PROVE  NoSendCycle'
    OBVIOUS
  <2> TypeOK /\ QueueInv /\ RunningIsRunnable /\ NoMissedRendezvous
    BY DEF KernelInv
  <2>0. /\ running \in Proc /\ status \in [Proc -> SUBSET Flag]
        /\ msg \in [Proc -> Message]
        /\ mode = "user" => ~Sending(running)
    BY DEF TypeOK, RunningIsRunnable, Runnable, Sending
  <2>1. ASSUME NEW r \in Proc, NEW d \in Payload, Send(r, d)
        PROVE  NoSendCycle'
    <3> DEFINE m == [sender |-> running, receiver |-> r, body |-> d]
    <3>1. m.receiver = r
      OBVIOUS
    <3> HIDE DEF m
    <3>2. CASE Enqueue(r, m) /\ (Debug => ~(DeadLock(running, r) \/ r = running))
      BY <3>1, <3>2, EnqueueClosesNoCircle
    <3>3. CASE Deliver(r, m) /\ Waits(r, running)
      <4>1. ~Sending(r) /\ ~Sending(running)
        BY <2>0, <2>1, <3>3 DEF Waits, NoMissedRendezvous, Send
      <4>2. \A p \in Proc : Sending(p)' => Sending(p) /\ msg'[p].receiver = msg[p].receiver
        BY <2>0, <3>3, <4>1 DEF Deliver, Sending
      <4>3. QED
        BY <4>2, NoNewSender
    <3>4. CASE UNCHANGED <<status, msg>>
      BY <3>4, NoNewSender DEF Sending
    <3>5. QED
      BY <2>1, <3>2, <3>3, <3>4 DEF Send, Halt, m
  <2>2. ASSUME NEW from \in Source, Recv(from)
        PROVE  NoSendCycle'
    <3>1. ~Sending(running)
      BY <2>0, <2>2 DEF Recv
    <3>2. ASSUME \A p \in Proc : p # running => msg'[p] = msg[p],
                 \A p \in Proc : "SENDING" \in status'[p] => "SENDING" \in status[p]
          PROVE  NoSendCycle'
      <4>1. \A p \in Proc : Sending(p)' => Sending(p) /\ msg'[p].receiver = msg[p].receiver
        BY <3>1, <3>2 DEF Sending
      <4>2. QED
        BY <4>1, NoNewSender
    <3>3. CASE Halt \/ RecvReflect(from)
      BY <2>0, <3>2, <3>3 DEF Halt, RecvReflect
    <3>4. CASE RecvGotInt(from)
      <4>1. \A p \in Proc : p # running => msg'[p] = msg[p]
        BY <2>0, <3>4 DEF RecvGotInt
      <4>2. \A p \in Proc : "SENDING" \in status'[p] => "SENDING" \in status[p]
        BY <2>0, <3>4 DEF RecvGotInt
      <4>3. QED
        BY <3>2, <4>1, <4>2
    <3>5. CASE RecvGotExc(from)
      <4>1. \A p \in Proc : p # running => msg'[p] = msg[p]
        BY <2>0, <3>5 DEF RecvGotExc
      <4>2. \A p \in Proc : "SENDING" \in status'[p] => "SENDING" \in status[p]
        BY <2>0, <3>5 DEF RecvGotExc
      <4>3. QED
        BY <3>2, <4>1, <4>2
    <3>6. CASE RecvQueued(from)
      <4>1. PICK k \in Candidates(from) :
              /\ msg' = [msg EXCEPT ![running] = msg[queue[running][k]]]
              /\ status' = [status EXCEPT ![queue[running][k]] = @ \ {"SENDING"}]
        BY <3>6 DEF RecvQueued
      <4>2. QED
        BY <2>0, <3>2, <4>1
    <3>7. CASE RecvBlock(from)
      BY <2>0, <3>2, <3>7 DEF RecvBlock
    <3>8. QED
      BY <2>2, <3>3, <3>4, <3>5, <3>6, <3>7 DEF Recv
  <2>3. CASE Timer \/ IdleStep \/ UNCHANGED vars
    BY <2>3, NoNewSender DEF Timer, IdleStep, vars, Sending
  <2>4. ASSUME NEW i \in Irq, HwInterrupt(i)
        PROVE  NoSendCycle'
    <3> DEFINE h == Subscriber[i]
    <3>1. h \in Proc
      BY IPCAssumption DEF IPCAssumption
    <3>2. /\ msg' = msg \/ Notify(h, i)
          /\ \/ status' = [status EXCEPT ![h] = @ \ {"RECEIVING"}]
             \/ status' = [status EXCEPT ![h] = @ \cup {"GOTINT"}]
      BY <2>4 DEF HwInterrupt
    <3> HIDE DEF h
    <3>3. \A p \in Proc : msg'[p].receiver = msg[p].receiver
      BY <2>0, <3>1, <3>2, NotifyProperties
    <3>4. \A p \in Proc : Sending(p)' => Sending(p)
      BY <2>0, <3>1, <3>2 DEF Sending
    <3>5. QED
      BY <3>3, <3>4, NoNewSender
  <2>5. CASE PageFault
    <3> DEFINE cleared == [status EXCEPT ![running] = {}]
               h       == ExcHandler
    <3>1. h \in Proc
      BY IPCAssumption DEF IPCAssumption
    <3>2. /\ msg' = msg \/ Notify(h, running)
          /\ \/ status' = status
             \/ status' = [cleared EXCEPT ![h] = @ \ {"RECEIVING"}]
             \/ status' = [cleared EXCEPT ![h] = @ \cup {"GOTEXC"}]
      BY <2>5 DEF PageFault
    <3>3. /\ cleared \in [Proc -> SUBSET Flag]
          /\ \A p \in Proc : "SENDING" \in cleared[p] => Sending(p)
      BY <2>0 DEF Sending
    <3> HIDE DEF h, cleared
    <3>4. \A p \in Proc : msg'[p].receiver = msg[p].receiver
      BY <2>0, <3>1, <3>2, NotifyProperties
    <3>5. \A p \in Proc : Sending(p)' => Sending(p)
      BY <2>0, <3>1, <3>2, <3>3 DEF Sending
    <3>6. QED
      BY <3>4, <3>5, NoNewSender
  <2>6. QED
    BY <2>1, <2>2, <2>3, <2>4, <2>5 DEF Next
<1>3. QED
  BY <1>1, <1>2, KernelCorrect, PTL DEF Spec

-----------------------------------------------------------------------------
(* What a single step may do: hand over one message, serve the queues in   *)
(* order, keep the flags of pending interrupts true, and come back from    *)
(* the deadlock check.                                                     *)

(* The two halves of Handover *)

\* Senders are released only with their message in the hands of the addressee ...
SendersReleased ==
  \A s \in Proc : Sending(s) /\ ~Sending(s)' =>
    running = msg[s].receiver /\ msg'[running] = msg[s]

\* ... and receivers only with a message that they were waiting for.
ReceiversServed ==
  \A r \in Proc : Receiving(r) /\ ~Receiving(r)' =>
    \/ /\ msg[r].sender \in {PROC_ANY, running}
       /\ msg'[r].sender = running /\ msg'[r].receiver = r
    \/ FromInterrupt(msg[r].sender) /\ msg'[r].sender = PROC_INTERRUPT

\* What the steps below need of the invariant: the current process is not blocked.
LEMMA CallerRuns ==
  ASSUME KernelInv
  PROVE  /\ running \in Proc /\ status \in [Proc -> SUBSET Flag]
         /\ msg \in [Proc -> Message]
         /\ mode = "user" => ~Sending(running) /\ ~Receiving(running)
BY DEF KernelInv, TypeOK, RunningIsRunnable, Runnable, Sending, Receiving

\* A step that clears neither SENDING nor RECEIVING releases nobody.
LEMMA NobodyReleased ==
  ASSUME \A p \in Proc : /\ Sending(p) => "SENDING" \in status'[p]
                         /\ Receiving(p) => "RECEIVING" \in status'[p]
  PROVE  SendersReleased /\ ReceiversServed
BY DEF SendersReleased, ReceiversServed, Sending, Receiving

\* send_msg wakes only its receiver, which waits for it, and gives it the message.
LEMMA SendHandsOver ==
  ASSUME KernelInv, NEW r \in Proc, NEW d \in Payload, Send(r, d)
  PROVE  SendersReleased /\ ReceiversServed
<1> DEFINE m == [sender |-> running, receiver |-> r, body |-> d]
<1>1. /\ running \in Proc /\ status \in [Proc -> SUBSET Flag]
      /\ msg \in [Proc -> Message] /\ ~Receiving(running)
  BY CallerRuns DEF Send
<1>2. m.sender = running /\ m.receiver = r
  OBVIOUS
<1> HIDE DEF m
<1>3. CASE Deliver(r, m) /\ Waits(r, running)
  <2>1. /\ msg'[r] = m
        /\ \A p \in Proc : status'[p] = IF p = r THEN status[p] \ {"RECEIVING"} ELSE status[p]
    BY <1>1, <1>3 DEF Deliver
  <2>2. SendersReleased
    BY <2>1 DEF SendersReleased, Sending
  <2>3. ReceiversServed
    BY <1>2, <1>3, <2>1 DEF ReceiversServed, Receiving, Waits
  <2>4. QED
    BY <2>2, <2>3
<1>4. CASE Enqueue(r, m)
  BY <1>1, <1>4, NobodyReleased DEF Enqueue, Sending, Receiving
<1>5. CASE UNCHANGED status
  BY <1>5, NobodyReleased DEF Sending, Receiving
<1>6. QED
  BY <1>3, <1>4, <1>5 DEF Send, Halt, m

\* recv_msg releases only the sender whose message it takes, and nobody who waits.
LEMMA RecvHandsOver ==
  ASSUME KernelInv, NEW from \in Source, Recv(from)
  PROVE  SendersReleased /\ ReceiversServed
<1>1. /\ running \in Proc /\ status \in [Proc -> SUBSET Flag]
      /\ msg \in [Proc -> Message]
  BY CallerRuns
<1>2. CASE RecvQueued(from)
  <2>1. PICK k \in DOMAIN queue[running] :
          /\ msg' = [msg EXCEPT ![running] = msg[queue[running][k]]]
          /\ status' = [status EXCEPT ![queue[running][k]] = @ \ {"SENDING"}]
    BY <1>2 DEF RecvQueued, Candidates
  <2>2. msg[queue[running][k]].receiver = running
    BY <1>1 DEF KernelInv, QueueInv
  <2>3. \A p \in Proc : /\ "RECEIVING" \in status'[p] <=> Receiving(p)
                        /\ p # queue[running][k] => status'[p] = status[p]
    BY <1>1, <2>1 DEF Receiving
  <2>4. QED
    BY <1>1, <2>1, <2>2, <2>3 DEF SendersReleased, ReceiversServed, Sending, Receiving
<1>3. CASE Halt \/ RecvReflect(from)
  BY <1>3, NobodyReleased DEF Halt, RecvReflect, Sending, Receiving
<1>4. CASE RecvGotInt(from)
  <2>1. status' = status \/ status' = [status EXCEPT ![running] = @ \ {"GOTINT"}]
    BY <1>4 DEF RecvGotInt
  <2>2. QED
    BY <1>1, <2>1, NobodyReleased DEF Sending, Receiving
<1>5. CASE RecvGotExc(from)
  <2>1. status' = status \/ status' = [status EXCEPT ![running] = @ \ {"GOTEXC"}]
    BY <1>5 DEF RecvGotExc
  <2>2. QED
    BY <1>1, <2>1, NobodyReleased DEF Sending, Receiving
<1>6. CASE RecvBlock(from)
  BY <1>1, <1>6, NobodyReleased DEF RecvBlock, Sending, Receiving
<1>7. QED
  BY <1>2, <1>3, <1>4, <1>5, <1>6 DEF Recv

\* The message that wakes somebody from an interrupt says so.
LEMMA NotifySender ==
  ASSUME msg \in [Proc -> Message], NEW h \in Proc, NEW n, Notify(h, n)
  PROVE  msg'[h].sender = PROC_INTERRUPT
<1>1. msg'[h] = [msg[h] EXCEPT !.sender = PROC_INTERRUPT, !.body = n]
  BY DEF Notify
<1>2. msg[h] \in Message
  OBVIOUS
<1>3. [msg[h] EXCEPT !.sender = PROC_INTERRUPT, !.body = n].sender = PROC_INTERRUPT
  BY <1>2 DEF Message
<1>4. QED
  BY <1>1, <1>3

\* A device interrupt wakes its subscriber, and only when that waits for it.
LEMMA HwInterruptHandsOver ==
  ASSUME KernelInv, NEW i \in Irq, HwInterrupt(i)
  PROVE  SendersReleased /\ ReceiversServed
<1> DEFINE h == Subscriber[i]
<1>1. /\ status \in [Proc -> SUBSET Flag] /\ msg \in [Proc -> Message] /\ h \in Proc
  BY CallerRuns, IPCAssumption DEF IPCAssumption
<1>2. \/ /\ WaitsForInterrupt(status, h) /\ Notify(h, i)
         /\ status' = [status EXCEPT ![h] = @ \ {"RECEIVING"}]
      \/ status' = [status EXCEPT ![h] = @ \cup {"GOTINT"}]
  BY DEF HwInterrupt
<1> HIDE DEF h
<1>3. CASE status' = [status EXCEPT ![h] = @ \cup {"GOTINT"}]
  BY <1>1, <1>3, NobodyReleased DEF Sending, Receiving
<1>4. CASE /\ WaitsForInterrupt(status, h) /\ Notify(h, i)
           /\ status' = [status EXCEPT ![h] = @ \ {"RECEIVING"}]
  <2>1. FromInterrupt(msg[h].sender) /\ msg'[h].sender = PROC_INTERRUPT
    BY <1>1, <1>4, NotifySender DEF WaitsForInterrupt, FromInterrupt
  <2>2. QED
    BY <1>1, <1>4, <2>1 DEF SendersReleased, ReceiversServed, Sending, Receiving
<1>5. QED
  BY <1>2, <1>3, <1>4

\* So does a page fault: the flags that it clears besides are of a process that
\* is not blocked.
LEMMA PageFaultHandsOver ==
  ASSUME KernelInv, PageFault
  PROVE  SendersReleased /\ ReceiversServed
<1> DEFINE cleared == [status EXCEPT ![running] = {}]
           h       == ExcHandler
<1>1. /\ running \in Proc /\ status \in [Proc -> SUBSET Flag]
      /\ msg \in [Proc -> Message] /\ h \in Proc
      /\ ~Sending(running) /\ ~Receiving(running)
  BY CallerRuns, IPCAssumption DEF IPCAssumption, PageFault
<1>2. \/ status' = status
      \/ /\ WaitsForInterrupt(cleared, h) /\ Notify(h, running)
         /\ status' = [cleared EXCEPT ![h] = @ \ {"RECEIVING"}]
      \/ status' = [cleared EXCEPT ![h] = @ \cup {"GOTEXC"}]
  BY DEF PageFault
<1>3. /\ cleared \in [Proc -> SUBSET Flag]
      /\ \A p \in Proc : /\ "SENDING" \in cleared[p] <=> Sending(p)
                         /\ "RECEIVING" \in cleared[p] <=> Receiving(p)
  BY <1>1 DEF Sending, Receiving
<1> HIDE DEF h, cleared
<1>4. CASE status' = status
  BY <1>4, NobodyReleased DEF Sending, Receiving
<1>5. CASE status' = [cleared EXCEPT ![h] = @ \cup {"GOTEXC"}]
  BY <1>1, <1>3, <1>5, NobodyReleased
<1>6. CASE /\ WaitsForInterrupt(cleared, h) /\ Notify(h, running)
           /\ status' = [cleared EXCEPT ![h] = @ \ {"RECEIVING"}]
  <2>1. FromInterrupt(msg[h].sender) /\ msg'[h].sender = PROC_INTERRUPT
    BY <1>1, <1>6, NotifySender DEF WaitsForInterrupt, FromInterrupt
  <2>2. \A p \in Proc : /\ "SENDING" \in status'[p] <=> Sending(p)
                        /\ p # h => ("RECEIVING" \in status'[p] <=> Receiving(p))
    BY <1>1, <1>3, <1>6
  <2>3. QED
    BY <2>1, <2>2 DEF SendersReleased, ReceiversServed, Sending, Receiving
<1>7. QED
  BY <1>2, <1>4, <1>5, <1>6

\* The rendezvous of __send_msg and __recv_msg hands over one message: nobody is
\* released but by the call, or the interrupt, that he was blocked for.
THEOREM MessagesHandedOver == Spec => Handover
<1>1. KernelInv /\ [Next]_vars => [SendersReleased /\ ReceiversServed]_vars
  <2> SUFFICES ASSUME KernelInv, Next
               PROVE  SendersReleased /\ ReceiversServed
    OBVIOUS
  <2>1. CASE \E r \in Proc, d \in Payload : Send(r, d)
    BY <2>1, SendHandsOver
  <2>2. CASE \E from \in Source : Recv(from)
    BY <2>2, RecvHandsOver
  <2>3. CASE Timer \/ IdleStep
    BY <2>3, NobodyReleased DEF Timer, IdleStep, Sending, Receiving
  <2>4. CASE \E i \in Irq : HwInterrupt(i)
    BY <2>4, HwInterruptHandsOver
  <2>5. CASE PageFault
    BY <2>5, PageFaultHandsOver
  <2>6. QED
    BY <2>1, <2>2, <2>3, <2>4, <2>5 DEF Next
<1>2. QED
  BY <1>1, KernelCorrect, PTL DEF Spec, Handover, SendersReleased, ReceiversServed

(* The order of the queues *)

\* What NoOvertaking says of one queue and its successor.
OrderKept(q, q2) ==
  \A s, t \in Proc : Before(q2, s, t) => Before(q, s, t) \/ ~Contains(q, t)

\* The new sender stands behind all the others ...
LEMMA AppendKeepsOrder ==
  ASSUME NEW q \in Seq(Proc), NEW p \in Proc, ~Contains(q, p)
  PROVE  OrderKept(q, Append(q, p))
<1>1. /\ Len(q) \in Nat /\ DOMAIN q = 1 .. Len(q)
      /\ DOMAIN Append(q, p) = 1 .. Len(q) + 1
      /\ \A i \in 1 .. Len(q) : Append(q, p)[i] = q[i]
      /\ Append(q, p)[Len(q) + 1] = p
  BY LenProperties, AppendProperties
<1> SUFFICES ASSUME NEW s \in Proc, NEW t \in Proc, Contains(q, t),
                    NEW j \in DOMAIN Append(q, p), NEW k \in DOMAIN Append(q, p),
                    j < k, Append(q, p)[j] = s, Append(q, p)[k] = t
             PROVE  Before(q, s, t)
  BY DEF OrderKept, Before
<1>2. k # Len(q) + 1
  BY <1>1
<1>3. j \in 1 .. Len(q) /\ k \in 1 .. Len(q)
  BY <1>1, <1>2
<1>4. QED
  BY <1>1, <1>3 DEF Before

\* ... and the one that is taken leaves the others as they stand.
LEMMA RemoveKeepsOrder ==
  ASSUME NEW q \in Seq(Proc), NEW i \in 1 .. Len(q)
  PROVE  OrderKept(q, RemoveAt(q, i))
<1>1. /\ Len(q) \in Nat /\ DOMAIN q = 1 .. Len(q)
      /\ DOMAIN RemoveAt(q, i) = 1 .. Len(q) - 1
      /\ \A l \in 1 .. Len(q) - 1 : RemoveAt(q, i)[l] = IF l < i THEN q[l] ELSE q[l + 1]
  BY LenProperties, RemoveAtProperties
<1> SUFFICES ASSUME NEW s \in Proc, NEW t \in Proc,
                    NEW j \in 1 .. Len(q) - 1, NEW k \in 1 .. Len(q) - 1,
                    j < k, RemoveAt(q, i)[j] = s, RemoveAt(q, i)[k] = t
             PROVE  Before(q, s, t)
  BY <1>1 DEF OrderKept, Before
<1> DEFINE j0 == IF j < i THEN j ELSE j + 1
           k0 == IF k < i THEN k ELSE k + 1
<1>2. j0 \in 1 .. Len(q) /\ k0 \in 1 .. Len(q) /\ j0 < k0
  BY <1>1
<1>3. q[j0] = s /\ q[k0] = t
  BY <1>1
<1> HIDE DEF j0, k0
<1>4. QED
  BY <1>1, <1>2, <1>3 DEF Before

\* The queues are served in order: recv_msg may pick a sender out of the middle,
\* and whoever stood before another still does.
THEOREM ServedInOrder == Spec => NoOvertaking
<1>1. KernelInv /\ [Next]_vars => [\A r \in Proc : OrderKept(queue[r], queue'[r])]_vars
  <2> SUFFICES ASSUME KernelInv, Next, NEW p \in Proc
               PROVE  OrderKept(queue[p], queue'[p])
    OBVIOUS
  <2>0. /\ queue \in [Proc -> Seq(Proc)] /\ running \in Proc
        /\ mode = "user" => ~Sending(running)
    BY CallerRuns DEF KernelInv, TypeOK
  <2>1. CASE UNCHANGED queue
    BY <2>1 DEF OrderKept
  <2>2. ASSUME NEW r \in Proc, NEW d \in Payload, Send(r, d)
        PROVE  OrderKept(queue[p], queue'[p])
    <3>1. ~Contains(queue[r], running)
      <4>1. \A k \in DOMAIN queue[r] : Sending(queue[r][k])
        BY DEF KernelInv, QueueInv
      <4>2. DOMAIN queue[r] = 1 .. Len(queue[r])
        BY <2>0, LenProperties
      <4>3. QED
        BY <2>0, <2>2, <4>1, <4>2 DEF Send, Contains
    <3>2. \/ UNCHANGED queue
          \/ queue' = [queue EXCEPT ![r] = Append(@, running)]
      BY <2>2 DEF Send, Halt, Deliver, Enqueue
    <3>3. CASE p = r /\ queue' = [queue EXCEPT ![r] = Append(@, running)]
      <4>1. queue'[p] = Append(queue[p], running) /\ queue[p] \in Seq(Proc)
        BY <2>0, <3>3
      <4>2. QED
        BY <2>0, <3>1, <3>3, <4>1, AppendKeepsOrder
    <3>4. CASE queue'[p] = queue[p]
      BY <3>4 DEF OrderKept
    <3>5. QED
      BY <2>0, <3>2, <3>3, <3>4
  <2>3. ASSUME NEW from \in Source, RecvQueued(from)
        PROVE  OrderKept(queue[p], queue'[p])
    <3>1. PICK k \in DOMAIN queue[running] :
            queue' = [queue EXCEPT ![running] = RemoveAt(@, k)]
      BY <2>3 DEF RecvQueued, Candidates
    <3>2. CASE p = running
      <4>1. /\ queue'[p] = RemoveAt(queue[p], k) /\ queue[p] \in Seq(Proc)
            /\ k \in 1 .. Len(queue[p])
        BY <2>0, <3>1, <3>2, LenProperties
      <4>2. QED
        BY <4>1, RemoveKeepsOrder
    <3>3. CASE p # running
      BY <2>0, <3>1, <3>3 DEF OrderKept
    <3>4. QED
      BY <3>2, <3>3
  <2>4. ASSUME NEW from \in Source, Recv(from)
        PROVE  UNCHANGED queue \/ RecvQueued(from)
    BY <2>4 DEF Recv, Halt, RecvReflect, RecvGotInt, RecvGotExc, RecvBlock
  <2>5. CASE Timer \/ IdleStep \/ (\E i \in Irq : HwInterrupt(i)) \/ PageFault
    BY <2>1, <2>5 DEF Timer, IdleStep, HwInterrupt, PageFault
  <2>6. QED
    BY <2>1, <2>2, <2>3, <2>4, <2>5 DEF Next
<1>2. KernelInv /\ [Next]_vars =>
        [\A r, s, t \in Proc :
           Before(queue'[r], s, t) => Before(queue[r], s, t) \/ ~Contains(queue[r], t)]_vars
  BY <1>1 DEF OrderKept
<1>3. QED
  BY <1>2, KernelCorrect, PTL DEF Spec, NoOvertaking

(* Pending interrupts and exceptions *)

\* The interrupts that come are those of one process, which never faults: of TaskTTY,
\* once TaskHD has identified its drives and the disk is silent.  While there are
\* those of two, recv_msg gives either of them the interrupts of the other.
OneProcessHyp ==
  /\ \A i, j \in Irq : Subscriber[i] = Subscriber[j]
  /\ \A i \in Irq : Subscriber[i] \notin Faulters

\* What PendingIsFlagged says, with the flags st.
IntFlagged(st, av) == \A p \in Proc : "GOTINT" \in st[p] <=> \E i \in av : Subscriber[i] = p
ExcFlagged(st, ex) == \A p \in Proc : "GOTEXC" \in st[p] <=> ex /\ p = ExcHandler

\* A step that leaves the two flags and what is available alone.
LEMMA FlagsFrame ==
  ASSUME PendingIsFlagged, avail' = avail, excAvail' = excAvail,
         \A p \in Proc : /\ "GOTINT" \in status'[p] <=> "GOTINT" \in status[p]
                         /\ "GOTEXC" \in status'[p] <=> "GOTEXC" \in status[p]
  PROVE  PendingIsFlagged'
BY DEF PendingIsFlagged

\* recv_msg takes the lowest interrupt that is available, which with one
\* subscriber is the caller's, and clears the flag with the last one.
LEMMA GotIntKeepsFlags ==
  ASSUME KernelInv, PendingIsFlagged, OneProcessHyp, NEW from \in Source,
         RecvGotInt(from)
  PROVE  PendingIsFlagged'
<1>1. running \in Proc /\ status \in [Proc -> SUBSET Flag] /\ avail \subseteq Irq
  BY CallerRuns DEF KernelInv, TypeOK
<1>2. avail # {} /\ \A i \in avail : Subscriber[i] = running
  BY <1>1 DEF PendingIsFlagged, OneProcessHyp, RecvGotInt
<1>3. PICK irq \in avail :
        /\ avail' = avail \ {irq}
        /\ status' = IF avail' = {} THEN [status EXCEPT ![running] = @ \ {"GOTINT"}]
                     ELSE status
  BY <1>2 DEF RecvGotInt
<1>4. excAvail' = excAvail
  BY DEF RecvGotInt
<1>5. \A p \in Proc : "GOTINT" \in status'[p] <=> \E i \in avail' : Subscriber[i] = p
  BY <1>1, <1>2, <1>3 DEF PendingIsFlagged
<1>6. \A p \in Proc : "GOTEXC" \in status'[p] <=> "GOTEXC" \in status[p]
  BY <1>1, <1>3
<1>7. QED
  BY <1>4, <1>5, <1>6 DEF PendingIsFlagged

\* The flag of the one exception goes with its slot.
LEMMA GotExcKeepsFlags ==
  ASSUME KernelInv, PendingIsFlagged, NEW from \in Source, RecvGotExc(from)
  PROVE  PendingIsFlagged'
<1>1. running \in Proc /\ status \in [Proc -> SUBSET Flag] /\ avail' = avail
  BY CallerRuns DEF RecvGotExc
<1>2. excAvail /\ running = ExcHandler
  BY <1>1 DEF PendingIsFlagged, RecvGotExc
<1>3. /\ excAvail' = FALSE
      /\ status' = [status EXCEPT ![running] = @ \ {"GOTEXC"}]
  BY <1>2 DEF RecvGotExc
<1>4. \A p \in Proc : /\ "GOTINT" \in status'[p] <=> "GOTINT" \in status[p]
                      /\ "GOTEXC" \in status'[p] <=> "GOTEXC" \in status[p] /\ p # running
  BY <1>1, <1>3
<1>5. QED
  BY <1>1, <1>2, <1>3, <1>4 DEF PendingIsFlagged

\* An interrupt is flagged for its subscriber, unless that gets it at once.
LEMMA HwInterruptKeepsFlags ==
  ASSUME KernelInv, PendingIsFlagged, NEW i \in Irq, HwInterrupt(i)
  PROVE  PendingIsFlagged'
<1>1. status \in [Proc -> SUBSET Flag] /\ Subscriber[i] \in Proc /\ excAvail' = excAvail
  BY CallerRuns, IPCAssumption DEF IPCAssumption, HwInterrupt
<1>2. CASE /\ status' = [status EXCEPT ![Subscriber[i]] = @ \ {"RECEIVING"}]
           /\ avail' = avail
  BY <1>1, <1>2, FlagsFrame
<1>3. CASE /\ status' = [status EXCEPT ![Subscriber[i]] = @ \cup {"GOTINT"}]
           /\ avail' = avail \cup {i}
  <2>1. \A p \in Proc :
          /\ "GOTINT" \in status'[p] <=> "GOTINT" \in status[p] \/ p = Subscriber[i]
          /\ "GOTEXC" \in status'[p] <=> "GOTEXC" \in status[p]
    BY <1>1, <1>3
  <2>2. QED
    BY <1>1, <1>3, <2>1 DEF PendingIsFlagged
<1>4. QED
  BY <1>2, <1>3 DEF HwInterrupt

\* A page fault clears flags of a process that has no interrupt pending; the flag
\* of the exception is set again if that process is the handler.
LEMMA PageFaultKeepsFlags ==
  ASSUME KernelInv, PendingIsFlagged, OneProcessHyp, PageFault
  PROVE  PendingIsFlagged'
<1> DEFINE cleared == [status EXCEPT ![running] = {}]
           h       == ExcHandler
<1>1. /\ running \in Proc /\ status \in [Proc -> SUBSET Flag] /\ h \in Proc
      /\ running \in Faulters /\ avail \subseteq Irq /\ avail' = avail
  BY CallerRuns, IPCAssumption DEF IPCAssumption, PageFault, KernelInv, TypeOK
<1>2. "GOTINT" \notin status[running]
  BY <1>1 DEF PendingIsFlagged, OneProcessHyp
<1>3. /\ cleared \in [Proc -> SUBSET Flag]
      /\ \A p \in Proc : cleared[p] = IF p = running THEN {} ELSE status[p]
  BY <1>1
<1> HIDE DEF cleared
<1>4. CASE UNCHANGED <<status, excAvail>>
  BY <1>1, <1>4, FlagsFrame
<1>5. CASE /\ WaitsForInterrupt(cleared, h)
           /\ status' = [cleared EXCEPT ![h] = @ \ {"RECEIVING"}]
           /\ excAvail' = excAvail
  <2>1. h # running
    BY <1>1, <1>3, <1>5 DEF WaitsForInterrupt
  <2>2. "GOTEXC" \notin status[running]
    BY <1>1, <2>1 DEF PendingIsFlagged
  <2> HIDE DEF h
  <2>3. \A p \in Proc : status'[p] = IF p = h THEN cleared[p] \ {"RECEIVING"} ELSE cleared[p]
    BY <1>3, <1>5
  <2>4. \A p \in Proc : /\ "GOTINT" \in status'[p] <=> "GOTINT" \in status[p]
                        /\ "GOTEXC" \in status'[p] <=> "GOTEXC" \in status[p]
    BY <1>2, <1>3, <2>2, <2>3
  <2>5. QED
    BY <1>1, <1>5, <2>4, FlagsFrame
<1>6. CASE /\ status' = [cleared EXCEPT ![h] = @ \cup {"GOTEXC"}]
           /\ excAvail' = TRUE
  <2>1. \A p \in Proc : "GOTEXC" \in status[p] => p = h
    BY DEF PendingIsFlagged
  <2>2. h \in Proc
    BY <1>1
  <2>3. h = ExcHandler
    OBVIOUS
  <2> HIDE DEF h
  <2>4. \A p \in Proc : status'[p] = IF p = h THEN cleared[p] \cup {"GOTEXC"} ELSE cleared[p]
    BY <1>3, <1>6
  <2>5. \A p \in Proc : "GOTINT" \in status'[p] <=> "GOTINT" \in status[p]
    <3>1. ASSUME NEW p \in Proc
          PROVE  "GOTINT" \in status'[p] <=> "GOTINT" \in cleared[p]
      <4>1. CASE p = h
        <5>1. status'[p] = cleared[p] \cup {"GOTEXC"}
          BY <2>4, <4>1
        <5>2. QED
          BY <5>1
      <4>2. CASE p # h
        BY <2>4, <4>2
      <4>3. QED
        BY <4>1, <4>2
    <3>2. \A p \in Proc : "GOTINT" \in cleared[p] <=> "GOTINT" \in status[p]
      BY <1>2, <1>3
    <3>3. QED
      BY <3>1, <3>2
  <2>6. \A p \in Proc : "GOTEXC" \in status'[p] <=> p = h
    BY <1>3, <2>1, <2>4
  <2>7. QED
    BY <1>1, <1>6, <2>3, <2>5, <2>6 DEF PendingIsFlagged
<1>7. QED
  BY <1>4, <1>5, <1>6 DEF PageFault, cleared

\* Where all interrupts belong to one and the same process, which never faults,
\* GOTINT and GOTEXC are set exactly while something is pending: no interrupt is
\* forgotten or announced in vain.
THEOREM PendingTruthful == OneProcessHyp => (Spec => []PendingIsFlagged)
<1> SUFFICES ASSUME OneProcessHyp
             PROVE  Spec => []PendingIsFlagged
  OBVIOUS
<1>1. Init => PendingIsFlagged
  BY DEF Init, PendingIsFlagged
<1>2. KernelInv /\ PendingIsFlagged /\ [Next]_vars => PendingIsFlagged'
  <2> SUFFICES ASSUME KernelInv, PendingIsFlagged, [Next]_vars
               PROVE  PendingIsFlagged'
    OBVIOUS
  <2>0. running \in Proc /\ status \in [Proc -> SUBSET Flag]
    BY CallerRuns
  <2>1. ASSUME NEW r \in Proc, NEW d \in Payload, Send(r, d)
        PROVE  PendingIsFlagged'
    <3>1. /\ \/ status' = status
             \/ status' = [status EXCEPT ![r] = @ \ {"RECEIVING"}]
             \/ status' = [status EXCEPT ![running] = @ \cup {"SENDING"}]
          /\ UNCHANGED <<avail, excAvail>>
      BY <2>1 DEF Send, Halt, Deliver, Enqueue
    <3>2. QED
      BY <2>0, <3>1, FlagsFrame
  <2>2. ASSUME NEW from \in Source, Recv(from)
        PROVE  PendingIsFlagged'
    <3>1. CASE RecvGotInt(from)
      BY <3>1, GotIntKeepsFlags
    <3>2. CASE RecvGotExc(from)
      BY <3>2, GotExcKeepsFlags
    <3>3. CASE RecvQueued(from)
      <4>1. PICK k \in DOMAIN queue[running] :
              status' = [status EXCEPT ![queue[running][k]] = @ \ {"SENDING"}]
        BY <3>3 DEF RecvQueued, Candidates
      <4>2. QED
        BY <2>0, <3>3, <4>1, FlagsFrame DEF RecvQueued
    <3>4. CASE RecvBlock(from)
      BY <2>0, <3>4, FlagsFrame DEF RecvBlock
    <3>5. CASE UNCHANGED <<status, avail, excAvail>>
      BY <3>5, FlagsFrame
    <3>6. QED
      BY <2>2, <3>1, <3>2, <3>3, <3>4, <3>5 DEF Recv, Halt, RecvReflect
  <2>3. CASE Timer \/ IdleStep \/ UNCHANGED vars
    BY <2>3, FlagsFrame DEF Timer, IdleStep, vars
  <2>4. CASE \E i \in Irq : HwInterrupt(i)
    BY <2>4, HwInterruptKeepsFlags
  <2>5. CASE PageFault
    BY <2>5, PageFaultKeepsFlags
  <2>6. QED
    BY <2>1, <2>2, <2>3, <2>4, <2>5 DEF Next
<1>3. QED
  BY <1>1, <1>2, KernelCorrect, PTL DEF Spec

\* Where all interrupts belong to one and the same process, which never faults,
\* the panic "No interrupt with a interrupt status." of __recv_msg is never met;
\* with two lines of one subscriber each TLC finds it.
THEOREM NoFalseInterrupt == OneProcessHyp => (Spec => []GotIntHasInterrupt)
<1> SUFFICES ASSUME OneProcessHyp
             PROVE  Spec => []GotIntHasInterrupt
  OBVIOUS
<1>1. PendingIsFlagged => GotIntHasInterrupt
  BY DEF PendingIsFlagged, GotIntHasInterrupt
<1>2. QED
  BY <1>1, PendingTruthful, PTL

(* The walk of __is_dead_lock *)

\* The walk from r goes on wherever a sender on it waits.
LEMMA ChainClosed ==
  ASSUME TypeOK, NEW r \in Proc
  PROVE  /\ r \in SendChain(r) /\ SendChain(r) \subseteq Proc
         /\ \A p \in SendChain(r) : Sending(p) => msg[p].receiver \in SendChain(r)
<1>1. r \in SendChain(r) /\ SendChain(r) \subseteq Proc
  BY DEF SendChain
<1>2. ASSUME NEW p \in SendChain(r), Sending(p)
      PROVE  msg[p].receiver \in SendChain(r)
  <2>1. p \in Proc /\ msg[p].receiver \in Proc
    BY <1>1 DEF TypeOK, Message
  <2>2. ASSUME NEW S \in SUBSET Proc, r \in S, Closed(S)
        PROVE  msg[p].receiver \in S
    BY <1>2, <2>2 DEF SendChain, Closed
  <2>3. QED
    BY <2>1, <2>2 DEF SendChain
<1>3. QED
  BY <1>1, <1>2

\* In a build where panic stops the kernel the walk of __is_dead_lock always ends:
\* a walk that does not goes through senders only, which wait for one another, and
\* panic(DEADLOCK) has refused to let the last of them in.
THEOREM WalkEnds == Debug => (Spec => []DeadLockCheckEnds)
<1> SUFFICES ASSUME Debug
             PROVE  Spec => []DeadLockCheckEnds
  OBVIOUS
<1>1. Init => DeadLockCheckEnds
  BY DEF Init, DeadLockCheckEnds
<1>2. KernelInv /\ NoSendCycle /\ DeadLockCheckEnds /\ [Next]_vars => DeadLockCheckEnds'
  <2> SUFFICES ASSUME KernelInv, NoSendCycle, mode # "hung", [Next]_vars
               PROVE  mode' # "hung"
    BY DEF DeadLockCheckEnds
  <2>1. ASSUME NEW r \in Proc, NEW d \in Payload, Send(r, d)
        PROVE  mode' # "hung"
    <3>1. ~WalkEndless(r)
      <4>1. ~(\A q \in SendChain(r) : Sending(q) /\ msg[q].receiver \in SendChain(r))
        BY ChainClosed DEF KernelInv, NoSendCycle
      <4>2. QED
        BY <4>1, ChainClosed DEF KernelInv, WalkEndless
    <3>2. QED
      BY <2>1, <3>1, ScheduleProperties, CallerRuns DEF Send, Halt, Deliver, Enqueue
  <2>2. ASSUME NEW from \in Source, Recv(from)
        PROVE  mode' # "hung"
    BY <2>2, ScheduleProperties, CallerRuns
       DEF Recv, Halt, RecvReflect, RecvGotInt, RecvGotExc, RecvQueued, RecvBlock
  <2>3. CASE Timer
    BY <2>3, ScheduleProperties, CallerRuns DEF Timer
  <2>4. CASE PageFault
    BY <2>4, ScheduleProperties, CallerRuns DEF PageFault
  <2>5. CASE IdleStep \/ (\E i \in Irq : HwInterrupt(i)) \/ UNCHANGED vars
    BY <2>5 DEF IdleStep, HwInterrupt, vars
  <2>6. QED
    BY <2>1, <2>2, <2>3, <2>4, <2>5 DEF Next
<1>3. QED
  BY <1>1, <1>2, KernelCorrect, NoCircleOfSenders, PTL DEF Spec

-----------------------------------------------------------------------------
(* The kernel of IPC implements Rendezvous: every step of the kernel is a  *)
(* step of the rendezvous, or changes nothing that a program can see.      *)

\* The processes blocked in send_msg and in recv_msg.
Senders   == {p \in Proc : Sending(p)}
Receivers == {p \in Proc : Receiving(p)}

\* A process that waits in recv_msg has its own number in its buffer: interrupt
\* messages leave that field alone.
WaitingBuffer == \A p \in Proc : Receiving(p) => msg[p].receiver = p

RefinementInv == KernelInv /\ WaitingBuffer

Visible == <<Senders, Receivers, msg>>

(* The rendezvous, spelled out for the variables of the kernel. *)

\* A message into the hands of a receiver, or on offer.
LEMMA AbstractSend ==
  ASSUME NEW p, NEW r, NEW d, p \notin Senders \cup Receivers
  PROVE  LET m       == [sender |-> p, receiver |-> r, body |-> d]
             accepts == r \in Receivers /\ msg[r].sender \in {PROC_ANY, p} IN
         (\/ /\ accepts
             /\ msg' = [msg EXCEPT ![p] = m, ![r] = m]
             /\ Receivers' = Receivers \ {r} /\ Senders' = Senders
          \/ /\ ~accepts
             /\ msg' = [msg EXCEPT ![p] = m]
             /\ Senders' = Senders \cup {p} /\ Receivers' = Receivers)
         => Abstract!Send(p, r, d)
BY DEF Abstract!Send, Abstract!Free, Abstract!Accepts, Senders, Receivers

\* A message that was on offer.
LEMMA AbstractTake ==
  ASSUME NEW p, NEW s, NEW f, p \notin Senders \cup Receivers,
         s \in Senders, msg[s].receiver = p, f \in {PROC_ANY, s},
         msg' = [msg EXCEPT ![p] = msg[s]],
         Senders' = Senders \ {s}, Receivers' = Receivers
  PROVE  Abstract!Take(p, s, f)
BY DEF Abstract!Take, Abstract!Free, Abstract!Offers, Senders, Receivers

\* A receive that finds nothing on offer.
LEMMA AbstractWait ==
  ASSUME NEW p, NEW f, p \notin Senders \cup Receivers,
         \A s \in Senders : ~(msg[s].receiver = p /\ f \in {PROC_ANY, s}),
         msg' = [msg EXCEPT ![p] = [sender |-> f, receiver |-> p, body |-> 0]],
         Receivers' = Receivers \cup {p}, Senders' = Senders
  PROVE  Abstract!Wait(p, f)
BY DEF Abstract!Wait, Abstract!Free, Abstract!Offers, Senders, Receivers

\* An interrupt or exception message.
LEMMA AbstractSignal ==
  ASSUME NEW p, NEW n, p \notin Senders,
         p \in Receivers => msg[p].sender \in {PROC_ANY, PROC_INTERRUPT},
         msg' = [msg EXCEPT ![p] = [msg[p] EXCEPT !.sender = PROC_INTERRUPT,
                                                  !.receiver = p, !.body = n]],
         Receivers' = Receivers \ {p}, Senders' = Senders
  PROVE  Abstract!Signal(p, n)
BY DEF Abstract!Signal, Senders, Receivers

\* The answer to recv_msg from process 0.
LEMMA AbstractReflect ==
  ASSUME NEW p, p \notin Senders \cup Receivers,
         msg' = [msg EXCEPT ![p] = [msg[p] EXCEPT !.receiver = p, !.body = 0]],
         Senders' = Senders, Receivers' = Receivers
  PROVE  Abstract!Reflect(p)
BY DEF Abstract!Reflect, Abstract!Free, Senders, Receivers

\* A message of which every field is written.
LEMMA WholeMessage ==
  ASSUME NEW m \in Message, NEW s, NEW r, NEW n
  PROVE  [m EXCEPT !.sender = s, !.receiver = r, !.body = n]
           = [sender |-> s, receiver |-> r, body |-> n]
<1>1. PICK a \in Source, b \in Proc, c \in Nat \cup Payload :
        m = [sender |-> a, receiver |-> b, body |-> c]
  BY DEF Message
<1> DEFINE m1 == [m EXCEPT !.sender = s]
           m2 == [m1 EXCEPT !.receiver = r]
           m3 == [m2 EXCEPT !.body = n]
<1>2. m1 = [sender |-> s, receiver |-> b, body |-> c]
  BY <1>1
<1> HIDE DEF m1
<1>3. m2 = [sender |-> s, receiver |-> r, body |-> c]
  BY <1>2
<1> HIDE DEF m2
<1>4. m3 = [sender |-> s, receiver |-> r, body |-> n]
  BY <1>3
<1> HIDE DEF m3
<1>5. [m EXCEPT !.sender = s, !.receiver = r, !.body = n] = m3
  BY DEF m1, m2, m3
<1>6. QED
  BY <1>4, <1>5

\* What the abstract steps need to know of the current process and the types.
LEMMA CallerFree ==
  ASSUME KernelInv, mode = "user"
  PROVE  /\ running \in Proc /\ running \notin Senders \cup Receivers
         /\ msg \in [Proc -> Message] /\ status \in [Proc -> SUBSET Flag]
         /\ Senders \subseteq Proc /\ Receivers \subseteq Proc
         /\ Senders \cap Receivers = {}
BY DEF KernelInv, TypeOK, RunningIsRunnable, NoMissedRendezvous, Runnable,
       Sending, Receiving, Senders, Receivers

\* send_msg is Send, or shows nothing when the kernel stops.
LEMMA SendRefines ==
  ASSUME KernelInv, NEW r \in Proc, NEW d \in Payload, Send(r, d)
  PROVE  Abstract!Send(running, r, d) \/ UNCHANGED Visible
<1> DEFINE m == [sender |-> running, receiver |-> r, body |-> d]
<1>1. /\ running \in Proc /\ running \notin Senders \cup Receivers
      /\ msg \in [Proc -> Message] /\ status \in [Proc -> SUBSET Flag]
      /\ Senders \cap Receivers = {}
  BY CallerFree DEF Send
<1>2. Waits(r, running) <=> r \in Receivers /\ msg[r].sender \in {PROC_ANY, running}
  BY DEF Waits, Receivers
<1> HIDE DEF m
<1>3. CASE Deliver(r, m) /\ Waits(r, running)
  <2>1. msg' = [msg EXCEPT ![running] = m, ![r] = m]
    BY <1>3 DEF Deliver
  <2>2. Receivers' = Receivers \ {r} /\ Senders' = Senders
    BY <1>1, <1>3 DEF Deliver, Receivers, Senders, Sending, Receiving
  <2>3. QED
    BY <1>1, <1>2, <1>3, <2>1, <2>2, AbstractSend DEF m
<1>4. CASE Enqueue(r, m) /\ ~Waits(r, running)
  <2>1. msg' = [msg EXCEPT ![running] = m]
    BY <1>4 DEF Enqueue
  <2>2. Senders' = Senders \cup {running} /\ Receivers' = Receivers
    BY <1>1, <1>4 DEF Enqueue, Receivers, Senders, Sending, Receiving
  <2>3. QED
    BY <1>1, <1>2, <1>4, <2>1, <2>2, AbstractSend DEF m
<1>5. CASE UNCHANGED <<status, msg>>
  BY <1>5 DEF Visible, Senders, Receivers, Sending, Receiving
<1>6. QED
  BY <1>3, <1>4, <1>5 DEF Send, Halt, m

\* recv_msg takes a sender, waits, gets an interrupt message, or is reflected.
LEMMA RecvRefines ==
  ASSUME KernelInv, NEW from \in Source, Recv(from)
  PROVE  \/ \E s \in Proc : from \in Proc \cup {PROC_ANY} /\ Abstract!Take(running, s, from)
         \/ Abstract!Wait(running, from)
         \/ \E n \in Irq \cup Proc : Abstract!Signal(running, n)
         \/ Abstract!Reflect(running)
         \/ UNCHANGED Visible
<1> TypeOK /\ QueueInv
  BY DEF KernelInv
<1>1. /\ running \in Proc /\ running \notin Senders \cup Receivers
      /\ msg \in [Proc -> Message] /\ status \in [Proc -> SUBSET Flag]
      /\ Senders \subseteq Proc
  BY CallerFree DEF Recv
<1>2. CASE Halt
  BY <1>2 DEF Halt, Visible, Senders, Receivers, Sending, Receiving
<1>3. CASE RecvReflect(from)
  <2>1. Senders' = Senders /\ Receivers' = Receivers
    BY <1>3 DEF RecvReflect, Senders, Receivers, Sending, Receiving
  <2>2. QED
    BY <1>1, <1>3, <2>1, AbstractReflect DEF RecvReflect
\* An interrupt or exception message to a caller that is not blocked.
<1>4. ASSUME NEW n \in Irq \cup Proc,
             msg' = [msg EXCEPT ![running] = [sender |-> PROC_INTERRUPT,
                                              receiver |-> running, body |-> n]],
             Senders' = Senders, Receivers' = Receivers
      PROVE  Abstract!Signal(running, n)
  <2>1. msg[running] \in Message
    BY <1>1
  <2>2. [msg[running] EXCEPT !.sender = PROC_INTERRUPT, !.receiver = running, !.body = n]
          = [sender |-> PROC_INTERRUPT, receiver |-> running, body |-> n]
    BY <2>1, WholeMessage
  <2>3. Receivers' = Receivers \ {running}
    BY <1>1, <1>4
  <2>4. QED
    BY <1>1, <1>4, <2>2, <2>3, AbstractSignal
<1>5. CASE RecvGotInt(from)
  <2>1. CASE UNCHANGED <<status, msg>>
    BY <2>1 DEF Visible, Senders, Receivers, Sending, Receiving
  <2>2. CASE \E irq \in IF avail = {} THEN {0} ELSE avail :
               /\ msg' = [msg EXCEPT ![running] = [sender |-> PROC_INTERRUPT,
                                         receiver |-> running, body |-> irq]]
               /\ status' \in {status, [status EXCEPT ![running] = @ \ {"GOTINT"}]}
    <3>1. Senders' = Senders /\ Receivers' = Receivers
      BY <1>1, <2>2 DEF Senders, Receivers, Sending, Receiving
    <3>2. (IF avail = {} THEN {0} ELSE avail) \subseteq Irq \cup Proc
      BY ProcNumbers DEF TypeOK
    <3>3. QED
      BY <1>4, <2>2, <3>1, <3>2
  <2>3. QED
    BY <1>5, <2>1, <2>2 DEF RecvGotInt
<1>6. CASE RecvGotExc(from)
  <2>1. CASE UNCHANGED <<status, msg>>
    BY <2>1 DEF Visible, Senders, Receivers, Sending, Receiving
  <2>2. CASE /\ msg' = [msg EXCEPT ![running] =
                          [sender |-> PROC_INTERRUPT, receiver |-> running,
                           body |-> IF excAvail THEN excData ELSE 0]]
             /\ status' = [status EXCEPT ![running] = @ \ {"GOTEXC"}]
    <3>1. Senders' = Senders /\ Receivers' = Receivers
      BY <1>1, <2>2 DEF Senders, Receivers, Sending, Receiving
    <3>2. (IF excAvail THEN excData ELSE 0) \in Irq \cup Proc
      BY ProcNumbers DEF TypeOK
    <3>3. QED
      BY <1>4, <2>2, <3>1, <3>2
  <2>3. QED
    BY <1>6, <2>1, <2>2 DEF RecvGotExc
<1>7. CASE RecvQueued(from)
  <2>1. PICK k \in Candidates(from) :
          /\ msg' = [msg EXCEPT ![running] = msg[queue[running][k]]]
          /\ status' = [status EXCEPT ![queue[running][k]] = @ \ {"SENDING"}]
    BY <1>7 DEF RecvQueued
  <2> DEFINE s == queue[running][k]
  <2>2. k \in DOMAIN queue[running] /\ from \in {PROC_ANY, s}
    BY DEF Candidates
  <2>3. s \in Proc /\ Sending(s) /\ msg[s].receiver = running
    BY <1>1, <2>2, LenProperties, ElementOfSeq DEF TypeOK, QueueInv
  <2> HIDE DEF s
  <2>4. Senders' = Senders \ {s} /\ Receivers' = Receivers
    BY <1>1, <2>1, <2>3 DEF Senders, Receivers, Sending, Receiving, s
  <2>5. Abstract!Take(running, s, from)
    BY <1>1, <2>1, <2>2, <2>3, <2>4, AbstractTake DEF Senders, s
  <2>6. QED
    BY <2>2, <2>3, <2>5
<1>8. CASE RecvBlock(from)
  <2>1. /\ msg' = [msg EXCEPT ![running] = [sender |-> from, receiver |-> running, body |-> 0]]
        /\ status' = [status EXCEPT ![running] = @ \cup {"RECEIVING"}]
        /\ Candidates(from) = {}
    BY <1>8 DEF RecvBlock
  <2>2. Receivers' = Receivers \cup {running} /\ Senders' = Senders
    BY <1>1, <2>1 DEF Senders, Receivers, Sending, Receiving
  <2>3. ASSUME NEW s \in Senders, msg[s].receiver = running, from \in {PROC_ANY, s}
        PROVE  FALSE
    <3>1. PICK k \in DOMAIN queue[running] : queue[running][k] = s
      BY <1>1, <2>3 DEF QueueInv, Senders
    <3>2. Len(queue[running]) \in Nat /\ DOMAIN queue[running] = 1 .. Len(queue[running])
      BY <1>1, LenProperties DEF TypeOK
    <3>3. CASE from = PROC_ANY
      <4>1. 1 \in DOMAIN queue[running]
        BY <3>1, <3>2
      <4>2. QED
        BY <2>1, <3>3, <4>1 DEF Candidates
    <3>4. CASE from = s /\ from # PROC_ANY
      BY <2>1, <2>3, <3>1, <3>4 DEF Candidates, Senders
    <3>5. QED
      BY <2>3, <3>3, <3>4
  <2>4. \A s \in Senders : ~(msg[s].receiver = running /\ from \in {PROC_ANY, s})
    BY <2>3
  <2>5. QED
    BY <1>1, <2>1, <2>2, <2>4, AbstractWait
<1>9. QED
  BY <1>2, <1>3, <1>5, <1>6, <1>7, <1>8 DEF Recv

\* Notify is a Signal when its receiver waits for interrupts.
LEMMA NotifyRefines ==
  ASSUME RefinementInv, NEW h \in Proc, NEW n, Notify(h, n),
         h \in Receivers, msg[h].sender \in {PROC_ANY, PROC_INTERRUPT},
         Receivers' = Receivers \ {h}, Senders' = Senders
  PROVE  Abstract!Signal(h, n)
<1>1. /\ msg \in [Proc -> Message] /\ msg[h].receiver = h /\ h \notin Senders
  BY DEF RefinementInv, KernelInv, TypeOK, WaitingBuffer, NoMissedRendezvous, Senders, Receivers
<1>2. PICK a \in Source, c \in Nat \cup Payload :
        msg[h] = [sender |-> a, receiver |-> h, body |-> c]
  BY <1>1 DEF Message
<1>3. [msg[h] EXCEPT !.sender = PROC_INTERRUPT, !.body = n]
        = [sender |-> PROC_INTERRUPT, receiver |-> h, body |-> n]
  <2> DEFINE m1 == [msg[h] EXCEPT !.sender = PROC_INTERRUPT]
             m2 == [m1 EXCEPT !.body = n]
  <2>1. m1 = [sender |-> PROC_INTERRUPT, receiver |-> h, body |-> c]
    BY <1>2
  <2> HIDE DEF m1
  <2>2. m2 = [sender |-> PROC_INTERRUPT, receiver |-> h, body |-> n]
    BY <2>1
  <2> HIDE DEF m2
  <2>3. [msg[h] EXCEPT !.sender = PROC_INTERRUPT, !.body = n] = m2
    BY DEF m1, m2
  <2>4. QED
    BY <2>2, <2>3
<1>4. [msg[h] EXCEPT !.sender = PROC_INTERRUPT, !.receiver = h, !.body = n]
        = [sender |-> PROC_INTERRUPT, receiver |-> h, body |-> n]
  <2>1. msg[h] \in Message
    BY <1>1
  <2>2. QED
    BY ONLY <2>1, WholeMessage
<1>5. msg' = [msg EXCEPT ![h] = [msg[h] EXCEPT !.sender = PROC_INTERRUPT,
                                               !.receiver = h, !.body = n]]
  BY <1>3, <1>4 DEF Notify
<1>6. QED
  BY <1>1, <1>5, AbstractSignal

\* A device interrupt is a Signal to a waiting subscriber, else invisible.
LEMMA HwInterruptRefines ==
  ASSUME RefinementInv, NEW i \in Irq, HwInterrupt(i)
  PROVE  Abstract!Signal(Subscriber[i], i) \/ UNCHANGED Visible
<1> DEFINE h == Subscriber[i]
<1>1. /\ status \in [Proc -> SUBSET Flag] /\ h \in Proc
  BY IPCAssumption DEF IPCAssumption, RefinementInv, KernelInv, TypeOK
<1>2. CASE /\ WaitsForInterrupt(status, h) /\ Notify(h, i)
           /\ status' = [status EXCEPT ![h] = @ \ {"RECEIVING"}]
  <2> HIDE DEF h
  <2>1. /\ h \in Receivers /\ msg[h].sender \in {PROC_ANY, PROC_INTERRUPT}
        /\ Receivers' = Receivers \ {h} /\ Senders' = Senders
    BY <1>1, <1>2 DEF WaitsForInterrupt, Receivers, Senders, Receiving, Sending
  <2>2. QED
    BY <1>1, <1>2, <2>1, NotifyRefines DEF h
<1>3. CASE msg' = msg /\ status' = [status EXCEPT ![h] = @ \cup {"GOTINT"}]
  <2> HIDE DEF h
  <2>1. Receivers' = Receivers /\ Senders' = Senders
    BY <1>1, <1>3 DEF Receivers, Senders, Receiving, Sending
  <2>2. QED
    BY <1>3, <2>1 DEF Visible
<1>4. QED
  BY <1>2, <1>3 DEF HwInterrupt

\* So is a page fault: the flags it clears are not those of a blocked process.
LEMMA PageFaultRefines ==
  ASSUME RefinementInv, PageFault
  PROVE  Abstract!Signal(ExcHandler, running) \/ UNCHANGED Visible
<1> DEFINE cleared == [status EXCEPT ![running] = {}]
           h       == ExcHandler
<1>1. /\ running \in Proc /\ running \notin Senders \cup Receivers
      /\ status \in [Proc -> SUBSET Flag] /\ h \in Proc
  BY CallerFree, IPCAssumption DEF IPCAssumption, RefinementInv, PageFault
<1>2. /\ cleared \in [Proc -> SUBSET Flag]
      /\ \A p \in Proc : /\ "SENDING" \in cleared[p] <=> p \in Senders
                         /\ "RECEIVING" \in cleared[p] <=> p \in Receivers
  BY <1>1 DEF Senders, Receivers, Sending, Receiving
<1>3. CASE UNCHANGED <<status, msg>>
  BY <1>3 DEF Visible, Senders, Receivers, Sending, Receiving
<1>4. CASE /\ WaitsForInterrupt(cleared, h) /\ Notify(h, running)
           /\ status' = [cleared EXCEPT ![h] = @ \ {"RECEIVING"}]
  <2> HIDE DEF h, cleared
  <2>1. /\ h \in Receivers /\ msg[h].sender \in {PROC_ANY, PROC_INTERRUPT}
        /\ Receivers' = Receivers \ {h} /\ Senders' = Senders
    BY <1>1, <1>2, <1>4 DEF WaitsForInterrupt, Receivers, Senders, Receiving, Sending
  <2>2. QED
    BY <1>1, <1>4, <2>1, NotifyRefines DEF h
<1>5. CASE msg' = msg /\ status' = [cleared EXCEPT ![h] = @ \cup {"GOTEXC"}]
  <2> HIDE DEF h, cleared
  <2>1. Receivers' = Receivers /\ Senders' = Senders
    BY <1>1, <1>2, <1>5 DEF Receivers, Senders, Receiving, Sending
  <2>2. QED
    BY <1>5, <2>1 DEF Visible
<1>6. QED
  BY <1>3, <1>4, <1>5 DEF PageFault

\* Every step of the kernel is a step of the rendezvous or invisible.
LEMMA StepRefines ==
  ASSUME RefinementInv, [Next]_vars
  PROVE  [Abstract!Next]_Visible
<1> USE DEF RefinementInv
<1>1. CASE \E r \in Proc, d \in Payload : Send(r, d)
  <2>1. PICK r \in Proc, d \in Payload : Send(r, d)
    BY <1>1
  <2>2. running \in Proc
    BY <2>1, CallerFree DEF Send
  <2>3. QED
    BY <2>1, <2>2, SendRefines DEF Abstract!Next
<1>2. CASE \E from \in Source : Recv(from)
  <2>1. PICK from \in Source : Recv(from)
    BY <1>2
  <2>2. running \in Proc
    BY <2>1, CallerFree DEF Recv
  <2>3. from \in Proc \cup {PROC_ANY, PROC_INTERRUPT}
    BY DEF Source
  <2>4. QED
    BY <2>1, <2>2, <2>3, RecvRefines DEF Abstract!Next
<1>3. CASE Timer \/ IdleStep \/ UNCHANGED vars
  BY <1>3 DEF Timer, IdleStep, vars, Visible, Senders, Receivers, Sending, Receiving
<1>4. CASE \E i \in Irq : HwInterrupt(i)
  <2>1. PICK i \in Irq : HwInterrupt(i)
    BY <1>4
  <2>2. Subscriber[i] \in Proc
    BY IPCAssumption DEF IPCAssumption
  <2>3. QED
    BY <2>1, <2>2, HwInterruptRefines DEF Abstract!Next
<1>5. CASE PageFault
  <2>1. running \in Proc /\ ExcHandler \in Proc
    BY <1>5, CallerFree, IPCAssumption DEF IPCAssumption, PageFault
  <2>2. QED
    BY <1>5, <2>1, PageFaultRefines DEF Abstract!Next
<1>6. QED
  BY <1>1, <1>2, <1>3, <1>4, <1>5 DEF Next

\* A step after which nobody new is receiving, and the receivers keep that field.
LEMMA WaitingFrame ==
  ASSUME WaitingBuffer,
         \A p \in Proc : Receiving(p)' => Receiving(p) /\ msg'[p].receiver = msg[p].receiver
  PROVE  WaitingBuffer'
BY DEF WaitingBuffer

\* The only step that makes a receiver writes its own number into its buffer.
LEMMA WaitingBufferKept ==
  ASSUME RefinementInv, [Next]_vars
  PROVE  WaitingBuffer'
<1> USE DEF Receiving
<1>1. /\ WaitingBuffer /\ KernelInv
      /\ msg \in [Proc -> Message] /\ status \in [Proc -> SUBSET Flag]
  BY DEF RefinementInv, KernelInv, TypeOK
<1>2. mode = "user" => running \in Proc /\ ~Receiving(running)
  BY <1>1, CallerFree DEF Receivers
<1>3. CASE \E r \in Proc, d \in Payload : Send(r, d)
  <2>1. PICK r \in Proc, d \in Payload : Send(r, d)
    BY <1>3
  <2> DEFINE m == [sender |-> running, receiver |-> r, body |-> d]
  <2>2. running \in Proc /\ ~Receiving(running)
    BY <1>2, <2>1 DEF Send
  <2> HIDE DEF m
  <2>3. CASE Deliver(r, m)
    BY <1>1, <2>2, <2>3, WaitingFrame DEF Deliver
  <2>4. CASE Enqueue(r, m)
    BY <1>1, <2>2, <2>4, WaitingFrame DEF Enqueue
  <2>5. CASE UNCHANGED <<status, msg>>
    BY <1>1, <2>5, WaitingFrame
  <2>6. QED
    BY <2>1, <2>3, <2>4, <2>5 DEF Send, Halt, m
<1>4. CASE \E from \in Source : Recv(from)
  <2>1. PICK from \in Source : Recv(from)
    BY <1>4
  <2>2. running \in Proc /\ ~Receiving(running)
    BY <1>2, <2>1 DEF Recv
  <2>3. CASE Halt
    BY <1>1, <2>3, WaitingFrame DEF Halt
  <2>4. CASE RecvReflect(from)
    BY <1>1, <2>2, <2>4, WaitingFrame DEF RecvReflect
  <2>5. CASE RecvGotInt(from)
    BY <1>1, <2>2, <2>5, WaitingFrame DEF RecvGotInt
  <2>6. CASE RecvGotExc(from)
    BY <1>1, <2>2, <2>6, WaitingFrame DEF RecvGotExc
  <2>7. CASE RecvQueued(from)
    BY <1>1, <2>2, <2>7, WaitingFrame DEF RecvQueued
  <2>8. CASE RecvBlock(from)
    BY <1>1, <2>2, <2>8 DEF RecvBlock, WaitingBuffer
  <2>9. QED
    BY <2>1, <2>3, <2>4, <2>5, <2>6, <2>7, <2>8 DEF Recv
<1>5. CASE Timer \/ IdleStep \/ UNCHANGED vars
  BY <1>1, <1>5, WaitingFrame DEF Timer, IdleStep, vars
<1>6. CASE \E i \in Irq : HwInterrupt(i)
  <2>1. PICK i \in Irq : HwInterrupt(i)
    BY <1>6
  <2>2. Subscriber[i] \in Proc
    BY IPCAssumption DEF IPCAssumption
  <2>3. \A p \in Proc : msg'[p].receiver = msg[p].receiver
    BY <1>1, <2>1, <2>2, NotifyProperties DEF HwInterrupt
  <2>4. \A p \in Proc : Receiving(p)' => Receiving(p)
    BY <1>1, <2>1, <2>2 DEF HwInterrupt
  <2>5. QED
    BY <1>1, <2>3, <2>4, WaitingFrame
<1>7. CASE PageFault
  <2>1. running \in Proc /\ ExcHandler \in Proc
    BY <1>2, <1>7, IPCAssumption DEF IPCAssumption, PageFault
  <2>2. \A p \in Proc : msg'[p].receiver = msg[p].receiver
    BY <1>1, <1>7, <2>1, NotifyProperties DEF PageFault
  <2>3. \A p \in Proc : Receiving(p)' => Receiving(p)
    BY <1>1, <1>7, <2>1 DEF PageFault
  <2>4. QED
    BY <1>1, <2>2, <2>3, WaitingFrame
<1>8. QED
  BY <1>3, <1>4, <1>5, <1>6, <1>7 DEF Next

\* A process that waits in recv_msg has its own number in its buffer, so that
\* msg_interrupt need not write it.
THEOREM WaitersOwnTheirBuffer == Spec => []WaitingBuffer
<1>1. Init => WaitingBuffer
  BY DEF Init, WaitingBuffer, Receiving
<1>2. KernelInv /\ WaitingBuffer /\ [Next]_vars => WaitingBuffer'
  BY WaitingBufferKept DEF RefinementInv
<1>3. QED
  BY <1>1, <1>2, KernelCorrect, PTL DEF Spec

\* The kernel is a rendezvous: whatever programs can see of a run of send_msg,
\* recv_msg, interrupts and page faults is a run of Rendezvous.
THEOREM KernelIsRendezvous == Spec => ImplementsRendezvous
<1>1. Init => Abstract!Init
  BY DEF Init, Abstract!Init, Sending, Receiving
<1>2. Visible = Abstract!vars
  BY DEF Visible, Abstract!vars, Senders, Receivers
<1>3. KernelInv /\ WaitingBuffer /\ [Next]_vars => [Abstract!Next]_(Abstract!vars)
  BY <1>2, StepRefines DEF RefinementInv, Abstract!vars, Visible, Senders, Receivers
<1>4. QED
  BY <1>1, <1>3, KernelCorrect, WaitersOwnTheirBuffer, PTL
  DEF Spec, ImplementsRendezvous, Abstract!Spec
=============================================================================
