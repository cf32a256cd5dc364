-------------------------- MODULE ProcLife_proofs --------------------------
(***************************************************************************)
(* fork, exit and wait keep their books, for every number of process slots *)
(* and every order in which programs, TaskMM and SysTask go on.  Proved:   *)
(*                                                                         *)
(*   LifeCorrect         the invariant LifeInv;                            *)
(*   ExitIsFinal         exit() does not return;                           *)
(*   WakeupsNotLost      wait() and exit() do not miss each other;         *)
(*   OnlyExitedAreFreed  SysTask clears the slot of exited processes only; *)
(*   TaskMMNotStuck, StoppedForAReason  where programs get to recv_msg     *)
(*                       before TaskMM handles their request (Prompt).     *)
(*                                                                         *)
(* None of these is inductive.  That exit() does not return rests on what  *)
(* the flags mean: a process that has asked to exit and is not waiting is  *)
(* STOP and HANGING, and a process with flags is never in the middle of    *)
(* anything else.  That in turn rests on where everybody is: a request is  *)
(* in the hands of TaskMM or offered to it (Programs), a fork in progress  *)
(* has stopped two processes and owes each an answer (ForkInProgress),     *)
(* TaskMM sends only to who was told it would be (TaskMMRight), and        *)
(* SysTask, which unlinks a process while TaskMM walks the list, is always *)
(* behind TaskMM in it (ReapingRight).                                     *)
(***************************************************************************)
EXTENDS ProcLife, ListLemmas, TLAPS

(* The invariant *)

\* The shape of the state; no process is in the list twice.
Shape ==
  /\ list \in Seq(Slot) /\ IsInjective(list) /\ Root \in Live
  /\ DOMAIN parent = Pid /\ DOMAIN flags = Pid /\ DOMAIN pc = Proc /\ DOMAIN call = Slot
  /\ DOMAIN msg = Proc /\ sending \subseteq Proc /\ waiting \subseteq Proc
  /\ \A p \in Pid : parent[p] \in Pid
  /\ subject \in Pid /\ child \in Pid /\ reaping \in Pid
  /\ after \in {"recv", "adopt", "next"}

\* A slot that is not in the list is empty.
EmptySlots ==
  /\ flags[0] = {}
  /\ \A p \in Slot \ Live : flags[p] = {} /\ pc[p] = "free" /\ p \notin sending \cup waiting

\* p has called, its request has been taken, and it has no answer.
Owed(p) == p \in Live /\ p \notin sending /\ (pc[p] = "sent" \/ (pc[p] = "ret" /\ p \in waiting))

\* Where a user process can be and what it can be blocked for.
Programs ==
  \A p \in Live :
    /\ pc[p] \in {"run", "sent", "ret"}
    /\ call[p] \in {MEM_FORK_PROC, MEM_EXIT_PROC, MEM_WAIT_PROC}
    /\ p \in sending => /\ pc[p] = "sent" /\ flags[p] = {}
                        /\ msg[p].sender = p /\ msg[p].receiver = MM /\ msg[p].body = call[p]
    /\ p \in waiting => pc[p] = "ret" /\ msg[p].sender = MM /\ msg[p].body = Nothing /\ p \notin sending
    /\ pc[p] = "run" => flags[p] = {}

\* The processes that a fork in progress has stopped.
Forked == CASE pc[MM] = "forkFailed" -> {subject}
            [] pc[MM] \in {"forkParent", "forkChild", "forkDone"} -> {subject, child}
            [] OTHER -> {}

\* What each flag says of the process.
FlagsRight ==
  \A p \in Live :
    /\ flags[p] \in {{}, {"WATING"}, {"STOP"}, Ended}
    /\ flags[p] = {"WATING"} => Owed(p) /\ call[p] = MEM_WAIT_PROC
    /\ flags[p] = {"STOP"} => /\ call[p] = MEM_FORK_PROC /\ p \notin sending
                              /\ p \in Forked \/ (Prompt => ForkFailed(p))
    /\ flags[p] = Ended => p # Root /\ call[p] = MEM_EXIT_PROC /\ p \notin sending \cup waiting
    /\ call[p] = MEM_EXIT_PROC /\ pc[p] = "ret" /\ p \notin waiting => flags[p] = Ended
    /\ ForkFailed(p) => flags[p] = {"STOP"}
    /\ p = Root => call[p] # MEM_EXIT_PROC

\* p waits to be told of its child.
Told(p) == Owed(p) /\ flags[p] = {} /\ call[p] = MEM_WAIT_PROC

Hanging(p) == p \in Live /\ flags[p] = Ended

\* A fork in progress: the two sides are stopped, called both, and wait for what
\* TaskMM answers next.
Stopped(p) == p \in Live /\ flags[p] = {"STOP"} /\ call[p] = MEM_FORK_PROC /\ p \notin sending
Answered(p) == Stopped(p) /\ pc[p] = "ret" /\ p \notin waiting /\ msg[p].body # Failure

ForkInProgress ==
  /\ pc[MM] \in {"forkFailed", "forkParent", "forkChild", "forkDone"} => reaping = 0 /\ Stopped(subject)
  /\ pc[MM] \in {"forkFailed", "forkParent"} => Owed(subject) /\ (Prompt => subject \in waiting)
  /\ pc[MM] \in {"forkParent", "forkChild", "forkDone"} => Stopped(child) /\ subject # child
  /\ pc[MM] = "forkParent" => Owed(child) /\ (subject \in waiting <=> child \in waiting)
  /\ pc[MM] = "forkChild" /\ MM \notin sending => Answered(subject) /\ child \in waiting
  /\ pc[MM] = "forkDone" /\ MM \notin sending => Answered(subject) /\ Answered(child)

\* What TaskMM is blocked for, and what it holds.
TaskMMRight ==
  /\ pc[MM] \in {"recv", "handle", "forkFailed", "forkParent", "forkChild", "forkDone",
                 "report", "exitProc", "adopt", "walk", "next", "none"}
  /\ MM \in waiting => pc[MM] = "handle" /\ msg[MM].sender = Anybody /\ MM \notin sending
  /\ pc[MM] = "handle" /\ MM \notin waiting =>
       LET p == Sender IN Owed(p) /\ flags[p] = {} /\ msg[MM].body = call[p] /\ MM \notin sending
  /\ MM \in sending =>
       LET p == msg[MM].receiver IN
       \/ pc[MM] \in {"recv", "exitProc"} /\ Told(p) /\ pc[p] = "sent"
       \/ ~Prompt /\ pc[MM] \in {"recv", "forkChild", "forkDone"} /\ Stopped(p) /\ pc[p] = "sent"
  /\ pc[MM] = "none" => Told(subject)
  /\ pc[MM] = "report" => Told(parent[child])
  /\ pc[MM] \in {"report", "exitProc"} => Hanging(child)

\* SysTask removes only who has exited; TaskMM walks away from it in the list.
ReapingRight ==
  /\ reaping # 0 => Hanging(reaping)
  /\ pc[MM] \in {"walk", "report", "exitProc"} =>
       \E j \in DOMAIN list : list[j] = child /\ \A i \in DOMAIN list : list[i] = reaping => i < j
  /\ pc[MM] = "next" => \A i, j \in DOMAIN list : list[i] = reaping /\ list[j] = child => i <= j

\* Nobody waits who has a child that hangs, except the one that is being reported.
Reporting(c) == pc[MM] = "report" /\ child = c
WakeupsKept ==
  \A p, c \in Live : Waits(p) /\ Hanging(c) /\ ~Reported(c) /\ ~Reporting(c) => parent[c] # p

LifeInv ==
  /\ Shape
  /\ EmptySlots
  /\ Programs
  /\ FlagsRight
  /\ ForkInProgress
  /\ TaskMMRight
  /\ ReapingRight
  /\ WakeupsKept

(* Numbers and lists *)

\* The processes and the codes differ.
LEMMA Apart ==
  /\ Slot \subseteq Nat /\ 0 \notin Slot /\ Pid = Slot \cup {0}
  /\ MM \notin Slot /\ Proc = Slot \cup {MM} /\ Root \in Slot /\ Root # 0
  /\ Anybody \notin Proc /\ Nothing # Failure /\ Failure \notin Pid
  /\ MEM_FORK_PROC # MEM_EXIT_PROC /\ MEM_FORK_PROC # MEM_WAIT_PROC /\ MEM_EXIT_PROC # MEM_WAIT_PROC
  /\ Prompt \in BOOLEAN
BY LifeAssumption
   DEF LifeAssumption, Pid, Root, Failure, MEM_FORK_PROC, MEM_EXIT_PROC, MEM_WAIT_PROC

\* The flags of a process are one of four sets.
LEMMA FlagSets ==
  /\ {"WATING"} # {} /\ {"STOP"} # {} /\ Ended # {} /\ {"WATING"} # {"STOP"}
  /\ Ended # {"WATING"} /\ Ended # {"STOP"}
  /\ "STOP" \in Ended /\ "HANGING" \in Ended /\ "WATING" \notin Ended
BY DEF Ended

\* Live is what the list holds.
LEMMA LiveMembers ==
  ASSUME Shape
  PROVE  /\ Live \subseteq Slot
         /\ \A i \in DOMAIN list : list[i] \in Live
         /\ \A p \in Live : \E i \in DOMAIN list : list[i] = p
         /\ Len(list) \in Nat /\ DOMAIN list = 1 .. Len(list) /\ Len(list) > 0
<1>1. list \in Seq(Slot) /\ Root \in Live
  BY DEF Shape
<1>2. Len(list) \in Nat /\ DOMAIN list = 1 .. Len(list)
  BY <1>1, LenProperties
<1>3. \A i \in DOMAIN list : list[i] \in Slot
  BY <1>1, <1>2, ElementOfSeq
<1>4. QED
  BY <1>1, <1>2, <1>3 DEF Live, ToSet

\* A request goes to TaskMM, or into its hands.
LEMMA RequestKeeps ==
  ASSUME LifeInv, NEW u \in Slot, NEW op \in {MEM_FORK_PROC, MEM_EXIT_PROC, MEM_WAIT_PROC}, Request(u, op)
  PROVE  LifeInv'
<1> USE Apart, FlagSets
<1>1. u \in Live /\ pc[u] = "run" /\ u \notin sending \cup waiting /\ flags[u] = {} /\ Live \subseteq Slot /\ (op = MEM_EXIT_PROC => u # Root)
  BY LiveMembers DEF LifeInv, Request, Runs, Free, Programs
<1>2. list' = list /\ Live' = Live /\ UNCHANGED <<parent, flags, subject, child, after, reaping>>
  BY DEF Request, Live, mvars
<1>3. /\ \A q \in Proc : IF q = u \/ (q = MM /\ MM \in waiting)
                        THEN msg'[q].sender = u /\ msg'[q].receiver = MM /\ msg'[q].body = op
                        ELSE msg'[q] = msg[q]
      /\ DOMAIN msg' = Proc /\ DOMAIN call' = Slot /\ DOMAIN pc' = Proc
      /\ \A q \in Proc : pc'[q] = IF q = u THEN "sent" ELSE pc[q]
      /\ pc'[MM] = pc[MM]
      /\ \A q \in Slot : call'[q] = IF q = u THEN op ELSE call[q]
      /\ \/ MM \in waiting /\ waiting' = waiting \ {MM} /\ sending' = sending
         \/ MM \notin waiting /\ waiting' = waiting /\ sending' = sending \cup {u}
  BY <1>1 DEF Request, Send, Accepts, Goto, LifeInv, Shape, TaskMMRight
<1>4. Shape'
  BY <1>1, <1>2, <1>3, ZenonT(40)
     DEF LifeInv, Shape
<1>5. EmptySlots'
  BY <1>1, <1>2, <1>3
     DEF LifeInv, EmptySlots
<1>6. Programs'
  BY <1>1, <1>2, <1>3
     DEF LifeInv, Programs
<1>7. FlagsRight'
  BY <1>1, <1>2, <1>3
     DEF LifeInv, FlagsRight, Programs, Forked, ForkFailed, Owed
<1>8. ForkInProgress'
  BY <1>1, <1>2, <1>3
     DEF LifeInv, ForkInProgress, Stopped, Answered, Owed
<1>9. TaskMMRight'
  <2>1. \A p \in Pid : Told(p) => Told(p)' /\ pc'[p] = pc[p]
    BY <1>1, <1>2, <1>3 DEF Told, Owed
  <2>2. \A p \in Pid : Stopped(p) => Stopped(p)' /\ pc'[p] = pc[p]
    BY <1>1, <1>2, <1>3 DEF Stopped
  <2>3. CASE MM \in waiting
    BY <1>1, <1>2, <1>3, <2>3 DEF LifeInv, TaskMMRight, Sender, Owed
  <2>4. CASE MM \notin waiting
    <3>0. pc[MM] = "handle" => Owed(msg[MM].sender) /\ flags[msg[MM].sender] = {}
                               /\ msg[MM].body = call[msg[MM].sender] /\ MM \notin sending
      BY <2>4 DEF LifeInv, TaskMMRight, Sender
    <3>1. \A p \in Live : Owed(p) => p # u /\ Owed(p)'
      BY <1>1, <1>2, <1>3, <2>4 DEF Owed
    <3>5. msg'[MM] = msg[MM] /\ (MM \in sending' <=> MM \in sending) /\ waiting' = waiting
      BY <1>1, <1>2, <1>3, <2>4
    <3>6. pc[MM] = "handle" => Owed(msg[MM].sender)' /\ msg[MM].sender \in Live /\ msg[MM].sender # u
      BY <3>0, <3>1, <3>5 DEF Owed
    <3>2. MM \in sending => msg[MM].receiver \in Pid
      BY <1>1, <1>2, <1>3, <2>4 DEF LifeInv, TaskMMRight, Told, Stopped, Owed
    <3>3. child \in Pid /\ parent[child] \in Pid /\ subject \in Pid
      BY DEF LifeInv, Shape
    <3>7. pc[MM] = "handle" => /\ flags'[msg[MM].sender] = {} /\ msg'[MM].body = call'[msg[MM].sender]
                               /\ MM \notin sending'
      BY <1>1, <1>2, <1>3, <2>4, <3>0, <3>5, <3>6
    <3>8. MM \in sending =>
            \/ /\ pc[MM] \in {"recv", "exitProc"} /\ Told(msg[MM].receiver)' /\ pc'[msg[MM].receiver] = "sent"
            \/ /\ ~Prompt /\ pc[MM] \in {"recv", "forkChild", "forkDone"}
               /\ Stopped(msg[MM].receiver)' /\ pc'[msg[MM].receiver] = "sent"
      BY <2>1, <2>2, <3>2, <3>5, ZenonT(40) DEF LifeInv, TaskMMRight, Told, Owed, Stopped
    <3>9. /\ pc[MM] = "none" => Told(subject)'
          /\ pc[MM] = "report" => Told(parent[child])'
          /\ pc[MM] \in {"report", "exitProc"} => Hanging(child)'
      BY <1>1, <1>2, <1>3, <2>1, <3>3 DEF LifeInv, TaskMMRight, Hanging
    <3>10. UNCHANGED <<subject, child, parent>> /\ pc'[MM] = pc[MM]
      BY <1>1, <1>2, <1>3
    <3>4. QED
      BY <2>4, <3>5, <3>6, <3>7, <3>8, <3>9, <3>10 DEF LifeInv, TaskMMRight, Sender
  <2>5. QED
    BY <2>3, <2>4
<1>10. ReapingRight'
  BY <1>1, <1>2, <1>3
     DEF LifeInv, ReapingRight, Hanging
<1>11. WakeupsKept'
  BY <1>1, <1>2, <1>3
     DEF LifeInv, WakeupsKept, Hanging, Reported, Reporting, Waits
<1>12. QED
  BY <1>4, <1>5, <1>6, <1>7, <1>8, <1>9, <1>10, <1>11 DEF LifeInv

\* A program that takes its answer, or waits for it.
LEMMA AwaitAnswerKeeps ==
  ASSUME LifeInv, NEW u \in Slot, AwaitAnswer(u)
  PROVE  LifeInv'
<1> USE Apart, FlagSets
<1>1. u \in Live /\ pc[u] = "sent" /\ u \notin sending \cup waiting /\ "STOP" \notin flags[u] /\ Live \subseteq Slot
  BY LiveMembers DEF LifeInv, AwaitAnswer, Runs, Free
<1>2. list' = list /\ Live' = Live /\ UNCHANGED <<parent, flags, subject, child, after, reaping, call>>
  BY DEF AwaitAnswer, Live, mvars
<1>3. /\ DOMAIN msg' = Proc /\ DOMAIN pc' = Proc
      /\ \A q \in Proc : pc'[q] = IF q = u THEN "ret" ELSE pc[q]
      /\ pc'[MM] = pc[MM]
      /\ \A q \in Proc \ {u} : msg'[q] = msg[q]
      /\ \/ /\ MM \in sending /\ msg[MM].receiver = u
            /\ msg'[u] = msg[MM] /\ sending' = sending \ {MM} /\ waiting' = waiting
         \/ /\ ~(MM \in sending /\ msg[MM].receiver = u) /\ msg'[u].sender = MM /\ msg'[u].body = Nothing
            /\ waiting' = waiting \cup {u} /\ sending' = sending
  BY <1>1 DEF AwaitAnswer, Take, Wait, Offers, Goto, LifeInv, Shape
<1>4. Shape'
  BY <1>1, <1>2, <1>3
     DEF LifeInv, Shape
<1>5. EmptySlots'
  BY <1>1, <1>2, <1>3
     DEF LifeInv, EmptySlots
<1>6. Programs'
  BY <1>1, <1>2, <1>3
     DEF LifeInv, Programs
<1>7. FlagsRight'
  BY <1>1, <1>2, <1>3
     DEF LifeInv, FlagsRight, Programs, Forked, ForkFailed, Owed, TaskMMRight, Told, Stopped
<1>8. ForkInProgress'
  BY <1>1, <1>2, <1>3
     DEF LifeInv, ForkInProgress, Stopped, Answered, Owed, TaskMMRight, Told
<1>9. TaskMMRight'
  BY <1>1, <1>2, <1>3, ZenonT(40)
     DEF LifeInv, TaskMMRight, Sender, Told, Stopped, Owed, Hanging
<1>10. ReapingRight'
  BY <1>1, <1>2, <1>3
     DEF LifeInv, ReapingRight, Hanging
<1>11. WakeupsKept'
  BY <1>1, <1>2, <1>3
     DEF LifeInv, WakeupsKept, Hanging, Reported, Reporting, Waits
<1>12. QED
  BY <1>4, <1>5, <1>6, <1>7, <1>8, <1>9, <1>10, <1>11 DEF LifeInv

\* The call returns.
LEMMA ReturnKeeps ==
  ASSUME LifeInv, NEW u \in Slot, Return(u)
  PROVE  LifeInv'
<1> USE Apart, FlagSets
<1>1. u \in Live /\ pc[u] = "ret" /\ u \notin sending \cup waiting /\ "STOP" \notin flags[u] /\ Live \subseteq Slot
  BY LiveMembers DEF LifeInv, Return, Runs, Free
<1>2. list' = list /\ Live' = Live /\ UNCHANGED <<parent, flags, subject, child, after, reaping, call, msg, sending, waiting>>
  BY DEF Return, Live, mvars, vars
<1>3. DOMAIN pc' = Proc /\ \A q \in Proc : pc'[q] = IF q = u THEN "run" ELSE pc[q]
  BY <1>1 DEF Return, Goto, LifeInv, Shape
<1>4. Shape'
  BY <1>1, <1>2, <1>3
     DEF LifeInv, Shape
<1>5. EmptySlots'
  BY <1>1, <1>2, <1>3
     DEF LifeInv, EmptySlots
<1>6. Programs'
  BY <1>1, <1>2, <1>3
     DEF LifeInv, Programs, FlagsRight, Owed
<1>7. FlagsRight'
  BY <1>1, <1>2, <1>3
     DEF LifeInv, FlagsRight, Programs, Forked, ForkFailed, Owed
<1>8. ForkInProgress'
  BY <1>1, <1>2, <1>3
     DEF LifeInv, ForkInProgress, Stopped, Answered, Owed
<1>9. TaskMMRight'
  BY <1>1, <1>2, <1>3
     DEF LifeInv, TaskMMRight, Sender, Told, Stopped, Owed, Hanging
<1>10. ReapingRight'
  BY <1>1, <1>2, <1>3
     DEF LifeInv, ReapingRight, Hanging
<1>11. WakeupsKept'
  BY <1>1, <1>2, <1>3
     DEF LifeInv, WakeupsKept, Hanging, Reported, Reporting, Waits
<1>12. QED
  BY <1>4, <1>5, <1>6, <1>7, <1>8, <1>9, <1>10, <1>11 DEF LifeInv

\* TaskMM takes the request of a sender.
LEMMA MMTakeKeeps ==
  ASSUME LifeInv, NEW u \in Slot, MMTake(u)
  PROVE  LifeInv'
<1> USE Apart, FlagSets
<1>1. /\ pc[MM] = "recv" /\ MM \notin sending \cup waiting /\ Live \subseteq Slot
      /\ u \in sending /\ u \in Live
  BY LiveMembers DEF LifeInv, MMTake, Receiving, Handles, Free, Take, Offers, EmptySlots
<1>2. list' = list /\ Live' = Live /\ UNCHANGED <<parent, flags, subject, child, after, reaping, call>>
  BY DEF MMTake, Receiving, Live, mvars
<1>3. /\ DOMAIN msg' = Proc /\ DOMAIN pc' = Proc /\ pc'[MM] = "handle" /\ \A q \in Slot : pc'[q] = pc[q]
      /\ \A q \in Slot : msg'[q] = msg[q]
      /\ msg'[MM] = msg[u] /\ sending' = sending \ {u} /\ waiting' = waiting
  BY <1>1 DEF MMTake, Receiving, Take, Goto, LifeInv, Shape
<1>4. Shape'
  BY <1>1, <1>2, <1>3
     DEF LifeInv, Shape
<1>5. EmptySlots'
  BY <1>1, <1>2, <1>3
     DEF LifeInv, EmptySlots
<1>6. Programs'
  BY <1>1, <1>2, <1>3
     DEF LifeInv, Programs
<1>7. FlagsRight'
  BY <1>1, <1>2, <1>3
     DEF LifeInv, FlagsRight, Programs, Forked, ForkFailed, Owed
<1>8. ForkInProgress'
  BY <1>1, <1>2, <1>3
     DEF LifeInv, ForkInProgress, Stopped, Answered, Owed
<1>9. TaskMMRight'
  BY <1>1, <1>2, <1>3
     DEF LifeInv, TaskMMRight, Sender, Told, Stopped, Owed, Hanging, Programs
<1>10. ReapingRight'
  BY <1>1, <1>2, <1>3
     DEF LifeInv, ReapingRight, Hanging
<1>11. WakeupsKept'
  BY <1>1, <1>2, <1>3
     DEF LifeInv, WakeupsKept, Hanging, Reported, Reporting, Waits
<1>12. QED
  BY <1>4, <1>5, <1>6, <1>7, <1>8, <1>9, <1>10, <1>11 DEF LifeInv

\* TaskMM waits for a request.
LEMMA MMWaitKeeps ==
  ASSUME LifeInv, MMWait
  PROVE  LifeInv'
<1> USE Apart, FlagSets
<1>1. pc[MM] = "recv" /\ MM \notin sending \cup waiting /\ Live \subseteq Slot
  BY LiveMembers DEF LifeInv, MMWait, Receiving, Handles, Free
<1>2. list' = list /\ Live' = Live /\ UNCHANGED <<parent, flags, subject, child, after, reaping, call>>
  BY DEF MMWait, Receiving, Live, mvars
<1>3. /\ DOMAIN msg' = Proc /\ DOMAIN pc' = Proc /\ pc'[MM] = "handle" /\ \A q \in Slot : pc'[q] = pc[q]
      /\ \A q \in Slot : msg'[q] = msg[q]
      /\ msg'[MM].sender = Anybody /\ waiting' = waiting \cup {MM} /\ sending' = sending
  BY <1>1 DEF MMWait, Receiving, Wait, Goto, LifeInv, Shape
<1>4. Shape'
  BY <1>1, <1>2, <1>3
     DEF LifeInv, Shape
<1>5. EmptySlots'
  BY <1>1, <1>2, <1>3
     DEF LifeInv, EmptySlots
<1>6. Programs'
  BY <1>1, <1>2, <1>3, ZenonT(40)
     DEF LifeInv, Programs
<1>7. FlagsRight'
  BY <1>1, <1>2, <1>3
     DEF LifeInv, FlagsRight, Programs, Forked, ForkFailed, Owed
<1>8. ForkInProgress'
  BY <1>1, <1>2, <1>3
     DEF LifeInv, ForkInProgress, Stopped, Answered, Owed
<1>9. TaskMMRight'
  BY <1>1, <1>2, <1>3
     DEF LifeInv, TaskMMRight, Sender, Told, Stopped, Owed, Hanging
<1>10. ReapingRight'
  BY <1>1, <1>2, <1>3
     DEF LifeInv, ReapingRight, Hanging
<1>11. WakeupsKept'
  BY <1>1, <1>2, <1>3
     DEF LifeInv, WakeupsKept, Hanging, Reported, Reporting, Waits
<1>12. QED
  BY <1>4, <1>5, <1>6, <1>7, <1>8, <1>9, <1>10, <1>11 DEF LifeInv

\* Linking a new process at the end of the list.
LEMMA Linked ==
  ASSUME LifeInv, NEW c \in Slot, c \notin Live, list' = Append(list, c)
  PROVE  Live' = Live \cup {c} /\ list' \in Seq(Slot) /\ IsInjective(list')
BY LinkedLast DEF LifeInv, Shape, Live

\* Unlinking the process that has exited leaves the others in the list.
LEMMA Unlinked ==
  ASSUME LifeInv, SysTaskExit
  PROVE  list' \in Seq(Slot) /\ Live' = Live \ {reaping} /\ IsInjective(list')
<1>1. PICK k \in DOMAIN list : list[k] = reaping /\ list' = RemoveAt(list, k)
  BY DEF SysTaskExit
<1>2. list \in Seq(Slot) /\ IsInjective(list) /\ k \in 1 .. Len(list)
  BY LiveMembers DEF LifeInv, Shape
<1>3. /\ RemoveAt(list, k) \in Seq(Slot) /\ IsInjective(RemoveAt(list, k))
      /\ ToSet(RemoveAt(list, k)) = ToSet(list) \ {list[k]}
  BY ONLY <1>2, UnlinkedAt
<1>4. QED
  BY <1>1, <1>3 DEF Live

\* A fork that finds no slot stops the parent.
LEMMA ForkFails ==
  ASSUME LifeInv, Fork, Alloc = {}
  PROVE  LifeInv'
<1> USE Apart, FlagSets
<1>1. /\ pc[MM] = "handle" /\ MM \notin sending \cup waiting /\ Live \subseteq Slot /\ reaping = 0
      /\ Owed(Sender) /\ flags[Sender] = {} /\ call[Sender] = MEM_FORK_PROC /\ Sender \in Live
      /\ Prompt => Sender \in waiting
  BY LiveMembers DEF LifeInv, Fork, Handling, Handles, Free, TaskMMRight, Owed
<1>2. Live' = Live /\ subject' = Sender /\ UNCHANGED <<list, parent, child, after, reaping, call, msg, sending, waiting>>
  BY DEF Fork, Live
<1>3. /\ DOMAIN pc' = Proc /\ pc'[MM] = "forkFailed" /\ \A q \in Slot : pc'[q] = pc[q]
      /\ DOMAIN flags' = Pid /\ \A q \in Pid : flags'[q] = IF q = Sender THEN {"STOP"} ELSE flags[q]
  <2>1. pc' = [pc EXCEPT ![MM] = "forkFailed"]
        /\ flags' = [flags EXCEPT ![Sender] = flags[Sender] \cup {"STOP"}]
    BY DEF Fork, Goto
  <2>2. flags[Sender] \cup {"STOP"} = {"STOP"} /\ Sender \in Pid
    BY <1>1
  <2>3. QED
    BY <2>1, <2>2 DEF LifeInv, Shape
<1>4. Shape'
  BY <1>1, <1>2, <1>3
     DEF LifeInv, Shape
<1>5. EmptySlots'
  BY <1>1, <1>2, <1>3
     DEF LifeInv, EmptySlots
<1>6. Programs'
  BY <1>1, <1>2, <1>3
     DEF LifeInv, Programs, Owed
<1>7. FlagsRight'
  BY <1>1, <1>2, <1>3
     DEF LifeInv, FlagsRight, Programs, Forked, ForkFailed, Owed
<1>8. ForkInProgress'
  BY <1>1, <1>2, <1>3
     DEF LifeInv, ForkInProgress, Stopped, Answered, Owed
<1>9. TaskMMRight'
  BY <1>1, <1>2, <1>3
     DEF LifeInv, TaskMMRight, Sender, Told, Stopped, Owed, Hanging
<1>10. ReapingRight'
  BY <1>1, <1>2, <1>3
     DEF LifeInv, ReapingRight, Hanging
<1>11. WakeupsKept'
  BY <1>1, <1>2, <1>3
     DEF LifeInv, WakeupsKept, Hanging, Reported, Reporting, Waits
<1>12. QED
  BY <1>4, <1>5, <1>6, <1>7, <1>8, <1>9, <1>10, <1>11 DEF LifeInv

\* A fork that finds a slot makes a stopped copy of the stopped parent.
LEMMA ForkCopies ==
  ASSUME LifeInv, NEW c \in Alloc, NEW u, u = Sender, Fork, child' = c
  PROVE  LifeInv'
<1> USE Apart, FlagSets
<1>1. /\ pc[MM] = "handle" /\ MM \notin sending \cup waiting /\ Live \subseteq Slot /\ reaping = 0
      /\ Owed(u) /\ flags[u] = {} /\ call[u] = MEM_FORK_PROC /\ u \in Live
      /\ (Prompt => u \in waiting)
      /\ c \in Slot /\ c \notin Live /\ c # u
  BY LiveMembers
     DEF LifeInv, Fork, Handling, Handles, Free, TaskMMRight, Owed, Alloc, Sender
<1>2. /\ subject' = u /\ UNCHANGED <<sending, after, reaping>>
      /\ list' = Append(list, c)
      /\ parent' = [parent EXCEPT ![c] = u]
      /\ flags' = [flags EXCEPT ![u] = @ \cup {"STOP"}, ![c] = flags[u] \cup {"STOP"}]
      /\ waiting' = IF u \in waiting THEN waiting \cup {c} ELSE waiting
      /\ msg' = [msg EXCEPT ![c] = msg[u]]
      /\ call' = [call EXCEPT ![c] = call[u]]
      /\ pc' = [pc EXCEPT ![c] = pc[u], ![MM] = "forkParent"]
  BY DEF Fork
<1>3. /\ DOMAIN pc' = Proc /\ DOMAIN msg' = Proc /\ DOMAIN flags' = Pid /\ DOMAIN parent' = Pid /\ DOMAIN call' = Slot
      /\ \A q \in Pid : /\ flags'[q] = IF q \in {u, c} THEN {"STOP"} ELSE flags[q]
                       /\ parent'[q] = IF q = c THEN u ELSE parent[q]
      /\ \A q \in Slot : /\ pc'[q] = IF q = c THEN pc[u] ELSE pc[q]
                        /\ call'[q] = IF q = c THEN MEM_FORK_PROC ELSE call[q]
      /\ pc'[MM] = "forkParent"
      /\ \A q \in Proc : msg'[q] = IF q = c THEN msg[u] ELSE msg[q]
      /\ \A q \in Proc : q \in waiting' <=> q \in waiting \/ (q = c /\ u \in waiting)
      /\ waiting' \subseteq Proc
      /\ child' = c /\ subject' = u /\ UNCHANGED <<sending, after, reaping>>
  <2>1. flags[u] \cup {"STOP"} = {"STOP"} /\ u \in Slot /\ MM \notin Slot
    BY <1>1
  <2>2. DOMAIN pc' = Proc /\ DOMAIN msg' = Proc /\ DOMAIN flags' = Pid /\ DOMAIN parent' = Pid /\ DOMAIN call' = Slot
    BY <1>1, <1>2 DEF LifeInv, Shape
  <2>3. \A q \in Pid : /\ flags'[q] = IF q \in {u, c} THEN {"STOP"} ELSE flags[q]
                       /\ parent'[q] = IF q = c THEN u ELSE parent[q]
    BY <1>1, <1>2, <2>1 DEF LifeInv, Shape
  <2>4. /\ \A q \in Slot : /\ pc'[q] = IF q = c THEN pc[u] ELSE pc[q]
                           /\ call'[q] = IF q = c THEN MEM_FORK_PROC ELSE call[q]
        /\ pc'[MM] = "forkParent"
    BY <1>1, <1>2, <2>1 DEF LifeInv, Shape
  <2>5. \A q \in Proc : msg'[q] = IF q = c THEN msg[u] ELSE msg[q]
    BY <1>1, <1>2 DEF LifeInv, Shape
  <2>6. waiting' \subseteq Proc /\ \A q \in Proc : q \in waiting' <=> q \in waiting \/ (q = c /\ u \in waiting)
    BY <1>1, <1>2 DEF LifeInv, Shape
  <2>7. QED
    BY <1>2, <2>2, <2>3, <2>4, <2>5, <2>6
<1>4. /\ Live' = Live \cup {c} /\ list' \in Seq(Slot) /\ IsInjective(list')
  BY <1>1, <1>2, Linked
<1>5. /\ flags[c] = {} /\ pc[c] = "free" /\ c \notin sending \cup waiting
      /\ u \notin sending /\ pc[u] \in {"sent", "ret"} /\ (pc[u] = "ret" => u \in waiting)
      /\ u \in waiting => pc[u] = "ret" /\ msg[u].sender = MM /\ msg[u].body = Nothing
      /\ c \in Pid /\ u \in Pid /\ c \in Proc /\ u \in Proc /\ c # MM
  BY <1>1 DEF LifeInv, EmptySlots, Owed, Programs
<1>6. Shape'
  BY <1>1, <1>3, <1>4, <1>5
     DEF LifeInv, Shape
<1>7. EmptySlots'
  BY <1>1, <1>3, <1>4, <1>5
     DEF LifeInv, EmptySlots
<1>8. Programs'
  BY <1>1, <1>3, <1>4, <1>5, SMTT(40)
     DEF LifeInv, Programs
<1>9. FlagsRight'
  <2>1. \A p \in {u, c} : flags'[p] = {"STOP"} /\ call'[p] = MEM_FORK_PROC /\ p \in Forked' /\ p \notin sending'
    BY <1>1, <1>3, <1>4, <1>5 DEF Forked
  <2>2. \A p \in Live \ {u, c} : /\ UNCHANGED <<flags[p], call[p], pc[p], msg[p]>> /\ p \notin Forked
                             /\ (p \in sending' <=> p \in sending) /\ (p \in waiting' <=> p \in waiting)
    BY <1>1, <1>3, <1>4, <1>5 DEF Forked
  <2>3. \A p \in Live' : p = Root => call'[p] # MEM_EXIT_PROC
    BY <1>1, <1>3, <1>4, <1>5, <2>1, <2>2 DEF LifeInv, FlagsRight
  <2>4. QED
    BY <1>4, <2>1, <2>2, <2>3 DEF LifeInv, FlagsRight, ForkFailed, Owed
<1>10. ForkInProgress'
  BY <1>1, <1>3, <1>4, <1>5, ZenonT(40)
     DEF LifeInv, ForkInProgress, Stopped, Answered, Owed
<1>11. TaskMMRight'
  BY <1>1, <1>3, <1>4, <1>5
     DEF LifeInv, TaskMMRight, Sender, Told, Stopped, Owed, Hanging
<1>12. ReapingRight'
  BY <1>1, <1>3, <1>4, <1>5
     DEF LifeInv, ReapingRight, Hanging
<1>13. WakeupsKept'
  <2>1. \A p \in Live' : Waits(p)' => p \in Live /\ Waits(p)
    BY <1>1, <1>3, <1>4, <1>5 DEF Waits
  <2>2. \A p \in Live' : Hanging(p)' => Hanging(p) /\ parent'[p] = parent[p]
    BY <1>1, <1>3, <1>4, <1>5 DEF Hanging
  <2>3. \A p \in Live : Hanging(p) => ~Reported(p) /\ ~Reporting(p)
    BY <1>1, <1>3, <1>4, <1>5 DEF Reported, Reporting, Hanging
  <2>4. QED
    BY <2>1, <2>2, <2>3 DEF LifeInv, WakeupsKept, Hanging
<1>14. QED
  BY <1>6, <1>7, <1>8, <1>9, <1>10, <1>11, <1>12, <1>13 DEF LifeInv

\* The failure is reported to the parent, which stays stopped.
LEMMA FailureKeeps ==
  ASSUME LifeInv, Handles("forkFailed"), Send(MM, subject, Failure), Goto(MM, "recv"), UNCHANGED <<list, parent, flags, call, mvars, reaping>>
  PROVE  LifeInv'
<1> USE Apart, FlagSets
<1>1. pc[MM] = "forkFailed" /\ MM \notin sending \cup waiting /\ Live \subseteq Slot /\ reaping = 0
      /\ Stopped(subject) /\ Owed(subject) /\ (Prompt => subject \in waiting) /\ subject \in Slot
  BY LiveMembers DEF LifeInv, Handles, Free, ForkInProgress, Stopped
<1>2. Live' = Live /\ UNCHANGED <<list, parent, flags, call, subject, child, after, reaping>>
  BY DEF Live, mvars
<1>3. /\ DOMAIN msg' = Proc
      /\ \A q \in Proc : IF q = MM \/ (q = subject /\ subject \in waiting)
                         THEN msg'[q].sender = MM /\ msg'[q].receiver = subject /\ msg'[q].body = Failure
                         ELSE msg'[q] = msg[q]
      /\ \/ subject \in waiting /\ waiting' = waiting \ {subject} /\ sending' = sending
         \/ subject \notin waiting /\ waiting' = waiting /\ sending' = sending \cup {MM}
      /\ DOMAIN pc' = Proc /\ pc'[MM] = "recv" /\ \A q \in Slot : pc'[q] = pc[q]
  BY <1>1 DEF Send, Accepts, Goto, LifeInv, Shape, Programs, Stopped
<1>4. Shape'
  BY <1>1, <1>2, <1>3
     DEF LifeInv, Shape
<1>5. EmptySlots'
  BY <1>1, <1>2, <1>3
     DEF LifeInv, EmptySlots
<1>6. Programs'
  BY <1>1, <1>2, <1>3, ZenonT(40)
     DEF LifeInv, Programs
<1>7. FlagsRight'
  BY <1>1, <1>2, <1>3
     DEF LifeInv, FlagsRight, Programs, Forked, ForkFailed, Owed, Stopped
<1>8. ForkInProgress'
  BY <1>1, <1>2, <1>3
     DEF LifeInv, ForkInProgress, Stopped, Answered, Owed
<1>9. TaskMMRight'
  BY <1>1, <1>2, <1>3, ZenonT(40)
     DEF LifeInv, TaskMMRight, Sender, Told, Stopped, Owed, Hanging, Programs
<1>10. ReapingRight'
  BY <1>1, <1>2, <1>3
     DEF LifeInv, ReapingRight, Hanging
<1>11. WakeupsKept'
  BY <1>1, <1>2, <1>3
     DEF LifeInv, WakeupsKept, Hanging, Reported, Reporting, Waits
<1>12. QED
  BY <1>4, <1>5, <1>6, <1>7, <1>8, <1>9, <1>10, <1>11 DEF LifeInv

\* The parent is told of its child.
LEMMA ForkParentKeeps ==
  ASSUME LifeInv, Handles("forkParent"), Send(MM, subject, child), Goto(MM, "forkChild"), UNCHANGED <<list, parent, flags, call, mvars, reaping>>
  PROVE  LifeInv'
<1> USE Apart, FlagSets
<1>1. pc[MM] = "forkParent" /\ MM \notin sending \cup waiting /\ Live \subseteq Slot /\ reaping = 0 /\ subject # child
      /\ Stopped(subject) /\ Owed(subject) /\ (Prompt => subject \in waiting) /\ subject \in Slot
      /\ Stopped(child) /\ Owed(child) /\ (subject \in waiting <=> child \in waiting) /\ child \in Slot
  BY LiveMembers DEF LifeInv, Handles, Free, ForkInProgress, Stopped
<1>2. Live' = Live /\ UNCHANGED <<list, parent, flags, call, subject, child, after, reaping>>
  BY DEF Live, mvars
<1>3. /\ DOMAIN msg' = Proc
      /\ \A q \in Proc : IF q = MM \/ (q = subject /\ subject \in waiting)
                         THEN msg'[q].sender = MM /\ msg'[q].receiver = subject /\ msg'[q].body = child
                         ELSE msg'[q] = msg[q]
      /\ \/ subject \in waiting /\ waiting' = waiting \ {subject} /\ sending' = sending
         \/ subject \notin waiting /\ waiting' = waiting /\ sending' = sending \cup {MM}
      /\ DOMAIN pc' = Proc /\ pc'[MM] = "forkChild" /\ \A q \in Slot : pc'[q] = pc[q]
  BY <1>1 DEF Send, Accepts, Goto, LifeInv, Shape, Programs, Stopped
<1>4. Shape'
  BY <1>1, <1>2, <1>3, ZenonT(40)
     DEF LifeInv, Shape
<1>5. EmptySlots'
  BY <1>1, <1>2, <1>3
     DEF LifeInv, EmptySlots
<1>6. Programs'
  BY <1>1, <1>2, <1>3, ZenonT(40)
     DEF LifeInv, Programs
<1>7. FlagsRight'
  BY <1>1, <1>2, <1>3
     DEF LifeInv, FlagsRight, Programs, Forked, ForkFailed, Owed, Stopped
<1>8. ForkInProgress'
  BY <1>1, <1>2, <1>3
     DEF LifeInv, ForkInProgress, Stopped, Answered, Owed, Programs
<1>9. TaskMMRight'
  BY <1>1, <1>2, <1>3, ZenonT(40)
     DEF LifeInv, TaskMMRight, Sender, Told, Stopped, Owed, Hanging, Programs
<1>10. ReapingRight'
  BY <1>1, <1>2, <1>3
     DEF LifeInv, ReapingRight, Hanging
<1>11. WakeupsKept'
  BY <1>1, <1>2, <1>3
     DEF LifeInv, WakeupsKept, Hanging, Reported, Reporting, Waits
<1>12. QED
  BY <1>4, <1>5, <1>6, <1>7, <1>8, <1>9, <1>10, <1>11 DEF LifeInv

\* The child is told that it is the child.
LEMMA ForkChildKeeps ==
  ASSUME LifeInv, Handles("forkChild"), Send(MM, child, 0), Goto(MM, "forkDone"), UNCHANGED <<list, parent, flags, call, mvars, reaping>>
  PROVE  LifeInv'
<1> USE Apart, FlagSets
<1>1. pc[MM] = "forkChild" /\ MM \notin sending \cup waiting /\ Live \subseteq Slot /\ reaping = 0 /\ subject # child
      /\ Answered(subject) /\ subject \in Slot
      /\ Stopped(child) /\ child \in waiting /\ child \in Slot
  BY LiveMembers DEF LifeInv, Handles, Free, ForkInProgress, Stopped
<1>2. Live' = Live /\ UNCHANGED <<list, parent, flags, call, subject, child, after, reaping>>
  BY DEF Live, mvars
<1>3. /\ DOMAIN msg' = Proc
      /\ \A q \in Proc : IF q = MM \/ (q = child /\ child \in waiting)
                         THEN msg'[q].sender = MM /\ msg'[q].receiver = child /\ msg'[q].body = 0
                         ELSE msg'[q] = msg[q]
      /\ \/ child \in waiting /\ waiting' = waiting \ {child} /\ sending' = sending
         \/ child \notin waiting /\ waiting' = waiting /\ sending' = sending \cup {MM}
      /\ DOMAIN pc' = Proc /\ pc'[MM] = "forkDone" /\ \A q \in Slot : pc'[q] = pc[q]
  BY <1>1 DEF Send, Accepts, Goto, LifeInv, Shape, Programs, Stopped
<1>4. Shape'
  BY <1>1, <1>2, <1>3, ZenonT(40)
     DEF LifeInv, Shape
<1>5. EmptySlots'
  BY <1>1, <1>2, <1>3
     DEF LifeInv, EmptySlots
<1>6. Programs'
  BY <1>1, <1>2, <1>3, ZenonT(40)
     DEF LifeInv, Programs
<1>7. FlagsRight'
  BY <1>1, <1>2, <1>3
     DEF LifeInv, FlagsRight, Programs, Forked, ForkFailed, Owed, Stopped
<1>8. ForkInProgress'
  BY <1>1, <1>2, <1>3
     DEF LifeInv, ForkInProgress, Stopped, Answered, Owed, Programs
<1>9. TaskMMRight'
  BY <1>1, <1>2, <1>3
     DEF LifeInv, TaskMMRight, Sender, Told, Stopped, Owed, Hanging, Programs
<1>10. ReapingRight'
  BY <1>1, <1>2, <1>3
     DEF LifeInv, ReapingRight, Hanging
<1>11. WakeupsKept'
  BY <1>1, <1>2, <1>3
     DEF LifeInv, WakeupsKept, Hanging, Reported, Reporting, Waits
<1>12. QED
  BY <1>4, <1>5, <1>6, <1>7, <1>8, <1>9, <1>10, <1>11 DEF LifeInv

\* Both sides of the fork may run.
LEMMA ForkDoneKeeps ==
  ASSUME LifeInv, ForkDone
  PROVE  LifeInv'
<1> USE Apart, FlagSets
<1>1. pc[MM] = "forkDone" /\ MM \notin sending \cup waiting /\ Live \subseteq Slot /\ subject # child
      /\ Answered(subject) /\ subject \in Slot /\ Answered(child) /\ child \in Slot
  BY LiveMembers DEF LifeInv, ForkDone, Handles, Free, ForkInProgress, Answered, Stopped
<1>2. Live' = Live /\ UNCHANGED <<list, parent, call, subject, child, after, reaping, msg, sending, waiting>>
  BY DEF ForkDone, Live, mvars, vars
<1>3. /\ DOMAIN pc' = Proc /\ pc'[MM] = "recv" /\ \A q \in Slot : pc'[q] = pc[q]
      /\ DOMAIN flags' = Pid /\ \A q \in Pid : flags'[q] = IF q \in {subject, child} THEN {} ELSE flags[q]
  <2>1. pc' = [pc EXCEPT ![MM] = "recv"]
        /\ flags' = [flags EXCEPT ![subject] = flags[subject] \ {"STOP"},
                                ![child] = flags[child] \ {"STOP"}]
    BY <1>1 DEF ForkDone, Goto, LifeInv, Shape
  <2>2. flags[subject] \ {"STOP"} = {} /\ flags[child] \ {"STOP"} = {}
    BY <1>1 DEF Answered, Stopped
  <2>3. QED
    BY <1>1, <2>1, <2>2 DEF LifeInv, Shape
<1>4. Shape'
  BY <1>1, <1>2, <1>3
     DEF LifeInv, Shape
<1>5. EmptySlots'
  BY <1>1, <1>2, <1>3
     DEF LifeInv, EmptySlots
<1>6. Programs'
  BY <1>1, <1>2, <1>3
     DEF LifeInv, Programs, Answered, Stopped
<1>7. FlagsRight'
  BY <1>1, <1>2, <1>3
     DEF LifeInv, FlagsRight, Programs, Forked, ForkFailed, Owed, Answered, Stopped
<1>8. ForkInProgress'
  BY <1>1, <1>2, <1>3
     DEF LifeInv, ForkInProgress, Stopped, Answered, Owed
<1>9. TaskMMRight'
  BY <1>1, <1>2, <1>3
     DEF LifeInv, TaskMMRight, Sender, Told, Stopped, Owed, Hanging
<1>10. ReapingRight'
  BY <1>1, <1>2, <1>3
     DEF LifeInv, ReapingRight, Hanging, Answered, Stopped
<1>11. WakeupsKept'
  BY <1>1, <1>2, <1>3
     DEF LifeInv, WakeupsKept, Hanging, Reported, Reporting, Waits
<1>12. QED
  BY <1>4, <1>5, <1>6, <1>7, <1>8, <1>9, <1>10, <1>11 DEF LifeInv

\* A process exits whose parent waits for it.
LEMMA ExitTells ==
  ASSUME LifeInv, Exit, Waits(parent[Sender])
  PROVE  LifeInv'
<1> USE Apart, FlagSets
<1>1. /\ pc[MM] = "handle" /\ MM \notin sending \cup waiting /\ Live \subseteq Slot /\ reaping = 0
      /\ Owed(Sender) /\ flags[Sender] = {} /\ call[Sender] = MEM_EXIT_PROC /\ Sender \in Live /\ Sender # Root
      /\ parent[Sender] \in Live /\ parent[Sender] # Sender
      /\ flags[parent[Sender]] = {"WATING"} /\ Owed(parent[Sender]) /\ call[parent[Sender]] = MEM_WAIT_PROC
  <2>1. /\ pc[MM] = "handle" /\ MM \notin sending \cup waiting /\ Live \subseteq Slot /\ reaping = 0
        /\ Owed(Sender) /\ flags[Sender] = {} /\ call[Sender] = MEM_EXIT_PROC /\ Sender \in Live
    BY LiveMembers DEF LifeInv, Exit, Handling, Handles, Free, TaskMMRight, Owed
  <2>2. Sender # Root
    BY <2>1 DEF LifeInv, FlagsRight
  <2>3. parent[Sender] \in Pid /\ "WATING" \in flags[parent[Sender]]
    BY <2>1 DEF LifeInv, Shape, Waits
  <2>4. parent[Sender] \in Live
    BY <2>3 DEF LifeInv, EmptySlots
  <2>5. flags[parent[Sender]] = {"WATING"}
    BY <2>3, <2>4 DEF LifeInv, FlagsRight
  <2>6. Owed(parent[Sender]) /\ call[parent[Sender]] = MEM_WAIT_PROC /\ parent[Sender] # Sender
    BY <2>1, <2>4, <2>5 DEF LifeInv, FlagsRight
  <2>7. QED
    BY <2>1, <2>2, <2>4, <2>5, <2>6
<1>2. /\ Live' = Live /\ subject' = Sender /\ child' = Sender /\ waiting' = waiting \ {Sender}
      /\ UNCHANGED <<list, parent, reaping, call, msg, sending>> /\ after' \in {"recv", "adopt", "next"}
  BY DEF Exit, Live
<1>3. /\ DOMAIN pc' = Proc /\ pc'[MM] = "report" /\ \A q \in Slot : pc'[q] = pc[q]
      /\ DOMAIN flags' = Pid
      /\ \A q \in Pid : flags'[q] = IF q = Sender THEN Ended ELSE IF q = parent[Sender] THEN {} ELSE flags[q]
  <2>1. pc' = [pc EXCEPT ![MM] = "report"]
        /\ flags' = [flags EXCEPT ![Sender] = Ended, ![parent[Sender]] = flags[parent[Sender]] \ {"WATING"}]
    BY <1>1 DEF Exit, Goto, LifeInv, Shape
  <2>2. flags[parent[Sender]] \ {"WATING"} = {}
    BY <1>1
  <2>3. QED
    BY <1>1, <2>1, <2>2 DEF LifeInv, Shape
<1>4. \E j \in DOMAIN list : list[j] = Sender
  BY <1>1, LiveMembers DEF LifeInv
<1>5. \A i \in DOMAIN list : list[i] # 0
  BY <1>1, LiveMembers DEF LifeInv
<1>6. Shape'
  BY <1>1, <1>2, <1>3, <1>4, <1>5
     DEF LifeInv, Shape
<1>7. EmptySlots'
  BY <1>1, <1>2, <1>3, <1>4, <1>5
     DEF LifeInv, EmptySlots
<1>8. Programs'
  BY <1>1, <1>2, <1>3, <1>4, <1>5
     DEF LifeInv, Programs, Owed
<1>9. FlagsRight'
  BY <1>1, <1>2, <1>3, <1>4, <1>5
     DEF LifeInv, FlagsRight, Programs, Forked, ForkFailed, Owed
<1>10. ForkInProgress'
  BY <1>1, <1>2, <1>3, <1>4, <1>5
     DEF LifeInv, ForkInProgress, Stopped, Answered, Owed
<1>11. TaskMMRight'
  BY <1>1, <1>2, <1>3, <1>4, <1>5
     DEF LifeInv, TaskMMRight, Sender, Told, Stopped, Owed, Hanging
<1>12. ReapingRight'
  BY <1>1, <1>2, <1>3, <1>4, <1>5
     DEF LifeInv, ReapingRight, Hanging, Owed
<1>13. WakeupsKept'
  BY <1>1, <1>2, <1>3, <1>4, <1>5
     DEF LifeInv, WakeupsKept, Hanging, Reported, Reporting, Waits, Owed
<1>14. QED
  BY <1>6, <1>7, <1>8, <1>9, <1>10, <1>11, <1>12, <1>13 DEF LifeInv

\* A process exits whose parent does not wait: it hangs.
LEMMA ExitHangs ==
  ASSUME LifeInv, Exit, ~Waits(parent[Sender])
  PROVE  LifeInv'
<1> USE Apart, FlagSets
<1>1. /\ pc[MM] = "handle" /\ MM \notin sending \cup waiting /\ Live \subseteq Slot /\ reaping = 0
      /\ Owed(Sender) /\ flags[Sender] = {} /\ call[Sender] = MEM_EXIT_PROC /\ Sender \in Live /\ Sender # Root
  BY LiveMembers DEF LifeInv, Exit, Handling, Handles, Free, TaskMMRight, Owed, FlagsRight
<1>2. /\ Live' = Live /\ subject' = Sender /\ waiting' = waiting \ {Sender}
      /\ UNCHANGED <<list, parent, reaping, call, msg, sending, child, after>>
  BY DEF Exit, Live
<1>3. /\ DOMAIN pc' = Proc /\ pc'[MM] = "adopt" /\ \A q \in Slot : pc'[q] = pc[q]
      /\ DOMAIN flags' = Pid /\ \A q \in Pid : flags'[q] = IF q = Sender THEN Ended ELSE flags[q]
  BY <1>1 DEF Exit, Goto, LifeInv, Shape
<1>4. Shape'
  BY <1>1, <1>2, <1>3
     DEF LifeInv, Shape
<1>5. EmptySlots'
  BY <1>1, <1>2, <1>3
     DEF LifeInv, EmptySlots
<1>6. Programs'
  BY <1>1, <1>2, <1>3
     DEF LifeInv, Programs, Owed
<1>7. FlagsRight'
  BY <1>1, <1>2, <1>3
     DEF LifeInv, FlagsRight, Programs, Forked, ForkFailed, Owed
<1>8. ForkInProgress'
  BY <1>1, <1>2, <1>3
     DEF LifeInv, ForkInProgress, Stopped, Answered, Owed
<1>9. TaskMMRight'
  BY <1>1, <1>2, <1>3
     DEF LifeInv, TaskMMRight, Sender, Told, Stopped, Owed, Hanging
<1>10. ReapingRight'
  BY <1>1, <1>2, <1>3
     DEF LifeInv, ReapingRight, Hanging
<1>11. WakeupsKept'
  BY <1>1, <1>2, <1>3
     DEF LifeInv, WakeupsKept, Hanging, Reported, Reporting, Waits
<1>12. QED
  BY <1>4, <1>5, <1>6, <1>7, <1>8, <1>9, <1>10, <1>11 DEF LifeInv

\* The parent is told of a process that has exited.
LEMMA ReportKeeps ==
  ASSUME LifeInv, Report
  PROVE  LifeInv'
<1> USE Apart, FlagSets
<1>1. pc[MM] = "report" /\ MM \notin sending \cup waiting /\ Live \subseteq Slot
      /\ Told(parent[child]) /\ parent[child] \in Live /\ Hanging(child)
  BY LiveMembers DEF LifeInv, Report, Handles, Free, TaskMMRight, Told, Owed
<1>2. Live' = Live /\ UNCHANGED <<list, parent, flags, call, subject, child, after, reaping>>
  BY DEF Report, Live, mvars
<1>3. /\ DOMAIN msg' = Proc
      /\ \A q \in Proc : IF q = MM \/ (q = parent[child] /\ parent[child] \in waiting)
                         THEN msg'[q].sender = MM /\ msg'[q].receiver = parent[child] /\ msg'[q].body = child
                         ELSE msg'[q] = msg[q]
      /\ \/ parent[child] \in waiting /\ waiting' = waiting \ {parent[child]} /\ sending' = sending
         \/ parent[child] \notin waiting /\ waiting' = waiting /\ sending' = sending \cup {MM}
      /\ DOMAIN pc' = Proc /\ pc'[MM] = "exitProc" /\ \A q \in Slot : pc'[q] = pc[q]
  <2>1. DEFINE r == parent[child]
  <2>2. r \in Slot /\ r # MM /\ (r \in waiting => msg[r].sender = MM)
    BY <1>1 DEF LifeInv, Programs
  <2>3. Send(MM, r, child) /\ Goto(MM, "exitProc")
    BY DEF Report
  <2> HIDE DEF r
  <2>4. /\ DOMAIN msg' = Proc
        /\ \A q \in Proc : IF q = MM \/ (q = r /\ r \in waiting)
                           THEN msg'[q].sender = MM /\ msg'[q].receiver = r /\ msg'[q].body = child
                           ELSE msg'[q] = msg[q]
        /\ \/ r \in waiting /\ waiting' = waiting \ {r} /\ sending' = sending
           \/ r \notin waiting /\ waiting' = waiting /\ sending' = sending \cup {MM}
    BY <1>1, <2>2, <2>3 DEF Send, Accepts, LifeInv, Shape
  <2>5. pc' = [pc EXCEPT ![MM] = "exitProc"]
    BY <2>3 DEF Goto
  <2>6. DOMAIN pc' = Proc /\ pc'[MM] = "exitProc" /\ \A q \in Slot : pc'[q] = pc[q]
    BY <2>5 DEF LifeInv, Shape
  <2>7. QED
    BY <2>4, <2>6 DEF r
<1>4. Shape'
  BY <1>1, <1>2, <1>3
     DEF LifeInv, Shape
<1>5. EmptySlots'
  BY <1>1, <1>2, <1>3
     DEF LifeInv, EmptySlots
<1>6. Programs'
  BY <1>1, <1>2, <1>3, ZenonT(40)
     DEF LifeInv, Programs, Told, Owed
<1>7. FlagsRight'
  BY <1>1, <1>2, <1>3
     DEF LifeInv, FlagsRight, Programs, Forked, ForkFailed, Owed, Told
<1>8. ForkInProgress'
  BY <1>1, <1>2, <1>3
     DEF LifeInv, ForkInProgress, Stopped, Answered, Owed
<1>9. TaskMMRight'
  BY <1>1, <1>2, <1>3, ZenonT(40)
     DEF LifeInv, TaskMMRight, Sender, Told, Stopped, Owed, Hanging, Programs
<1>10. ReapingRight'
  BY <1>1, <1>2, <1>3
     DEF LifeInv, ReapingRight, Hanging
<1>11. WakeupsKept'
  BY <1>1, <1>2, <1>3
     DEF LifeInv, WakeupsKept, Hanging, Reported, Reporting, Waits
<1>12. QED
  BY <1>4, <1>5, <1>6, <1>7, <1>8, <1>9, <1>10, <1>11 DEF LifeInv

\* SysTask is told to remove it.
LEMMA ExitProcKeeps ==
  ASSUME LifeInv, ExitProc
  PROVE  LifeInv'
<1> USE Apart, FlagSets
<1>1. pc[MM] = "exitProc" /\ MM \notin sending \cup waiting /\ Live \subseteq Slot /\ Hanging(child) /\ reaping = 0 /\ child \in Slot
  BY LiveMembers DEF LifeInv, ExitProc, Handles, Free, TaskMMRight, Hanging
<1>2. Live' = Live /\ reaping' = child /\ UNCHANGED <<list, parent, flags, call, subject, child, after, msg, sending, waiting>>
  BY DEF ExitProc, Live, mvars, vars
<1>3. /\ DOMAIN pc' = Proc /\ pc'[MM] = after /\ \A q \in Slot : pc'[q] = pc[q]
      /\ after \in {"recv", "adopt", "next"}
  BY <1>1 DEF ExitProc, Goto, LifeInv, Shape
<1>4. Shape'
  BY <1>1, <1>2, <1>3
     DEF LifeInv, Shape
<1>5. EmptySlots'
  BY <1>1, <1>2, <1>3
     DEF LifeInv, EmptySlots
<1>6. Programs'
  BY <1>1, <1>2, <1>3
     DEF LifeInv, Programs
<1>7. FlagsRight'
  BY <1>1, <1>2, <1>3
     DEF LifeInv, FlagsRight, Programs, Forked, ForkFailed, Owed
<1>8. ForkInProgress'
  BY <1>1, <1>2, <1>3
     DEF LifeInv, ForkInProgress, Stopped, Answered, Owed
<1>9. TaskMMRight'
  BY <1>1, <1>2, <1>3
     DEF LifeInv, TaskMMRight, Sender, Told, Stopped, Owed, Hanging
<1>10. ReapingRight'
  BY <1>1, <1>2, <1>3
     DEF LifeInv, ReapingRight, Hanging, Shape, IsInjective
<1>11. WakeupsKept'
  BY <1>1, <1>2, <1>3
     DEF LifeInv, WakeupsKept, Hanging, Reported, Reporting, Waits
<1>12. QED
  BY <1>4, <1>5, <1>6, <1>7, <1>8, <1>9, <1>10, <1>11 DEF LifeInv

\* SysTask removes it.
LEMMA SysTaskExitKeeps ==
  ASSUME LifeInv, SysTaskExit
  PROVE  LifeInv'
<1> USE Apart, FlagSets
<1>1. Hanging(reaping) /\ reaping \in Slot /\ Live \subseteq Slot /\ reaping # Root /\ reaping \notin sending \cup waiting
  BY LiveMembers DEF LifeInv, SysTaskExit, ReapingRight, Hanging, FlagsRight
<1>2. UNCHANGED <<subject, child, after, call, msg, sending, waiting>> /\ reaping' = 0
  BY DEF SysTaskExit, mvars, vars
<1>3. /\ DOMAIN pc' = Proc /\ DOMAIN flags' = Pid /\ DOMAIN parent' = Pid
      /\ \A q \in Proc : pc'[q] = IF q = reaping THEN "free" ELSE pc[q]
      /\ pc'[MM] = pc[MM]
      /\ \A q \in Pid : /\ parent'[q] = IF q = reaping THEN 0 ELSE parent[q]
                       /\ flags'[q] = IF q = reaping THEN {} ELSE flags[q]
  BY <1>1 DEF SysTaskExit, Goto, LifeInv, Shape
<1>4. /\ list' \in Seq(Slot) /\ Live' = Live \ {reaping}
      /\ IsInjective(list')
  BY Unlinked
<1>5. /\ \A i \in DOMAIN list' : list'[i] # 0
      /\ \A q \in Live' : \E i \in DOMAIN list' : list'[i] = q
      /\ pc[MM] \in {"walk", "report", "exitProc"} => child \in Live /\ child # reaping
  <2>1. \A i \in DOMAIN list' : list'[i] \in Slot
    BY <1>4, LenProperties, ElementOfSeq
  <2>2. \A q \in Live' : \E i \in DOMAIN list' : list'[i] = q
    BY DEF Live, ToSet
  <2>3. pc[MM] \in {"walk", "report", "exitProc"} => child \in Live /\ child # reaping
    BY LiveMembers DEF LifeInv, ReapingRight
  <2>4. QED
    BY <2>1, <2>2, <2>3
<1>6. Shape'
  BY <1>1, <1>2, <1>3, <1>4, <1>5
     DEF LifeInv, Shape
<1>7. EmptySlots'
  BY <1>1, <1>2, <1>3, <1>4, <1>5, ZenonT(40)
     DEF LifeInv, EmptySlots
<1>8. Programs'
  BY <1>1, <1>2, <1>3, <1>4, <1>5
     DEF LifeInv, Programs
<1>9. FlagsRight'
  BY <1>1, <1>2, <1>3, <1>4, <1>5, SMTT(40)
     DEF LifeInv, FlagsRight, Programs, Forked, ForkFailed, Owed
<1>10. ForkInProgress'
  BY <1>1, <1>2, <1>3, <1>4, <1>5
     DEF LifeInv, ForkInProgress, Stopped, Answered, Owed
<1>11. TaskMMRight'
  <2>1. \A p \in Pid : /\ Told(p) => Told(p)' /\ p # reaping
                       /\ Stopped(p) => Stopped(p)' /\ p # reaping
                       /\ Hanging(p) /\ p # reaping => Hanging(p)'
                       /\ Owed(p) /\ flags[p] = {} => Owed(p)' /\ p # reaping
    BY <1>1, <1>2, <1>3, <1>4, <1>5 DEF Told, Owed, Stopped, Hanging
  <2>2. UNCHANGED <<subject, child, msg, sending, waiting, call>> /\ pc'[MM] = pc[MM] /\ subject \in Pid
        /\ child \in Pid /\ parent[child] \in Pid
    BY <1>1, <1>2, <1>3, <1>4, <1>5 DEF LifeInv, Shape
  <2>3. (pc[MM] = "handle" /\ MM \notin waiting =>
          LET p == Sender IN Owed(p) /\ flags[p] = {} /\ msg[MM].body = call[p] /\ MM \notin sending)'
    BY <1>1, <1>2, <1>3, <1>4, <1>5, <2>1 DEF LifeInv, TaskMMRight, Owed, Sender
  <2>4. (MM \in sending =>
          LET p == msg[MM].receiver IN
          \/ pc[MM] \in {"recv", "exitProc"} /\ Told(p) /\ pc[p] = "sent"
          \/ ~Prompt /\ pc[MM] \in {"recv", "forkChild", "forkDone"} /\ Stopped(p) /\ pc[p] = "sent")'
    BY <1>1, <1>2, <1>3, <1>4, <1>5, <2>1 DEF LifeInv, TaskMMRight, Told, Owed, Stopped
  <2>5. (pc[MM] = "none" => Told(subject))'
    BY <2>1, <2>2 DEF LifeInv, TaskMMRight
  <2>6. (pc[MM] \in {"report", "exitProc"} => Hanging(child))'
    BY <1>5, <2>1, <2>2 DEF LifeInv, TaskMMRight
  <2>7. pc[MM] = "report" => parent'[child] = parent[child] /\ Told(parent[child])
    BY <1>3, <1>5, <2>2 DEF LifeInv, TaskMMRight
  <2>8. (pc[MM] = "report" => Told(parent[child]))'
    BY <2>1, <2>2, <2>7 DEF Told, Owed
  <2>9. (/\ pc[MM] \in {"recv", "handle", "forkFailed", "forkParent", "forkChild", "forkDone",
                      "report", "exitProc", "adopt", "walk", "next", "none"}
         /\ MM \in waiting => pc[MM] = "handle" /\ msg[MM].sender = Anybody /\ MM \notin sending)'
    BY <2>2 DEF LifeInv, TaskMMRight
  <2>10. QED
    BY <2>3, <2>4, <2>5, <2>6, <2>8, <2>9 DEF TaskMMRight
<1>12. ReapingRight'
  BY <1>1, <1>2, <1>3, <1>4, <1>5
     DEF LifeInv, ReapingRight, Hanging
<1>13. WakeupsKept'
  <2>1. \A p \in Live' : p \in Live /\ (Waits(p)' => Waits(p)) /\ (Hanging(p)' => Hanging(p)) /\ parent'[p] = parent[p]
    BY <1>1, <1>2, <1>3, <1>4, <1>5 DEF Waits, Hanging
  <2>2. \A p \in Live' : /\ ~Reported(p)' => ~Reported(p)
                         /\ ~Reporting(p)' => ~Reporting(p)
    BY <1>1, <1>2, <1>3, <1>4, <1>5 DEF Reported, Reporting
  <2>3. QED
    BY <2>1, <2>2 DEF LifeInv, WakeupsKept
<1>14. QED
  BY <1>6, <1>7, <1>8, <1>9, <1>10, <1>11, <1>12, <1>13 DEF LifeInv

\* TaskMM starts its walk of the list.
LEMMA AdoptKeeps ==
  ASSUME LifeInv, Adopt
  PROVE  LifeInv'
<1> USE Apart, FlagSets
<1>1. pc[MM] = "adopt" /\ MM \notin sending \cup waiting /\ Live \subseteq Slot /\ reaping = 0
  BY LiveMembers DEF LifeInv, Adopt, Handles, Free
<1>2. Live' = Live /\ UNCHANGED <<list, parent, flags, call, subject, after, reaping, msg, sending, waiting>>
  BY DEF Adopt, Live, vars
<1>3. DOMAIN pc' = Proc /\ pc'[MM] = "walk" /\ \A q \in Slot : pc'[q] = pc[q]
  BY <1>1 DEF Adopt, Goto, LifeInv, Shape
<1>4. child' = list[1] /\ 1 \in DOMAIN list /\ child' \in Slot /\ \A i \in DOMAIN list : list[i] # 0
  BY LiveMembers DEF Adopt, LifeInv, Shape
<1>5. Shape'
  BY <1>1, <1>2, <1>3, <1>4
     DEF LifeInv, Shape
<1>6. EmptySlots'
  BY <1>1, <1>2, <1>3, <1>4
     DEF LifeInv, EmptySlots
<1>7. Programs'
  BY <1>1, <1>2, <1>3, <1>4
     DEF LifeInv, Programs
<1>8. FlagsRight'
  BY <1>1, <1>2, <1>3, <1>4
     DEF LifeInv, FlagsRight, Programs, Forked, ForkFailed, Owed
<1>9. ForkInProgress'
  BY <1>1, <1>2, <1>3, <1>4
     DEF LifeInv, ForkInProgress, Stopped, Answered, Owed
<1>10. TaskMMRight'
  BY <1>1, <1>2, <1>3, <1>4
     DEF LifeInv, TaskMMRight, Sender, Told, Stopped, Owed, Hanging
<1>11. ReapingRight'
  BY <1>1, <1>2, <1>3, <1>4
     DEF LifeInv, ReapingRight, Hanging
<1>12. WakeupsKept'
  BY <1>1, <1>2, <1>3, <1>4
     DEF LifeInv, WakeupsKept, Hanging, Reported, Reporting, Waits
<1>13. QED
  BY <1>5, <1>6, <1>7, <1>8, <1>9, <1>10, <1>11, <1>12 DEF LifeInv

\* TaskMM looks at one process of the list.
LEMMA WalkKeeps ==
  ASSUME LifeInv, Walk
  PROVE  LifeInv'
<1> USE Apart, FlagSets
<1>1. pc[MM] = "walk" /\ MM \notin sending \cup waiting /\ Live \subseteq Slot /\ child \in Live /\ child # reaping
  BY LiveMembers DEF LifeInv, Walk, Handles, Free, ReapingRight
<1>2. Live' = Live /\ UNCHANGED <<list, call, subject, child, reaping, msg, sending, waiting>> /\ after' \in {"recv", "adopt", "next"}
  BY DEF Walk, Live, vars
<1>3. DOMAIN pc' = Proc /\ DOMAIN parent' = Pid /\ DOMAIN flags' = Pid /\ \A q \in Slot : pc'[q] = pc[q]
  BY <1>1 DEF Walk, Goto, LifeInv, Shape
<1>4. \/ /\ pc'[MM] = "report" /\ Hanging(child) /\ flags[Root] = {"WATING"} /\ Owed(Root) /\ call[Root] = MEM_WAIT_PROC
         /\ \A q \in Pid : parent'[q] = IF q = child THEN Root ELSE parent[q]
         /\ \A q \in Pid : flags'[q] = IF q = Root THEN {} ELSE flags[q]
      \/ /\ pc'[MM] = "next"
         /\ flags' = flags
         /\ \/ parent' = parent
            \/ /\ \A q \in Pid : parent'[q] = IF q = child THEN Root ELSE parent[q]
               /\ ~Hanging(child) \/ ~Waits(Root)
  <2> DEFINE orphan == parent[child] = PidField(subject)
             told   == orphan /\ "HANGING" \in flags[child] /\ Waits(Root)
  <2>1. /\ parent' = IF orphan THEN [parent EXCEPT ![child] = Root] ELSE parent
        /\ flags' = IF told THEN [flags EXCEPT ![Root] = flags[Root] \ {"WATING"}] ELSE flags
        /\ pc' = [pc EXCEPT ![MM] = IF told THEN "report" ELSE "next"]
    BY DEF Walk, Goto
  <2>2. /\ "HANGING" \in flags[child] => Hanging(child)
        /\ Hanging(child) => "HANGING" \in flags[child]
    BY <1>1 DEF LifeInv, FlagsRight, Hanging
  <2>3. Waits(Root) => /\ flags[Root] = {"WATING"} /\ Owed(Root) /\ call[Root] = MEM_WAIT_PROC
                       /\ flags[Root] \ {"WATING"} = {}
    BY DEF LifeInv, FlagsRight, Waits, Shape
  <2>4. /\ orphan => \A q \in Pid : parent'[q] = IF q = child THEN Root ELSE parent[q]
        /\ ~orphan => parent' = parent
    BY <1>1, <2>1 DEF LifeInv, Shape
  <2>5. /\ told => \A q \in Pid : flags'[q] = IF q = Root THEN {} ELSE flags[q]
        /\ ~told => flags' = flags
    BY <2>1, <2>3 DEF LifeInv, Shape
  <2>6. pc'[MM] = IF told THEN "report" ELSE "next"
    BY <2>1 DEF LifeInv, Shape
  <2>7. /\ told => orphan /\ Hanging(child) /\ Waits(Root)
        /\ ~told => ~orphan \/ ~Hanging(child) \/ ~Waits(Root)
    BY <2>2
  <2> HIDE DEF orphan, told
  <2>8. QED
    BY <2>3, <2>4, <2>5, <2>6, <2>7
<1>5. Shape'
  BY <1>1, <1>2, <1>3, <1>4
     DEF LifeInv, Shape
<1>6. EmptySlots'
  BY <1>1, <1>2, <1>3, <1>4
     DEF LifeInv, EmptySlots
<1>7. Programs'
  BY <1>1, <1>2, <1>3, <1>4
     DEF LifeInv, Programs
<1>8. FlagsRight'
  BY <1>1, <1>2, <1>3, <1>4
     DEF LifeInv, FlagsRight, Programs, Forked, ForkFailed, Owed
<1>9. ForkInProgress'
  BY <1>1, <1>2, <1>3, <1>4
     DEF LifeInv, ForkInProgress, Stopped, Answered, Owed
<1>10. TaskMMRight'
  BY <1>1, <1>2, <1>3, <1>4
     DEF LifeInv, TaskMMRight, Sender, Told, Stopped, Owed, Hanging
<1>11. ReapingRight'
  <2>1. reaping # 0 => Hanging(reaping)'
    BY <1>1, <1>2, <1>3, <1>4 DEF LifeInv, ReapingRight, Hanging
  <2>2. PICK j \in DOMAIN list : list[j] = child /\ \A i \in DOMAIN list : list[i] = reaping => i < j
    BY <1>1 DEF LifeInv, ReapingRight
  <2>3. DOMAIN list \subseteq Nat
    BY LiveMembers DEF LifeInv
  <2>4. \A i, k \in DOMAIN list : list[i] = reaping /\ list[k] = child => i <= k
    BY <2>2, <2>3 DEF LifeInv, Shape, IsInjective
  <2>5. UNCHANGED <<list, child, reaping>>
    BY <1>2
  <2>6. QED
    BY <2>1, <2>2, <2>4, <2>5 DEF ReapingRight
<1>12. WakeupsKept'
  BY <1>1, <1>2, <1>3, <1>4
     DEF LifeInv, WakeupsKept, Hanging, Reported, Reporting, Waits
<1>13. QED
  BY <1>5, <1>6, <1>7, <1>8, <1>9, <1>10, <1>11, <1>12 DEF LifeInv

\* TaskMM goes on to the next process of the list.
LEMMA NextInListKeeps ==
  ASSUME LifeInv, NextInList
  PROVE  LifeInv'
<1> USE Apart, FlagSets
<1>1. pc[MM] = "next" /\ MM \notin sending \cup waiting /\ Live \subseteq Slot
  BY LiveMembers DEF LifeInv, NextInList, Handles, Free
<1>2. Live' = Live /\ UNCHANGED <<list, parent, flags, call, subject, after, reaping, msg, sending, waiting>>
  BY DEF NextInList, Live, vars
<1>3. /\ DOMAIN pc' = Proc /\ \A q \in Slot : pc'[q] = pc[q]
      /\ \/ /\ pc'[MM] = "walk"
            /\ \E i \in DOMAIN list : list[i] = child /\ i + 1 \in DOMAIN list /\ child' = list[i + 1]
         \/ pc'[MM] = "recv" /\ child' = child
  <2>1. CASE /\ child \in Live /\ Last(list) # child /\ Goto(MM, "walk")
             /\ \E i \in DOMAIN list : list[i] = child /\ child' = list[i + 1]
    <3>1. PICK i \in DOMAIN list : list[i] = child /\ child' = list[i + 1]
      BY <2>1
    <3>2. i # Len(list) /\ i + 1 \in DOMAIN list
      BY <2>1, <3>1, LiveMembers DEF LifeInv, Last
    <3>3. QED
      BY <1>1, <2>1, <3>1, <3>2 DEF Goto, LifeInv, Shape
  <2>2. CASE Goto(MM, "recv") /\ UNCHANGED child
    BY <1>1, <2>2 DEF Goto, LifeInv, Shape
  <2>3. QED
    BY <2>1, <2>2 DEF NextInList
<1>4. \A i \in DOMAIN list : list[i] \in Live /\ i \in Nat
  BY LiveMembers DEF LifeInv
<1>5. Shape'
  BY <1>1, <1>2, <1>3, <1>4
     DEF LifeInv, Shape
<1>6. EmptySlots'
  BY <1>1, <1>2, <1>3, <1>4
     DEF LifeInv, EmptySlots
<1>7. Programs'
  BY <1>1, <1>2, <1>3, <1>4
     DEF LifeInv, Programs
<1>8. FlagsRight'
  BY <1>1, <1>2, <1>3, <1>4
     DEF LifeInv, FlagsRight, Programs, Forked, ForkFailed, Owed
<1>9. ForkInProgress'
  BY <1>1, <1>2, <1>3, <1>4
     DEF LifeInv, ForkInProgress, Stopped, Answered, Owed
<1>10. TaskMMRight'
  BY <1>1, <1>2, <1>3, <1>4
     DEF LifeInv, TaskMMRight, Sender, Told, Stopped, Owed, Hanging
<1>11. ReapingRight'
  BY <1>1, <1>2, <1>3, <1>4
     DEF LifeInv, ReapingRight, Hanging, Shape, IsInjective
<1>12. WakeupsKept'
  BY <1>1, <1>2, <1>3, <1>4
     DEF LifeInv, WakeupsKept, Hanging, Reported, Reporting, Waits
<1>13. QED
  BY <1>5, <1>6, <1>7, <1>8, <1>9, <1>10, <1>11, <1>12 DEF LifeInv

\* A process waits: a child that hangs is reported, or it is marked as waiting, or told that it has none.
LEMMA WaitProcKeeps ==
  ASSUME LifeInv, NEW u, u = Sender, WaitProc
  PROVE  LifeInv'
<1> USE Apart, FlagSets
<1>1. /\ pc[MM] = "handle" /\ MM \notin sending \cup waiting /\ Live \subseteq Slot /\ reaping = 0
      /\ Owed(u) /\ flags[u] = {} /\ call[u] = MEM_WAIT_PROC /\ u \in Live
  BY LiveMembers DEF LifeInv, WaitProc, Handling, Handles, Free, TaskMMRight, Owed, Sender
<1>2. /\ Live' = Live /\ subject' = u /\ after' \in {"recv", "adopt", "next"}
      /\ UNCHANGED <<list, parent, call, reaping, msg, sending, waiting>>
  BY DEF WaitProc, Live, vars, LifeInv, Shape
<1>3. /\ DOMAIN pc' = Proc /\ DOMAIN flags' = Pid /\ \A q \in Slot : pc'[q] = pc[q]
      /\ \/ /\ pc'[MM] = "report" /\ flags' = flags /\ Hanging(child') /\ parent[child'] = u
            /\ \E i \in DOMAIN list : list[i] = child'
         \/ /\ pc'[MM] = "recv" /\ child' = child
            /\ \A q \in Pid : flags'[q] = IF q = u THEN {"WATING"} ELSE flags[q]
            /\ \A c \in Live : Hanging(c) => parent[c] # u
         \/ pc'[MM] = "none" /\ child' = child /\ flags' = flags
  <2>1. \A c \in Live : Hanging(c) /\ parent[c] = u => HangingChildren(u) # {}
    BY LiveMembers DEF HangingChildren, Hanging, LifeInv
  <2>2. \A i \in HangingChildren(u) : i \in DOMAIN list /\ Hanging(list[i]) /\ parent[list[i]] = u
    BY LiveMembers DEF HangingChildren, Hanging, LifeInv, FlagsRight
  <2>3. DOMAIN pc = Proc /\ DOMAIN flags = Pid /\ u \in Pid /\ flags[u] \cup {"WATING"} = {"WATING"}
    BY <1>1 DEF LifeInv, Shape
  <2>4. CASE \E i \in HangingChildren(u) : child' = list[i] /\ Goto(MM, "report") /\ UNCHANGED flags
    BY <2>2, <2>3, <2>4 DEF Goto
  <2>5. CASE HangingChildren(u) = {} /\ UNCHANGED child /\ flags' = [flags EXCEPT ![u] = flags[u] \cup {"WATING"}] /\ Goto(MM, "recv")
    BY <2>1, <2>3, <2>5 DEF Goto
  <2>6. CASE UNCHANGED <<child, flags>> /\ Goto(MM, "none")
    BY <2>3, <2>6 DEF Goto
  <2>7. QED
    BY <2>4, <2>5, <2>6 DEF WaitProc
<1>4. child' \in Slot \/ child' = child
  BY <1>1, <1>3, LiveMembers DEF LifeInv
<1>5. Shape'
  BY <1>1, <1>2, <1>3, <1>4
     DEF LifeInv, Shape, Hanging
<1>6. EmptySlots'
  BY <1>1, <1>2, <1>3, <1>4
     DEF LifeInv, EmptySlots
<1>7. Programs'
  BY <1>1, <1>2, <1>3, <1>4
     DEF LifeInv, Programs, Owed
<1>8. FlagsRight'
  BY <1>1, <1>2, <1>3, <1>4
     DEF LifeInv, FlagsRight, Programs, Forked, ForkFailed, Owed
<1>9. ForkInProgress'
  BY <1>1, <1>2, <1>3, <1>4
     DEF LifeInv, ForkInProgress, Stopped, Answered, Owed
<1>10. TaskMMRight'
  BY <1>1, <1>2, <1>3, <1>4
     DEF LifeInv, TaskMMRight, Sender, Told, Stopped, Owed, Hanging
<1>11. ReapingRight'
  BY <1>1, <1>2, <1>3, <1>4
     DEF LifeInv, ReapingRight, Hanging, Shape, IsInjective
<1>12. WakeupsKept'
  BY <1>1, <1>2, <1>3, <1>4
     DEF LifeInv, WakeupsKept, Hanging, Reported, Reporting, Waits
<1>13. QED
  BY <1>5, <1>6, <1>7, <1>8, <1>9, <1>10, <1>11, <1>12 DEF LifeInv

\* A process without children is told so.
LEMMA NoChildrenKeeps ==
  ASSUME LifeInv, NoChildren
  PROVE  LifeInv'
<1> USE Apart, FlagSets
<1>1. pc[MM] = "none" /\ MM \notin sending \cup waiting /\ Live \subseteq Slot /\ Told(subject) /\ subject \in Slot
  BY LiveMembers DEF LifeInv, NoChildren, Handles, Free, TaskMMRight, Told, Owed
<1>2. Live' = Live /\ UNCHANGED <<list, parent, flags, call, subject, child, after, reaping>>
  BY DEF NoChildren, Live, mvars
<1>3. /\ DOMAIN msg' = Proc
      /\ \A q \in Proc : IF q = MM \/ (q = subject /\ subject \in waiting)
                         THEN msg'[q].sender = MM /\ msg'[q].receiver = subject /\ msg'[q].body = Failure
                         ELSE msg'[q] = msg[q]
      /\ \/ subject \in waiting /\ waiting' = waiting \ {subject} /\ sending' = sending
         \/ subject \notin waiting /\ waiting' = waiting /\ sending' = sending \cup {MM}
      /\ DOMAIN pc' = Proc /\ pc'[MM] = "recv" /\ \A q \in Slot : pc'[q] = pc[q]
  BY <1>1 DEF NoChildren, Send, Accepts, Goto, LifeInv, Shape, Programs, Told, Owed
<1>4. Shape'
  BY <1>1, <1>2, <1>3
     DEF LifeInv, Shape
<1>5. EmptySlots'
  BY <1>1, <1>2, <1>3
     DEF LifeInv, EmptySlots
<1>6. Programs'
  BY <1>1, <1>2, <1>3, ZenonT(40)
     DEF LifeInv, Programs, Told, Owed
<1>7. FlagsRight'
  BY <1>1, <1>2, <1>3
     DEF LifeInv, FlagsRight, Programs, Forked, ForkFailed, Owed, Told
<1>8. ForkInProgress'
  BY <1>1, <1>2, <1>3
     DEF LifeInv, ForkInProgress, Stopped, Answered, Owed
<1>9. TaskMMRight'
  BY <1>1, <1>2, <1>3
     DEF LifeInv, TaskMMRight, Sender, Told, Stopped, Owed, Hanging, Programs
<1>10. ReapingRight'
  BY <1>1, <1>2, <1>3
     DEF LifeInv, ReapingRight, Hanging
<1>11. WakeupsKept'
  BY <1>1, <1>2, <1>3
     DEF LifeInv, WakeupsKept, Hanging, Reported, Reporting, Waits
<1>12. QED
  BY <1>4, <1>5, <1>6, <1>7, <1>8, <1>9, <1>10, <1>11 DEF LifeInv

(* The invariant holds *)

\* When the system comes up, init runs alone.
LEMMA LifeInitially == LifeInit => LifeInv
<1> USE Apart, FlagSets
<1> SUFFICES ASSUME LifeInit PROVE LifeInv
  OBVIOUS
<1>1. /\ list = <<Root>> /\ Live = {Root} /\ sending = {} /\ waiting = {} /\ reaping = 0
      /\ subject = 0 /\ child = 0 /\ after = "recv"
      /\ pc = [p \in Proc |-> IF p = MM THEN "recv" ELSE IF p = Root THEN "run" ELSE "free"]
      /\ flags = [p \in Pid |-> {}] /\ parent = [p \in Pid |-> 0]
      /\ call = [p \in Slot |-> MEM_WAIT_PROC] /\ DOMAIN msg = Proc
  BY DEF LifeInit, Init, Live, ToSet
<1>2. IsInjective(list)
  BY <1>1 DEF IsInjective
<1>3. list \in Seq(Slot)
  BY <1>1
<1>4. Shape
  BY <1>1, <1>2, <1>3 DEF Shape
<1>5. EmptySlots /\ Programs
  BY <1>1 DEF EmptySlots, Programs
<1>6. FlagsRight
  BY <1>1 DEF FlagsRight, Forked, ForkFailed, Owed
<1>7. ForkInProgress /\ TaskMMRight /\ ReapingRight
  BY <1>1 DEF ForkInProgress, TaskMMRight, ReapingRight
<1>8. WakeupsKept
  BY <1>1 DEF WakeupsKept, Waits
<1>9. QED
  BY <1>4, <1>5, <1>6, <1>7, <1>8 DEF LifeInv

\* Every step of a program, of TaskMM and of SysTask keeps it.
LEMMA LifeStep == LifeInv /\ [LifeNext]_lvars => LifeInv'
<1> SUFFICES ASSUME LifeInv, [LifeNext]_lvars PROVE LifeInv'
  OBVIOUS
<1>1. CASE MMWait \/ \E u \in Slot : MMTake(u)
  BY <1>1, MMWaitKeeps, MMTakeKeeps
<1>2. CASE Fork
  <2>1. CASE Alloc = {}
    BY <1>2, <2>1, ForkFails
  <2>2. CASE \E c \in Alloc : child' = c
    BY <1>2, <2>2, ForkCopies
  <2>3. QED
    BY <1>2, <2>1, <2>2 DEF Fork
<1>3. CASE ForkAnswer
  BY <1>3, FailureKeeps, ForkParentKeeps, ForkChildKeeps DEF ForkAnswer
<1>4. CASE ForkDone
  BY <1>4, ForkDoneKeeps
<1>5. CASE Exit
  BY <1>5, ExitTells, ExitHangs
<1>6. CASE Report \/ ExitProc
  BY <1>6, ReportKeeps, ExitProcKeeps
<1>7. CASE Adopt \/ Walk \/ NextInList
  BY <1>7, AdoptKeeps, WalkKeeps, NextInListKeeps
<1>8. CASE WaitProc \/ NoChildren
  BY <1>8, WaitProcKeeps, NoChildrenKeeps
<1>9. CASE SysTaskExit
  BY <1>9, SysTaskExitKeeps
<1>10. CASE \E u \in Slot :
              \/ \E op \in {MEM_FORK_PROC, MEM_EXIT_PROC, MEM_WAIT_PROC} : Request(u, op)
              \/ AwaitAnswer(u)
              \/ Return(u)
  BY <1>10, RequestKeeps, AwaitAnswerKeeps, ReturnKeeps
<1>11. CASE UNCHANGED lvars
  BY <1>11 DEF lvars, mvars, vars, LifeInv, Shape, EmptySlots, Programs, FlagsRight, Forked,
               ForkFailed, Owed, Told, Hanging, Stopped, Answered, ForkInProgress, TaskMMRight,
               ReapingRight, WakeupsKept, Reported, Reporting, Waits, Live, Sender
<1>12. QED
  BY <1>1, <1>2, <1>3, <1>4, <1>5, <1>6, <1>7, <1>8, <1>9, <1>10, <1>11 DEF LifeNext, MMStep

\* fork, exit and wait keep the books: who is stopped, who waits, who has exited,
\* and what TaskMM and SysTask are about to do with them agree after every step.
THEOREM LifeCorrect == LifeSpec => []LifeInv
<1>1. QED
  BY LifeInitially, LifeStep, PTL DEF LifeSpec

-----------------------------------------------------------------------------
(* What a program sees *)

\* TaskMM never handles a request while a fork it answers is open.
LEMMA IdleMM == LifeInv /\ MMIdle => Forked = {} /\ pc[MM] \in {"recv", "handle"}
BY DEF LifeInv, TaskMMRight, MMIdle, Forked

\* exit() does not come back to the program that called it.
THEOREM ExitIsFinal == LifeSpec => []ExitNeverReturns
<1>1. LifeInv => ExitNeverReturns
  BY DEF LifeInv, FlagsRight, ExitNeverReturns, Runs, Free, Ended
<1>2. QED
  BY <1>1, LifeCorrect, PTL

\* A program that waits is told of the child that hangs, whichever of the two
\* comes first: exit() finds the parent waiting, or wait() finds the child.
THEOREM WakeupsNotLost == LifeSpec => []NoLostWakeup
<1>1. LifeInv => NoLostWakeup
  <2> SUFFICES ASSUME LifeInv, MMIdle, NEW p \in Live, NEW c \in Live,
                      Waits(p), "HANGING" \in flags[c], ~Reported(c)
               PROVE  parent[c] # p
    BY DEF NoLostWakeup
  <2>1. Hanging(c) /\ ~Reporting(c)
    BY IdleMM DEF LifeInv, FlagsRight, Hanging, Reporting, Ended
  <2>2. QED
    BY <2>1 DEF LifeInv, WakeupsKept
<1>2. QED
  BY <1>1, LifeCorrect, PTL

\* SysTask clears no slot but the one of a process that has exited.
THEOREM OnlyExitedAreFreed == LifeSpec => OnlyExitedFreed
<1> DEFINE freed == \A p \in Slot : p \in Live /\ p \notin Live' => "HANGING" \in flags[p]
<1>1. LifeInv /\ [LifeNext]_lvars => [freed]_lvars
  <2> SUFFICES ASSUME LifeInv, LifeNext PROVE freed
    OBVIOUS
  <2>1. CASE SysTaskExit
    <3>1. "HANGING" \in flags[reaping]
      BY <2>1, FlagSets DEF SysTaskExit, LifeInv, ReapingRight, Hanging
    <3>2. QED
      BY <2>1, <3>1, Unlinked
  <2>2. CASE Fork
    <3>1. CASE list' = list
      BY <3>1 DEF Live
    <3>2. CASE \E c \in Alloc : list' = Append(list, c)
      BY <3>2, Linked DEF Alloc
    <3>3. QED
      BY <2>2, <3>1, <3>2 DEF Fork
  <2>3. CASE list' = list
    BY <2>3 DEF Live
  <2>4. ~SysTaskExit /\ ~Fork => list' = list
    BY DEF LifeNext, MMStep, MMWait, MMTake, Receiving, ForkAnswer, ForkDone, Exit, Report,
           ExitProc, Adopt, Walk, NextInList, WaitProc, NoChildren, Request, AwaitAnswer, Return
  <2>5. QED
    BY <2>1, <2>2, <2>3, <2>4
<1>2. QED
  BY <1>1, LifeCorrect, PTL DEF LifeSpec, OnlyExitedFreed

\* Where programs get to recv_msg in time, TaskMM never blocks on a process that
\* is gone, that it has stopped itself, or that does not come to receive.
THEOREM TaskMMNotStuck == Prompt => (LifeSpec => []MMNotStuck)
<1> SUFFICES ASSUME Prompt PROVE LifeSpec => []MMNotStuck
  OBVIOUS
<1>1. LifeInv => MMNotStuck
  BY FlagSets DEF LifeInv, TaskMMRight, Told, Owed, MMNotStuck
<1>2. QED
  BY <1>1, LifeCorrect, PTL

\* ... and between two requests nobody is stopped but who has exited, and who
\* has been refused a fork.
THEOREM StoppedForAReason == Prompt => (LifeSpec => []OnlyExitedStopped)
<1> SUFFICES ASSUME Prompt PROVE LifeSpec => []OnlyExitedStopped
  OBVIOUS
<1>1. LifeInv => OnlyExitedStopped
  <2> SUFFICES ASSUME LifeInv, MMIdle, NEW p \in Live
               PROVE  "STOP" \in flags[p] <=> "HANGING" \in flags[p] \/ ForkFailed(p)
    BY DEF OnlyExitedStopped
  <2>1. Forked = {}
    BY IdleMM
  <2>2. QED
    BY <2>1 DEF LifeInv, FlagsRight, Ended
<1>2. QED
  BY <1>1, LifeCorrect, PTL
=============================================================================
