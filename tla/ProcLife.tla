------------------------------ MODULE ProcLife ------------------------------
(***************************************************************************)
(* fork, exit and wait of OmochaOS: the user programs with the calls of    *)
(* lib/libos.c, TaskMM (modules/memory/memory.c, fork.c, exit.c) and what  *)
(* SysTask does for it, over the rendezvous that the kernel implements.    *)
(*                                                                         *)
(* Between two system calls TaskMM takes one step.  It asks SysTask by     *)
(* rendezvous too, and SysTask answers in order, so its requests are part  *)
(* of TaskMM's steps, possible when SysTask has finished the EXIT_PROC     *)
(* that TaskMM sent before: that one has no reply, and SysTask handles it  *)
(* while TaskMM goes on.  Memory is left out; list holds the user          *)
(* processes only, after the kernel tasks, which are all children of init. *)
(***************************************************************************)
EXTENDS Rendezvous, FiniteSets, SequencesExt

CONSTANTS
  Slot,     \* the slots of proc_table for user processes; 1 is init
  MM,       \* TaskMM
  MaxLive,  \* bound: programs fork only below this number of processes
  Prompt    \* does a program reach recv_msg before TaskMM handles its request?

Root == 1   \* the process init
Pid  == Slot \cup {0}

MEM_FORK_PROC == 3
MEM_EXIT_PROC == 4
MEM_WAIT_PROC == 5
Failure       == -1

ASSUME LifeAssumption ==
  /\ Slot \subseteq Nat \ {0}
  /\ Root \in Slot
  /\ MM \notin Slot
  /\ Proc = Slot \cup {MM}
  /\ Anybody \notin Proc /\ Nothing # Failure
  /\ MaxLive \in Nat
  /\ Prompt \in BOOLEAN

VARIABLES
  list,     \* the user processes in proc_list
  parent,   \* process.parent_pid
  flags,    \* the flags STOP, WATING, HANGING of process.status
  pc,       \* where each program and TaskMM is
  call,     \* the request a user program makes
  subject,  \* TaskMM: the process it forks, or ends
  child,    \* TaskMM: the forked process, the one it reports, or its place in the list
  after,    \* TaskMM: what it does after a report
  reaping   \* the process that SysTask has been told to remove, or 0

mvars == <<subject, child, after>>
lvars == <<vars, list, parent, flags, pc, call, mvars, reaping>>

Live == ToSet(list)

LifeInit ==
  /\ Init
  /\ list = <<Root>>
  /\ parent = [p \in Pid |-> 0]
  /\ flags = [p \in Pid |-> {}]
  /\ pc = [p \in Proc |-> IF p = MM THEN "recv" ELSE IF p = Root THEN "run" ELSE "free"]
  /\ call = [p \in Slot |-> MEM_WAIT_PROC]
  /\ subject = 0 /\ child = 0 /\ after = "recv" /\ reaping = 0

Goto(p, l) == pc' = [pc EXCEPT ![p] = l]

-----------------------------------------------------------------------------
(* User programs *)

Runs(u, l) == u \in Live /\ pc[u] = l /\ Free(u) /\ "STOP" \notin flags[u]

Forking == {v \in Live : call[v] = MEM_FORK_PROC /\ pc[v] # "run"}

\* fork(), exit() and wait(): a request to TaskMM; init never exits.
Request(u, op) ==
  /\ Runs(u, "run")
  /\ op = MEM_EXIT_PROC => u # Root
  /\ op = MEM_FORK_PROC => Cardinality(Live) + Cardinality(Forking) < MaxLive
  /\ Send(u, MM, op)
  /\ Goto(u, "sent")
  /\ call' = [call EXCEPT ![u] = op]
  /\ UNCHANGED <<list, parent, flags, mvars, reaping>>

\* ... and the receive of the answer,
AwaitAnswer(u) ==
  /\ Runs(u, "sent")
  /\ Take(u, MM, MM) \/ Wait(u, MM)
  /\ Goto(u, "ret")
  /\ UNCHANGED <<list, parent, flags, call, mvars, reaping>>

\* with which the call returns.
Return(u) ==
  /\ Runs(u, "ret")
  /\ Goto(u, "run")
  /\ UNCHANGED <<vars, list, parent, flags, call, mvars, reaping>>

-----------------------------------------------------------------------------
(* TaskMM *)

Handles(l) == pc[MM] = l /\ Free(MM)
Sender     == msg[MM].sender
Handling(op) == Handles("handle") /\ msg[MM].body = op /\ reaping = 0

Receiving(A) ==
  /\ Handles("recv")
  /\ A
  /\ Goto(MM, "handle")
  /\ UNCHANGED <<list, parent, flags, call, mvars, reaping>>

MMTake(u) == Receiving(Take(MM, u, Anybody))
MMWait    == Receiving(Wait(MM, Anybody))

\* ALLOC_PROC: the first free slot, if there is one.
Alloc == {c \in Slot \ Live : \A d \in Slot \ Live : c <= d}

\* fork_proc: the parent is stopped, the child gets the first free slot and a
\* copy of everything, its status and message buffer included.  Without a slot
\* the parent stays stopped.
Fork ==
  LET u == Sender IN
  /\ Handling(MEM_FORK_PROC)
  /\ Prompt => u \in waiting
  /\ subject' = u
  /\ UNCHANGED <<sending, after, reaping>>
  /\ \/ /\ Alloc = {}
        /\ flags' = [flags EXCEPT ![u] = @ \cup {"STOP"}]
        /\ Goto(MM, "forkFailed")
        /\ UNCHANGED <<waiting, msg, list, parent, call, child>>
     \/ \E c \in Alloc :
        /\ child' = c
        /\ list' = Append(list, c)
        /\ parent' = [parent EXCEPT ![c] = u]
        /\ flags' = [flags EXCEPT ![u] = @ \cup {"STOP"}, ![c] = flags[u] \cup {"STOP"}]
        /\ waiting' = IF u \in waiting THEN waiting \cup {c} ELSE waiting
        /\ msg' = [msg EXCEPT ![c] = msg[u]]
        /\ call' = [call EXCEPT ![c] = call[u]]
        /\ pc' = [pc EXCEPT ![c] = pc[u], ![MM] = "forkParent"]

\* The answers to the parent, then to the child; then both may run.
ForkAnswer ==
  /\ \/ Handles("forkFailed") /\ Send(MM, subject, Failure) /\ Goto(MM, "recv")
     \/ Handles("forkParent") /\ Send(MM, subject, child) /\ Goto(MM, "forkChild")
     \/ Handles("forkChild") /\ Send(MM, child, 0) /\ Goto(MM, "forkDone")
  /\ UNCHANGED <<list, parent, flags, call, mvars, reaping>>

ForkDoneParentOnly ==  \* mutant: the child stays stopped
  /\ Handles("forkDone")
  /\ flags' = [flags EXCEPT ![subject] = @ \ {"STOP"}]
  /\ Goto(MM, "recv")
  /\ UNCHANGED <<vars, list, parent, call, mvars, reaping>>

ForkDoneChildOnly ==   \* mutant: the parent stays stopped
  /\ Handles("forkDone")
  /\ flags' = [flags EXCEPT ![child] = @ \ {"STOP"}]
  /\ Goto(MM, "recv")
  /\ UNCHANGED <<vars, list, parent, call, mvars, reaping>>

ForkDone ==
  /\ Handles("forkDone")
  /\ flags' = [flags EXCEPT ![subject] = @ \ {"STOP"}, ![child] = @ \ {"STOP"}]
  /\ Goto(MM, "recv")
  /\ UNCHANGED <<vars, list, parent, call, mvars, reaping>>

WaitsAlways(p) == TRUE                  \* mutant: nobody asks whether the parent waits
Waits(p)       == "WATING" \in flags[p]

EndedNoStop == {"HANGING"}              \* mutant: the process may still run
Ended       == {"STOP", "HANGING"}

\* set_proc_exit and the first half of mem_exit_proc: a parent that waits is
\* told, else the process hangs until it does.
Exit ==
  LET u     == Sender
      ended == [flags EXCEPT ![u] = Ended] IN
  /\ Handling(MEM_EXIT_PROC)
  /\ subject' = u
  /\ waiting' = waiting \ {u}
  /\ IF Waits(parent[u])
     THEN /\ flags' = [ended EXCEPT ![parent[u]] = @ \ {"WATING"}]
          /\ child' = u
          /\ after' = "adopt"
          /\ Goto(MM, "report")
     ELSE /\ flags' = ended
          /\ Goto(MM, "adopt")
          /\ UNCHANGED <<child, after>>
  /\ UNCHANGED <<sending, msg, list, parent, call, reaping>>

\* send_exit_to_parent: the report to the parent, then EXIT_PROC to SysTask.
Report ==
  /\ Handles("report")
  /\ Send(MM, parent[child], child)
  /\ Goto(MM, "exitProc")
  /\ UNCHANGED <<list, parent, flags, call, mvars, reaping>>

ExitProcOfParent ==  \* mutant: the wrong pid
  /\ Handles("exitProc")
  /\ reaping = 0
  /\ reaping' = parent[child]
  /\ Goto(MM, after)
  /\ UNCHANGED <<vars, list, parent, flags, call, mvars>>

ExitProc ==
  /\ Handles("exitProc")
  /\ reaping = 0
  /\ reaping' = child
  /\ Goto(MM, after)
  /\ UNCHANGED <<vars, list, parent, flags, call, mvars>>

\* SysTask unlinks the process and clears its slot, proc->pid and all.
SysTaskExit ==
  /\ reaping # 0
  /\ \E i \in DOMAIN list : list[i] = reaping /\ list' = RemoveAt(list, i)
  /\ parent' = [parent EXCEPT ![reaping] = 0]
  /\ flags' = [flags EXCEPT ![reaping] = {}]
  /\ Goto(reaping, "free")
  /\ reaping' = 0
  /\ UNCHANGED <<vars, call, mvars>>

\* The second half of mem_exit_proc walks the list for the children of proc->pid,
\* which reads 0 once SysTask has cleared the slot.
PidField(p) == IF p \in Live THEN p ELSE 0

Adopt ==
  /\ Handles("adopt")
  /\ reaping = 0
  /\ child' = Head(list)
  /\ Goto(MM, "walk")
  /\ UNCHANGED <<vars, list, parent, flags, call, subject, after, reaping>>

Walk ==
  LET orphan == parent[child] = PidField(subject)
      told   == orphan /\ "HANGING" \in flags[child] /\ Waits(Root) IN
  /\ Handles("walk")
  /\ parent' = IF orphan THEN [parent EXCEPT ![child] = Root] ELSE parent
  /\ flags' = IF told THEN [flags EXCEPT ![Root] = @ \ {"WATING"}] ELSE flags
  /\ after' = "next"
  /\ Goto(MM, IF told THEN "report" ELSE "next")
  /\ UNCHANGED <<vars, list, call, subject, child, reaping>>

\* p = p->next, which is NULL too when SysTask has cleared p in the meantime.
NextInList ==
  /\ Handles("next")
  /\ \/ /\ child \in Live
        /\ Last(list) # child
        /\ \E i \in DOMAIN list : list[i] = child /\ child' = list[i + 1]
        /\ Goto(MM, "walk")
     \/ /\ child \in Live => Last(list) = child
        /\ Goto(MM, "recv")
        /\ UNCHANGED child
  /\ UNCHANGED <<vars, list, parent, flags, call, subject, after, reaping>>

\* wait_proc: the first child of the list that hangs is reported; without one
\* the caller waits, unless it has no children.
HangingFirst(u) ==  \* mutant: only the first child of the list is looked at
  {i \in DOMAIN list : /\ parent[list[i]] = u /\ "HANGING" \in flags[list[i]]
                       /\ \A j \in 1..(i - 1) : parent[list[j]] # u}

HangingChildren(u) == {i \in DOMAIN list : parent[list[i]] = u /\ "HANGING" \in flags[list[i]]}
HasChildren(u)     == u = Root \/ \E p \in Live : parent[p] = u

WaitProc ==
  LET u == Sender IN
  /\ Handling(MEM_WAIT_PROC)
  /\ subject' = u
  /\ \/ \E i \in HangingChildren(u) :
          /\ \A j \in HangingChildren(u) : i <= j
          /\ child' = list[i]
          /\ after' = "recv"
          /\ Goto(MM, "report")
          /\ UNCHANGED flags
     \/ /\ HangingChildren(u) = {}
        /\ IF HasChildren(u)
           THEN flags' = [flags EXCEPT ![u] = @ \cup {"WATING"}] /\ Goto(MM, "recv")
           ELSE UNCHANGED flags /\ Goto(MM, "none")
        /\ UNCHANGED <<child, after>>
  /\ UNCHANGED <<vars, list, parent, call, reaping>>

NoChildren ==
  /\ Handles("none")
  /\ Send(MM, subject, Failure)
  /\ Goto(MM, "recv")
  /\ UNCHANGED <<list, parent, flags, call, mvars, reaping>>

-----------------------------------------------------------------------------

MMStep ==
  \/ MMWait \/ (\E u \in Slot : MMTake(u))
  \/ Fork \/ ForkAnswer \/ ForkDone
  \/ Exit \/ Report \/ ExitProc \/ Adopt \/ Walk \/ NextInList
  \/ WaitProc \/ NoChildren

LifeNext ==
  \/ MMStep
  \/ SysTaskExit
  \/ \E u \in Slot :
       \/ \E op \in {MEM_FORK_PROC, MEM_EXIT_PROC, MEM_WAIT_PROC} : Request(u, op)
       \/ AwaitAnswer(u)
       \/ Return(u)

\* The scheduler is fair to every process that may run, and the queue of TaskMM
\* to the senders in it (NoOvertaking and CallsReturn of the kernel's runs); only
\* whether a program makes another request is up to it.
LifeFairness ==
  /\ WF_lvars(MMStep)
  /\ WF_lvars(SysTaskExit)
  /\ \A u \in Slot :
       WF_lvars(AwaitAnswer(u)) /\ WF_lvars(Return(u)) /\ SF_lvars(MMTake(u))

LifeSpec == LifeInit /\ [][LifeNext]_lvars /\ LifeFairness

-----------------------------------------------------------------------------
(* Properties *)

MMIdle == pc[MM] = "recv" \/ MM \in waiting

\* Its parent has been told, and it is only on its way out.
Reported(c) == reaping = c \/ (pc[MM] = "exitProc" /\ child = c)

\* The comments `send to parent proc' and `send to child proc' of MEM_FORK_PROC:
\* TaskMM never blocks on a process that can not receive: one that is gone, that
\* it has itself stopped, or that is not on its way to receive from TaskMM.
MMNotStuck ==
  MM \in sending =>
    LET r == msg[MM].receiver IN
    r \in Live /\ "STOP" \notin flags[r] /\ pc[r] = "sent"

\* No wakeup is lost: between two requests nobody waits who has a child that has
\* exited already.
NoLostWakeup ==
  MMIdle => \A p, c \in Live :
    Waits(p) /\ "HANGING" \in flags[c] /\ ~Reported(c) => parent[c] # p

\* Between two requests a process is stopped only if it has exited, or if its fork
\* found no slot: fork_proc stops both sides and the handler lets both go on, but
\* after a failure it never does.
ForkFailed(p) == call[p] = MEM_FORK_PROC /\ pc[p] = "ret" /\ msg[p].body = Failure

OnlyExitedStopped ==
  MMIdle => \A p \in Live : "STOP" \in flags[p] <=> "HANGING" \in flags[p] \/ ForkFailed(p)

\* exit() does not return, although it is a call like the others.
ExitNeverReturns ==
  \A u \in Live : call[u] = MEM_EXIT_PROC /\ pc[u] = "ret" => ~Runs(u, "ret")

\* A slot is taken from a process only after it has exited.
OnlyExitedFreed ==
  [][\A p \in Slot : p \in Live /\ p \notin Live' => "HANGING" \in flags[p]]_lvars

\* The comment `assign to init proc' of mem_exit_proc: between two requests the
\* parent of every process is there; nobody is left with a parent that is gone.
OrphansAdopted ==
  MMIdle /\ reaping = 0 => \A p \in Live \ {Root} : parent[p] \in Live

\* fork() comes back, in the parent and in the child, unless it finds no slot.
ForkReturns ==
  \A u \in Slot : pc[u] \in {"sent", "ret"} /\ call[u] = MEM_FORK_PROC ~> pc[u] = "run" \/ ForkFailed(u)

\* A program that waits is told when a child of its hangs, unless it has been told.
WaitReturns ==
  \A p, c \in Slot :
    (/\ call[p] = MEM_WAIT_PROC /\ pc[p] = "ret"
     /\ parent[c] = p /\ "HANGING" \in flags[c] /\ ~Reported(c))
      ~> pc[p] = "run"
=============================================================================
