----------------------------- MODULE DevManager -----------------------------
(***************************************************************************)
(* TaskDEV of OmochaOS (modules/device/dev.c): programs call DEV_Read and  *)
(* DEV_Open of modules/dev.h, TaskDEV passes the request to the driver of  *)
(* the device and its answer back.  A driver may put a read off with       *)
(* DEV_STATUS_WAIT and answer later with DEV_UPD; TaskDEV serves others in *)
(* the meantime and keeps the request in the wait list of the device.      *)
(*                                                                         *)
(* The tree has no driver that registers: Driver is the protocol of the    *)
(* comment of dev.c.  DEV_WRITE and DEV_CLOSE go the way of DEV_OPEN.      *)
(***************************************************************************)
EXTENDS Rendezvous, SequencesExt

CONSTANTS
  App,     \* the programs
  Driver,  \* the processes that implement a device
  Dev,     \* TaskDEV
  Puts,    \* the sets of drivers that may put reads off
  Requests     \* the requests of programs: type and device

DEV_READ == 1
DEV_OPEN == 3
DEV_REG  == 10
DEV_UPD  == 12
DEV_STATUS_OK    == 0
DEV_STATUS_WAIT  == 1
DEV_STATUS_ERROR == 2

Device == 0..Cardinality(Driver)   \* the first entries of impl_list
None   == -1                       \* NULL

ASSUME DevAssumption ==
  /\ Proc = App \cup Driver \cup {Dev} /\ Dev \notin App \cup Driver /\ App \cap Driver = {}
  /\ IsFiniteSet(Driver) /\ 0 \notin Proc
  /\ Anybody \notin Proc /\ Interrupt \notin Proc \cup {Anybody}
  /\ Puts \subseteq SUBSET Driver
  /\ Requests \subseteq {DEV_READ, DEV_OPEN} \X Device

VARIABLES
  impl_list,       \* the entry of each device
  impl_free_list, impl_use_list,
  pc,              \* where each process is
  job,             \* TaskDEV: the request it has passed on
  asked,           \* each program's request, and what its driver has done of it
  put,             \* each driver's requests that it has put off
  defers           \* the drivers that may put reads off

dvars == <<vars, impl_list, impl_free_list, impl_use_list, pc, job, asked, put, defers>>
implv == <<impl_list, impl_free_list, impl_use_list>>

Unused == [InUse |-> FALSE, PID |-> 0, Has_Permission |-> FALSE, wait_list |-> << >>, next |-> None]

\* init_impl_list: the free list holds every entry in order (and one more than
\* were allocated).
DevInit ==
  /\ Init
  /\ impl_list = [d \in Device |-> [Unused EXCEPT !.next = IF d + 1 \in Device THEN d + 1 ELSE None]]
  /\ impl_free_list = 0 /\ impl_use_list = None
  /\ pc = [p \in Proc |-> IF p = Dev THEN "recv" ELSE IF p \in Driver THEN "start" ELSE "run"]
  /\ job = [app |-> 0, type |-> 0, device |-> 0]
  /\ asked = [a \in App |-> [type |-> 0, device |-> 0, done |-> FALSE]]
  /\ put = [d \in Driver |-> << >>]
  /\ defers \in Puts

At(p, l)   == pc[p] = l /\ Free(p)
Goto(p, l) == pc' = [pc EXCEPT ![p] = l]
Mail(t, d, s, a) == [type |-> t, major |-> d, status |-> s, app |-> a]

\* recv_msg(&msg, f), after which p is at l.
Receive(p, f, l) ==
  /\ Goto(p, l)
  /\ Wait(p, f) \/ \E s \in Proc : Take(p, s, f)

-----------------------------------------------------------------------------
(* Programs *)

\* DEV_Read and DEV_Open, of a device that may not be there
DevCall(a, t, d) ==
  /\ At(a, "run")
  /\ Goto(a, "sent")
  /\ Send(a, Dev, Mail(t, d, 0, 0))
  /\ asked' = [asked EXCEPT ![a] = [type |-> t, device |-> d, done |-> FALSE]]
  /\ UNCHANGED <<implv, job, put, defers>>

AwaitStatus(a) == At(a, "sent") /\ Receive(a, Dev, "answered") /\ UNCHANGED <<implv, job, asked, put, defers>>

CallEnds(a) == At(a, "answered") /\ Goto(a, "run") /\ UNCHANGED <<vars, implv, job, asked, put, defers>>

-----------------------------------------------------------------------------
(* Drivers *)

\* DEV_Register
Register(d) ==
  /\ At(d, "start")
  /\ Goto(d, "sent")
  /\ Send(d, Dev, Mail(DEV_REG, 0, 0, 0))
  /\ UNCHANGED <<implv, job, asked, put, defers>>

AwaitID(d) == At(d, "sent") /\ Receive(d, Dev, "serve") /\ UNCHANGED <<implv, job, asked, put, defers>>

Serve(d) == At(d, "serve") /\ Receive(d, Anybody, "got") /\ UNCHANGED <<implv, job, asked, put, defers>>

\* The answer to a request: it is done, or put off.
Answer(d) ==
  LET a == msg[d].body.app IN
  /\ At(d, "got") /\ msg[d].sender = Dev
  /\ Goto(d, "serve")
  /\ \/ /\ Send(d, Dev, Mail(0, 0, DEV_STATUS_OK, a))
        /\ asked' = [asked EXCEPT ![a].done = TRUE]
        /\ UNCHANGED put
     \/ /\ d \in defers /\ msg[d].body.type = DEV_READ
        /\ Send(d, Dev, Mail(0, 0, DEV_STATUS_WAIT, a))
        /\ put' = [put EXCEPT ![d] = Append(@, a)]
        /\ UNCHANGED asked
  /\ UNCHANGED <<implv, job, defers>>

\* The hardware is ready for a request that was put off ...
Ready(d) ==
  /\ put[d] # << >> /\ pc[d] = "got" /\ d \in waiting
  /\ UNCHANGED <<implv, pc, job, asked, put, defers>>
  /\ Signal(d, Nothing)

\* ... which is done, and DEV_UPD tells so.
Update(d) ==
  LET a == Head(put[d]) IN
  /\ At(d, "got") /\ msg[d].sender = Interrupt
  /\ Goto(d, "serve")
  /\ Send(d, Dev, Mail(DEV_UPD, 0, DEV_STATUS_OK, a))
  /\ asked' = [asked EXCEPT ![a].done = TRUE]
  /\ put' = [put EXCEPT ![d] = Tail(@)]
  /\ UNCHANGED <<implv, job, defers>>

-----------------------------------------------------------------------------
(* TaskDEV *)

Receiving(A) ==
  /\ At(Dev, "recv")
  /\ Goto(Dev, "handle")
  /\ A
  /\ UNCHANGED <<implv, job, asked, put, defers>>

DevTake(p) == Receiving(Take(Dev, p, Anybody))
DevWait    == Receiving(Wait(Dev, Anybody))

Handling(types) == At(Dev, "handle") /\ msg[Dev].body.type \in types

\* register_device_impl: the entry goes in front of the use list, and is then
\* its only one, because its next is cleared last.  What the driver has written
\* into its registering struct says whether it may write directly.
RegisterImpl ==
  /\ Handling({DEV_REG})
  /\ \E may \in BOOLEAN :
       impl_list' = [impl_list EXCEPT ![impl_free_list] =
         [@ EXCEPT !.InUse = TRUE, !.PID = msg[Dev].sender, !.Has_Permission = may, !.next = None]]
  /\ impl_use_list' = impl_free_list
  /\ impl_free_list' = impl_list[impl_free_list].next
  /\ Goto(Dev, "recv")
  /\ Send(Dev, msg[Dev].sender, Mail(DEV_REG, impl_free_list, 0, 0))
  /\ UNCHANGED <<job, asked, put, defers>>

\* A driver that has registered, and one that may not write directly.
Implemented(i) == i.InUse /\ i.PID # 0
Denied(i)      == Implemented(i) /\ ~i.Has_Permission

Forward(m, d) ==
  /\ job' = [app |-> msg[Dev].sender, type |-> m.type, device |-> d]
  /\ Goto(Dev, "ask")
  /\ Send(Dev, impl_list[d].PID, Mail(m.type, d, 0, msg[Dev].sender))
Drop == Goto(Dev, "recv") /\ UNCHANGED <<vars, job>>

\* A request is passed to the driver of the device; or refused (mutant: refused
\* without an answer); or dropped, where the driver may not write directly: panic
\* returns, and the program is not answered.
PassOnSilent ==
  LET m == msg[Dev].body
      i == impl_list[m.major] IN
  /\ Handling({DEV_READ, DEV_OPEN})
  /\ \/ Implemented(i) /\ ~Denied(i) /\ Forward(m, m.major)
     \/ (Denied(i) \/ ~Implemented(i)) /\ Drop
  /\ UNCHANGED <<implv, asked, put, defers>>
PassOn ==
  LET m == msg[Dev].body
      i == impl_list[m.major] IN
  /\ Handling({DEV_READ, DEV_OPEN})
  /\ \/ Implemented(i) /\ ~Denied(i) /\ Forward(m, m.major)
     \/ Denied(i) /\ Drop
     \/ /\ ~Implemented(i)
        /\ Goto(Dev, "recv")
        /\ Send(Dev, msg[Dev].sender, Mail(m.type, 0, DEV_STATUS_ERROR, 0))
        /\ UNCHANGED job
  /\ UNCHANGED <<implv, asked, put, defers>>

AskDriver ==
  /\ At(Dev, "ask")
  /\ Receive(Dev, impl_list[job.device].PID, "pass")
  /\ UNCHANGED <<implv, job, asked, put, defers>>

\* The driver's answer goes to the program, or the request to the wait list
\* (mutant: whatever the answer is).
PassBackAlways ==
  /\ At(Dev, "pass")
  /\ Goto(Dev, "recv")
  /\ Send(Dev, job.app, msg[Dev].body)
  /\ UNCHANGED <<implv, job, asked, put, defers>>
PassBack ==
  /\ At(Dev, "pass")
  /\ Goto(Dev, "recv")
  /\ IF msg[Dev].body.status # DEV_STATUS_WAIT
     THEN Send(Dev, job.app, msg[Dev].body) /\ UNCHANGED impl_list
     ELSE /\ impl_list' = [impl_list EXCEPT ![job.device].wait_list =
                             <<[app_pid |-> job.app, type |-> job.type]>> \o @]
          /\ UNCHANGED vars
  /\ UNCHANGED <<impl_free_list, impl_use_list, job, asked, put, defers>>

\* The use list as it is walked, and the devices of it whose driver p waits for a.
InUseList[d \in Device \cup {None}] == IF d = None THEN {} ELSE {d} \cup InUseList[impl_list[d].next]
Waiting(d, a) == {i \in DOMAIN impl_list[d].wait_list : impl_list[d].wait_list[i].app_pid = a}
Found(p, a)   == {d \in Device : d \in InUseList[impl_use_list] /\ impl_list[d].PID = p /\ Waiting(d, a) # {}}

\* DEV_UPD: the first request of the program is taken out of the list (mutant:
\* the first request of anybody) and the program told, if its driver may write
\* directly; what is not found is dropped.
FirstOfAny(d, a) == 1
FirstOf(d, a) == CHOOSE i \in Waiting(d, a) : \A j \in Waiting(d, a) : i <= j
UpdateImpl ==
  LET a == msg[Dev].body.app
      F == Found(msg[Dev].sender, a) IN
  /\ Handling({DEV_UPD}) /\ msg[Dev].body.status # DEV_STATUS_WAIT
  /\ Goto(Dev, "recv")
  /\ IF F = {} THEN UNCHANGED <<vars, impl_list>>
     ELSE \E d \in F :
            /\ impl_list' = [impl_list EXCEPT ![d].wait_list = RemoveAt(@, FirstOf(d, a))]
            /\ IF impl_list[d].Has_Permission
               THEN Send(Dev, a, [msg[Dev].body EXCEPT !.type = impl_list[d].wait_list[FirstOf(d, a)].type])
               ELSE UNCHANGED vars
  /\ UNCHANGED <<impl_free_list, impl_use_list, job, asked, put, defers>>

-----------------------------------------------------------------------------

DevStep == DevWait \/ (\E p \in Proc : DevTake(p)) \/ RegisterImpl \/ PassOn \/ AskDriver \/ PassBack \/ UpdateImpl
DriverStep(d) == Register(d) \/ AwaitID(d) \/ Serve(d) \/ Answer(d) \/ Update(d)

DevNext ==
  \/ DevStep
  \/ \E d \in Driver : DriverStep(d) \/ Ready(d)
  \/ \E a \in App :
       \/ \E r \in Requests : DevCall(a, r[1], r[2])
       \/ AwaitStatus(a)
       \/ CallEnds(a)

\* The scheduler is fair, the kernel's queue of TaskDEV lets nobody wait for
\* ever, and hardware is ready some day.  (All of these steps but Ready change pc.)
DevFairness ==
  /\ WF_pc(DevStep)
  /\ \A p \in App \cup Driver : SF_pc(DevTake(p))
  /\ \A d \in Driver : WF_pc(DriverStep(d)) /\ WF_waiting(Ready(d))
  /\ \A a \in App : WF_pc(AwaitStatus(a)) /\ WF_pc(CallEnds(a))

DevSpec == DevInit /\ [][DevNext]_dvars /\ DevFairness

-----------------------------------------------------------------------------
(* Properties *)

\* A program that gets an answer gets that of its own request: DEV_STATUS_OK only
\* when the driver has done what it asked, never DEV_STATUS_WAIT, whatever TaskDEV
\* has done for others since (comment of dev.c, "ret for app is Status").
AnswersMatch ==
  \A a \in App : At(a, "answered") =>
    \/ msg[a].body.status = DEV_STATUS_OK /\ asked[a].done
    \/ msg[a].body.status = DEV_STATUS_ERROR /\ ~asked[a].done

\* A request that a driver has put off stays in the wait list of its device, once,
\* until the driver says that it is done: nobody else's DEV_UPD takes it out.
PutOffKept ==
  \A d \in Driver, a \in App :
    a \in ToSet(put[d]) /\ ~(pc[Dev] \in {"ask", "pass"} /\ job.app = a) =>
      \E v \in Device : impl_list[v].PID = d /\ Cardinality(Waiting(v, a)) = 1

\* When no driver puts reads off, every request is answered, unless the device it
\* is for has got a driver that may not write directly: dev.c:213-216 neither passes
\* such a request on nor answers it.
RequestsAnswered ==
  \A a \in App :
    defers = {} /\ pc[a] \in {"sent", "answered"} ~> pc[a] = "run" \/ Denied(impl_list[asked[a].device])

\* "Application PID is not in wait list." (dev.c): TaskDEV finds what it is told of.
UpdatesFound ==
  At(Dev, "handle") /\ msg[Dev].sender # Interrupt /\ msg[Dev].body.type = DEV_UPD =>
    Found(msg[Dev].sender, msg[Dev].body.app) # {}
=============================================================================
