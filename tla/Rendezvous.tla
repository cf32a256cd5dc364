----------------------------- MODULE Rendezvous -----------------------------
(***************************************************************************)
(* What OmochaOS promises to a program that uses send_msg and recv_msg: a  *)
(* synchronous rendezvous.  A message goes from the buffer of one process  *)
(* into the buffer of the process it is addressed to, exactly once, and    *)
(* both sides go on together; whoever comes first waits.  Queues, flags,   *)
(* the scheduler and the pending interrupts of the kernel are not visible. *)
(***************************************************************************)
EXTENDS Integers

CONSTANTS
  Proc,       \* the processes
  Anybody,    \* as the source of a receive: whoever comes
  Interrupt,  \* as the source of a message: the kernel
  Payload,    \* what a program's message carries
  Event,      \* what an interrupt message carries
  Nothing     \* a message that has not been filled in

VARIABLES
  sending,  \* the processes blocked in send_msg
  waiting,  \* the processes blocked in recv_msg; msg[p].sender is whom they await
  msg       \* the message buffer of each process

vars == <<sending, waiting, msg>>

Free(p)       == p \notin sending \cup waiting
Offers(p, f)  == {s \in sending : msg[s].receiver = p /\ f \in {Anybody, s}}
Accepts(r, p) == r \in waiting /\ msg[r].sender \in {Anybody, p}

Init ==
  /\ sending = {}
  /\ waiting = {}
  /\ msg = [p \in Proc |-> [sender |-> p, receiver |-> p, body |-> Nothing]]

\* p sends a message to r: into r's hands when r accepts it, else p offers it.
Send(p, r, d) ==
  LET m == [sender |-> p, receiver |-> r, body |-> d] IN
  /\ Free(p)
  /\ \/ /\ Accepts(r, p)
        /\ msg' = [msg EXCEPT ![p] = m, ![r] = m]
        /\ waiting' = waiting \ {r}
        /\ UNCHANGED sending
     \/ /\ ~Accepts(r, p)
        /\ msg' = [msg EXCEPT ![p] = m]
        /\ sending' = sending \cup {p}
        /\ UNCHANGED waiting

\* p receives a message that is on offer to it.
Take(p, s, f) ==
  /\ Free(p)
  /\ s \in Offers(p, f)
  /\ msg' = [msg EXCEPT ![p] = msg[s]]
  /\ sending' = sending \ {s}
  /\ UNCHANGED waiting

\* p receives when nothing it accepts is on offer.
Wait(p, f) ==
  /\ Free(p)
  /\ Offers(p, f) = {}
  /\ msg' = [msg EXCEPT ![p] = [sender |-> f, receiver |-> p, body |-> Nothing]]
  /\ waiting' = waiting \cup {p}
  /\ UNCHANGED sending

\* p gets an interrupt or exception message, blocked for it or asking for it.
Signal(p, n) ==
  /\ p \notin sending
  /\ p \in waiting => msg[p].sender \in {Anybody, Interrupt}
  /\ msg' = [msg EXCEPT ![p] = [@ EXCEPT !.sender = Interrupt, !.receiver = p, !.body = n]]
  /\ waiting' = waiting \ {p}
  /\ UNCHANGED sending

\* p asks process 0 who it is and is answered at once.
Reflect(p) ==
  /\ Free(p)
  /\ msg' = [msg EXCEPT ![p] = [@ EXCEPT !.receiver = p, !.body = Nothing]]
  /\ UNCHANGED <<sending, waiting>>

Next ==
  \E p \in Proc :
    \/ \E r \in Proc, d \in Payload : Send(p, r, d)
    \/ \E f \in Proc \cup {Anybody} : \E s \in Proc : Take(p, s, f)
    \/ \E f \in Proc \cup {Anybody, Interrupt} : Wait(p, f)
    \/ \E n \in Event : Signal(p, n)
    \/ Reflect(p)

Spec == Init /\ [][Next]_vars
=============================================================================
