------------------------------- MODULE MC_IPC -------------------------------
(***************************************************************************)
(* Instances of IPC for TLC: who subscribes which interrupt.               *)
(***************************************************************************)
EXTENDS IPC

\* One subscriber, as when TaskTTY has subscribed the keyboard (irq 1).
OneSubscriber == [i \in Irq |-> 2]

\* Two, as while TaskHD (irq 14) identifies the disks.
TwoSubscribers == [i \in Irq |-> IF i = 1 THEN 2 ELSE 1]

\* What the rest of a behaviour depends on: the buffer of a process that is not
\* blocked is written before it is read again, and so is an unused excData.
LiveState ==
  <<status, [p \in Proc |-> IF Runnable(status, p) THEN <<>> ELSE <<msg[p]>>],
    queue, avail, excAvail, IF excAvail THEN excData ELSE 0, running, mode>>
=============================================================================
