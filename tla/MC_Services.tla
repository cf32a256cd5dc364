---------------------------- MODULE MC_Services ----------------------------
(***************************************************************************)
(* Instances of Services for TLC.                                          *)
(***************************************************************************)
EXTENDS Services

\* TaskTTY, process 2, has subscribed the keyboard.
Keyboard == [i \in Irq |-> 2]

\* The last process of the list is init, or pid 1 is free and a pid is beyond the
\* reach of reg_proc.
WithInit == [p \in Proc |-> IF p = 0 THEN 0 ELSE IF p = N - 1 THEN 1 ELSE p + 1]
NoInit   == [p \in Proc |-> IF p = 0 THEN 0 ELSE p + 1]

\* Everybody calls everything, or the last client only registers.
AllCalls          == [c \in Client |-> Ops]
LastOnlyRegisters == [c \in Client |-> IF c = N - 1 THEN {REG_PROC} ELSE Ops]

Bodies == {Failure, GET_TICKS, REG_PROC, UNREG_PROC, QUERY_PROC,
           PROC_VIR2PHY, TTY_WRITE} \cup Proc
=============================================================================
