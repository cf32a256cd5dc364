--------------------------- MODULE PrivateMemory ---------------------------
(***************************************************************************)
(* What processes may rely on: each has a memory of its own.  fork starts  *)
(* a new process with a copy of the memory of its caller, and nobody else  *)
(* ever sees what a process writes afterwards.                             *)
(***************************************************************************)
CONSTANTS Process, Value

VARIABLE memory  \* the pages of each process and their contents

Init == \E p \in Process : DOMAIN memory = {p}

\* Only p's memory changes.
Others(p) == \A o \in DOMAIN memory \ {p} : memory'[o] = memory[o]

\* p, or the kernel for it, writes some of its pages.
Write(p) ==
  /\ DOMAIN memory' = DOMAIN memory
  /\ DOMAIN memory'[p] = DOMAIN memory[p]
  /\ \E x \in Value : \A v \in DOMAIN memory[p] : memory'[p][v] \in {memory[p][v], x}
  /\ Others(p)

Fork(p) ==
  \E c \in Process \ DOMAIN memory :
    /\ DOMAIN memory' = DOMAIN memory \cup {c}
    /\ memory'[p] = memory[p] /\ memory'[c] = memory[p]
    /\ Others(p)

Exit(p) ==
  /\ DOMAIN memory' = DOMAIN memory \ {p}
  /\ Others(p)

\* The heap of p grows, by a page with any contents, or shrinks.
Resize(p) ==
  /\ DOMAIN memory' = DOMAIN memory
  /\ \A v \in DOMAIN memory[p] \cap DOMAIN memory'[p] : memory'[p][v] = memory[p][v]
  /\ Others(p)

Next == \E p \in DOMAIN memory : Write(p) \/ Fork(p) \/ Exit(p) \/ Resize(p)

Spec == Init /\ [][Next]_memory
=============================================================================
