\* printf by two clients and reg_proc by three with keyboard interrupts, before
\* init exists: the pid of the last client is beyond the reach of reg_proc.
CONSTANTS
  N = 6
  Irq = {1}
  Subscriber <- Keyboard
  ExcHandler = 0
  Faulters = {}
  Payload <- Bodies
  Debug = FALSE
  TTY = 2
  Client = {3, 4, 5}
  Pid <- NoInit
  Ops = {2, 30}
  Calls <- LastOnlyRegisters
SPECIFICATION ServicesSpec
INVARIANTS RepliesMatch NamesUnique DeadLockCheckEnds
