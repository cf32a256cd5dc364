\* A build with __DEBUG__: panic and assert stop the kernel.
CONSTANTS
  N = 4
  Irq = {1, 14}
  Subscriber <- OneSubscriber
  ExcHandler = 1
  Faulters = {3}
  Payload = {0}
  Debug = TRUE
SPECIFICATION Spec
VIEW LiveState
INVARIANTS TypeOK QueueInv RunningIsRunnable NoMissedRendezvous NoSendCycle PendingIsFlagged
PROPERTIES Handover NoOvertaking ImplementsRendezvous
\* panic() stops the kernel for good
CHECK_DEADLOCK FALSE
