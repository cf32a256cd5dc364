\* init and its descendants fork, exit and wait, also when no slot is left.
CONSTANTS
  Slot = {1, 2, 3}
  MM = 10
  Proc = {1, 2, 3, 10}
  Anybody = 20
  Interrupt = 21
  Payload = {}
  Event = {}
  Nothing = 0
  MaxLive = 4
  Prompt = TRUE
SPECIFICATION LifeSpec
INVARIANTS MMNotStuck NoLostWakeup OnlyExitedStopped ExitNeverReturns
PROPERTIES OnlyExitedFreed ForkReturns WaitReturns
\* every program may stop making calls
CHECK_DEADLOCK FALSE
