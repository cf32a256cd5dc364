\* A child whose parent exits while its grandparent waits.
CONSTANTS
  Slot = {1, 2, 3}
  MM = 10
  Proc = {1, 2, 3, 10}
  Anybody = 20
  Interrupt = 21
  Payload = {}
  Event = {}
  Nothing = 0
  MaxLive = 3
  Prompt = TRUE
SPECIFICATION LifeSpec
INVARIANT OrphansAdopted
\* every program may stop making calls
CHECK_DEADLOCK FALSE
