\* A program that forks is preempted between send_msg and recv_msg.
CONSTANTS
  Slot = {1, 2, 3}
  MM = 10
  Proc = {1, 2, 3, 10}
  Anybody = 20
  Interrupt = 21
  Payload = {}
  Event = {}
  Nothing = 0
  MaxLive = 3
  Prompt = FALSE
SPECIFICATION LifeSpec
INVARIANT MMNotStuck
\* every program may stop making calls
CHECK_DEADLOCK FALSE
