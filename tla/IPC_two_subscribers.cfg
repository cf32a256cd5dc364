\* Keyboard and disk interrupts with a subscriber each.
CONSTANTS
  N = 3
  Irq = {1, 14}
  Subscriber <- TwoSubscribers
  ExcHandler = 0
  Faulters = {}
  Payload = {0}
  Debug = TRUE
SPECIFICATION Spec
INVARIANT GotIntHasInterrupt
CHECK_DEADLOCK FALSE
