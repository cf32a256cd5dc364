\* printf by two clients with keyboard interrupts, under fairness.
CONSTANTS
  N = 5
  Irq = {1}
  Subscriber <- Keyboard
  ExcHandler = 0
  Faulters = {}
  Payload <- Bodies
  Debug = FALSE
  TTY = 2
  Client = {3, 4}
  Pid <- WithInit
  Ops = {30}
  Calls <- AllCalls
SPECIFICATION ServicesSpec

PROPERTIES CallsReturn InterruptsDelivered
