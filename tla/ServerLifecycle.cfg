SPECIFICATION Spec
CONSTANTS
  r1 = r1
  r2 = r2
  r3 = r3
  Requests = {r1, r2, r3}
  Capacity = 1
INVARIANTS
  GracefulExit
  ReceiverOutlivesWriter
PROPERTIES
  SignalEndsProcess
CHECK_DEADLOCK FALSE
