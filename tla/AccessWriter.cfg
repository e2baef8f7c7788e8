SPECIFICATION Spec
CONSTANTS
  e1 = e1
  e2 = e2
  e3 = e3
  c1 = c1
  c2 = c2
  Nobody = Nobody
  Events = {e1, e2, e3}
  Closers = {c1, c2}
  Requested = 0
INVARIANTS
  TypeOK
  NoSendOnClosed
  Accounted
  NilMeansDrained
PROPERTIES
  NothingAcceptedLate
  TrackReturns
  Drains
  ImplementsSink
CHECK_DEADLOCK FALSE
