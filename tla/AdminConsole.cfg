SPECIFICATION Spec
CONSTANTS
  a = a
  b = b
  k1 = k1
  k2 = k2
  t1 = t1
  t2 = t2
  None = None
  Links = {a, b}
  Calls = {k1, k2}
  Tokens = {t1, t2}
  Lifetime = 1
  MaxTime = 1
SYMMETRY Symmetry
INVARIANTS
  QRCodeNamesItsLink
  ExpirationNamesItsLink
PROPERTIES
  OnlyConfirmedDeleted
  SessionsEnd
CHECK_DEADLOCK FALSE
