SPECIFICATION Spec
CONSTANTS
  c1 = c1
  c2 = c2
  NULL = NULL
  Callers = {c1}
  NoCaller = NULL
  RingSize = 8
  Settings <- MCReconnects
INVARIANTS ConnectedMeansConnected
CHECK_DEADLOCK FALSE
