SPECIFICATION Spec
CONSTANTS
  m1 = m1
  m2 = m2
  d1 = d1
  d2 = d2
  Messages = {m1, m2}
  Downs = {d1, d2}
  Parts <- MCParts
  Settings <- MCLateAnswer
INVARIANT SuccessMeansDelivered
CHECK_DEADLOCK FALSE
