SPECIFICATION FairSpec
CONSTANTS
  m1 = m1
  m2 = m2
  d1 = d1
  d2 = d2
  Messages = {m1, m2}
  Downs = {d1, d2}
  Parts <- MCParts
  Settings <- MCSurplusAnswer
PROPERTY CallReturns
CHECK_DEADLOCK FALSE
