SPECIFICATION Spec
CONSTANTS
  c1 = c1
  c2 = c2
  NULL = NULL
  Callers = {c1, c2}
  NoCaller = NULL
  RingSize = 8
  Settings <- MCMachine
INVARIANTS TypeOK NeverStalls ConnectedHasSocket ReconnectResumes RequestNotForgotten SuccessMeansReceived ParamValid
SYMMETRY MCSymmetry
CHECK_DEADLOCK FALSE
