SPECIFICATION Spec
CONSTANTS
  SpoolSize = 4
  Foreign = 1
  Shell = FALSE
  Faults = {"fs", "write", "short", "close", "unlink", "uplink", "uplink_late", "crash"}
  MaxFaults = 4
  MaxMessages = 5
INVARIANTS UndisturbedCallDrains 
PROPERTY KeepsPromise
CHECK_DEADLOCK FALSE
