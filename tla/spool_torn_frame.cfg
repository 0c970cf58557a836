SPECIFICATION Spec
CONSTANTS
  SpoolSize = 2
  Foreign = 0
  Shell = FALSE
  Faults = {"crash"}
  MaxFaults = 1
  MaxMessages = 2
INVARIANT OnlyCompleteFrames
CHECK_DEADLOCK FALSE
