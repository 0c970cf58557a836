SPECIFICATION FairSpec
CONSTANTS
  SpoolSize = 2
  Foreign = 0
  Shell = TRUE
  Faults = {"fs", "listing", "write", "short", "close", "read", "unlink", "uplink", "uplink_late", "crash", "unreadable", "clock"}
  MaxFaults = 1
  MaxMessages = 3
INVARIANTS TypeOK EveryCopyCostsAFault
PROPERTY CallReturns
CHECK_DEADLOCK FALSE
