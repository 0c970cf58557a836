SPECIFICATION FairSpec
CONSTANTS
  u1 = u1
  u2 = u2
  factory = factory
  Updates = {u1, u2}
  Factory = factory
  Nothing = Nothing
  Chunks = 3
  Faults = {"reset", "uplink", "uplink_late", "downlink", "downlink_again", "flash", "settings", "config", "restart"}
  MaxFaults = 3
  MaxPushes = 2
INVARIANTS TypeOK InitializedMeansSynced
PROPERTIES OnlyWholeImages ReportsTrue Initializes AnnouncedIsFetched
