SPECIFICATION FairSpec
CONSTANTS
  u1 = u1
  c1 = c1
  c2 = c2
  t1 = t1
  Messages = {u1, c1, c2, t1}
  Confirmed = {c1, c2}
  TooLong = {t1}
  Expiring = {u1}
  Modes = {"otaa", "abp"}
  CommandItems = 5
  SendItems = 2
  Retries = 2
  SetupLength = 2
  Faults = {"uart", "reset", "rfmux", "deaf", "line", "early", "slow", "noack", "nojoin", "reboot", "shell"}
  MaxFaults = 2
  MaxCalls = 2
INVARIANTS TypeOK SendOkMeansAcked JoinComing
PROPERTIES Recovers MessagesAnswered

CHECK_DEADLOCK FALSE
