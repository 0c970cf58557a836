SPECIFICATION FairSpec
CONSTANTS
  Probes = 2
  SampleRoom = 1
  MeasurementRoom = 2
  EventRoom = 1
  ReportRate = 1
  Settings <- MCVariants
  MaxEvents = 2
  MaxPeriods = 3
INVARIANTS TypeOK NearReportRate OnlyLateEventsLost SeriesRegular AlarmsKnown
PROPERTIES EventsLeave HandlersReturn
CHECK_DEADLOCK FALSE
