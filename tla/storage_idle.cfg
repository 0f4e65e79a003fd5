CONSTANTS
  Clients = {c1}
  Devices = {d1, d2}
  Files = {f1, f2}
  NoDevice = NoDevice
  NoFile = NoFile
  Reporting = FALSE
  Faults = TRUE
  Crashes = TRUE
  IdleTimeout = 2
  DayLength = 5
  RetentionDays = 1
  MaxTime = 3
  QuietAfter = 1
  MaxRecords = 1
SPECIFICATION FairSpec
PROPERTIES
  StreamClosedOnlyWhenIdle
  OverdueSessionCloses
