CONSTANTS
  Clients = {c1}
  Devices = {d1}
  Files = {f1, f2}
  NoDevice = NoDevice
  NoFile = NoFile
  Reporting = FALSE
  Faults = TRUE
  Crashes = FALSE
  IdleTimeout = 1
  DayLength = 1
  RetentionDays = 1
  MaxTime = 2
  QuietAfter = 1
  MaxRecords = 2
SPECIFICATION Spec

INVARIANTS NoInvalidSession
