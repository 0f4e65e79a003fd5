CONSTANTS
  Clients = {c1, c2}
  Devices = {d1}
  Files = {f1, f2}
  NoDevice = NoDevice
  NoFile = NoFile
  Reporting = FALSE
  Faults = TRUE
  Crashes = FALSE
  IdleTimeout = 1
  DayLength = 1
  RetentionDays = 1
  MaxTime = 3
  QuietAfter = 3
  MaxRecords = 2
SPECIFICATION Spec
SYMMETRY Symmetry
INVARIANTS
  OneStreamPerDevice
  ActiveArchiveOnDisk
  CreationKeepsDirectory
  CountedRecordsInFile
PROPERTIES
  NothingStoredAfterCloseAll
