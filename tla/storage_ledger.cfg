CONSTANTS
  Clients = {c1}
  Devices = {d1}
  Files = {f1, f2}
  NoDevice = NoDevice
  NoFile = NoFile
  Reporting = TRUE
  Faults = TRUE
  Crashes = TRUE
  IdleTimeout = 1
  DayLength = 1
  RetentionDays = 1
  MaxTime = 2
  QuietAfter = 0
  MaxRecords = 2
SPECIFICATION Spec
SYMMETRY Symmetry
INVARIANTS
  IdleCloseLosesNothing
PROPERTIES
  SweepSparesUnreported
  ImplementsHandover
