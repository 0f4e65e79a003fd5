\* Two connections, four days, one day of retention, every call may fail.
SPECIFICATION Spec
CONSTANTS
  c1 = c1
  c2 = c2
  Conns = {c1, c2}
  Faults = TRUE
  Crashes = TRUE
  RetentionDays = 1
  MaxTime = 4
INVARIANTS
  OpenFileIsLinked
  ActiveIsInUse
  FailureHasACause
PROPERTY SweptIsOldAndClosed
