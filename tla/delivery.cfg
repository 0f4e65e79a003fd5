\* Four notifications, every kind of answer; delays in proportion to 60 s.
SPECIFICATION Spec
CONSTANTS
  Phases <- FourPhases
  Aborted = FALSE
  BackoffCap = 4
  MaxShift = 3
  RetryAfters = {0, 1, 6}
  Statuses = {200, 404, 503}
CHECK_DEADLOCK FALSE
INVARIANTS SentIsApplied RefusalIsFinal WaitIsJustified
