\* Scans while the recording grows, after it closed and after crashes.
SPECIFICATION Spec
CONSTANTS
  Zones = {"Shanghai", "London"}
  NoZone = "unknown"
  NoFix = "no fix"
  Lines <- MixedLines
  Faults = TRUE
  Crashes = TRUE
  MaxLines = 4
  MaxAgain = 0
CHECK_DEADLOCK FALSE
INVARIANTS
  ToldOnlyGrows
  OneZone
  ZoneIsWitnessed
  ToldIsTrue
