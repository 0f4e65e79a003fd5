SPECIFICATION FairSpec
CONSTANTS
  Requests = {r1, r2}
  Devices = {d1, d2}
  PipeCapacity = 2
  MaxSignals = 3
  MaxInterrupts = 1
INVARIANTS
  TeardownOrder
  ReleasedWhateverFails
  WaitsAreAnswered
PROPERTIES
  ShutdownEnds
CHECK_DEADLOCK FALSE
