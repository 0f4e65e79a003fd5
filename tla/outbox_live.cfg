SPECIFICATION FairSpec
CONSTANTS
  Files = {f1, f2}
  Old = {}
  NoFile = NoFile
  Faults = FALSE
  Restarts = FALSE
  Crashes = FALSE
  PowerLoss = FALSE
  Refusals = TRUE
  WebTimeouts = FALSE
  Causes = {"IDLE_TIMEOUT"}
  MaxSize = 1
PROPERTIES ClosedIsReported
