SPECIFICATION Spec
CONSTANTS
  Files = {f1}
  Old = {f1}
  NoFile = NoFile
  Faults = TRUE
  Restarts = TRUE
  Crashes = TRUE
  PowerLoss = TRUE
  Refusals = TRUE
  WebTimeouts = TRUE
  Causes = {"IDLE_TIMEOUT", "ABORTED"}
  MaxSize = 3
INVARIANTS NextIsMissing NothingDropped ReadyIsSound
PROPERTIES ImplementsPromise ImplementsHandover AcknowledgedIsApplied
