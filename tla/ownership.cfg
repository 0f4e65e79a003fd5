\* Two processes that are started again and again, two recordings.
SPECIFICATION FairSpec
CONSTANTS
  p1 = p1
  p2 = p2
  r1 = r1
  r2 = r2
  nobody = nobody
  Procs = {p1, p2}
  Recordings = {r1, r2}
  Nobody = nobody
  Faults = TRUE
  Crashes = TRUE
INVARIANTS LedgerIsOwned FailedStartIsUndone
PROPERTY LeaseIsReturned
