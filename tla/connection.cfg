\* Every storage call may fail, the client may reset, the server may shut down.
\* Chunks are up to one byte longer than the longest line, streams long enough
\* for two lines of two devices and an unfinished one, or three shorter lines.
SPECIFICATION Spec
CONSTANTS
  d1 = d1
  d2 = d2
  none = none
  Devices = {d1, d2}
  NoDevice = none
  MaxLine = 2
  Alphabet = {d1, d2, "lf", "blank", "nested"}
  MaxChunk = 3
  MaxSent = 5
  Faults = TRUE
  Resets = TRUE
CHECK_DEADLOCK FALSE
INVARIANTS
  ChunkingIsInvisible
  BufferBounded
  LossIsOneRead
  CleanEndIsComplete
  LedgerIsTrue
