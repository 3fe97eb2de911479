\* A prompt is done, and its first token is not yet scheduled.
SPECIFICATION Spec
CONSTANTS
  Requests = {a, b}
  MaxChunks = 2
  MaxBatches = 3
  QueueSize = 2
INVARIANTS
  ContentionIsMidPrefill
CHECK_DEADLOCK FALSE
