\* execute_model raises.
SPECIFICATION Spec
CONSTANTS
  Requests = {a}
  MaxChunks = 1
  MaxBatches = 2
  QueueSize = 1
INVARIANTS
  ExecutedOnce
CHECK_DEADLOCK FALSE
