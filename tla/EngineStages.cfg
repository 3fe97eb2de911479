\* Two requests of one or two chunks, three batches, two of them in flight.
SPECIFICATION Spec
CONSTANTS
  Requests = {a, b}
  MaxChunks = 2
  MaxBatches = 3
  QueueSize = 2
INVARIANTS
  TypeOK
  
  ScheduleAccounted
  ExecutionAccounted
  ContentionExact
SYMMETRY Symmetry
CHECK_DEADLOCK FALSE
