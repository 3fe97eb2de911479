\* A queue of two and five events: it fills, drains, refills, and closes
\* in every state of both threads.
SPECIFICATION FairSpec
CONSTANTS
  Capacity  = 2
  MaxEvents = 5
INVARIANTS
  TypeOK
  Conservation
  InOrder
  StrandedOnlyRacing
  ClosedMeansDrained
  NeverBlocksTheLoop
PROPERTIES
  KeptIsHandled
  WorkerEnds
  KeepsThePromise
CHECK_DEADLOCK FALSE
