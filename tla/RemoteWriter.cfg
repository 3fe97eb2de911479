\* Two processes, one after the other, whose snapshots may all be in flight.
SPECIFICATION FairSpec
CONSTANTS
  MaxClock = 2
  MaxPushes = 3
  MaxGen = 2
  MaxSteps = 1
INVARIANTS
  TypeOK
  OfflineIsLast
  
  NoSilentLoss
PROPERTIES
  ViewMovesForward
  CloseEnds
CHECK_DEADLOCK FALSE
