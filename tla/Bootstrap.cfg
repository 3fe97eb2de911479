\* All targets, every choice of the switches, at most two unknown contracts.
\* The process may go on without importing anything more.
SPECIFICATION Spec
CONSTANTS
  Contracts <- MCContracts
INVARIANTS
  TypeOK
  InstrumentedOnce
  
CHECK_DEADLOCK FALSE
