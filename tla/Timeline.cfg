\* Every event of at most two generations, over the times 0..3.
SPECIFICATION Spec
CONSTANTS
  End = 3
  Generations = 2
INVARIANTS
  TypeOK
  Partition
  InsideParent
  
CHECK_DEADLOCK FALSE
