\* Parents are created before children.
SPECIFICATION Spec
CONSTANTS
  End = 2
  Generations = 1
INVARIANTS
  ParentsFirst
CHECK_DEADLOCK FALSE
