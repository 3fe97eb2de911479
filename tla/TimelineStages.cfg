\* The stages of a generation are its own.
SPECIFICATION Spec
CONSTANTS
  End = 2
  Generations = 2
INVARIANTS
  StagesOfTheGeneration
CHECK_DEADLOCK FALSE
