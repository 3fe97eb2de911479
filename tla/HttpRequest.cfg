\* Two overlapping requests, three filters in the chain, content
\* capture off as in the default configuration.
SPECIFICATION Spec
CONSTANTS
  Requests = {r1, r2}
  Filters = 3
  CaptureContent = FALSE
INVARIANTS
  TypeOK
  InflightAndCounted
  OkIsServed
  ServedIsOk
  FilterContract
PROPERTY KeepsTheReport
SYMMETRY Symmetry
CHECK_DEADLOCK FALSE
