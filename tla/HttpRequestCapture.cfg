\* One request with OBSERVER_CAPTURE_CONTENT=1.
SPECIFICATION Spec
CONSTANTS
  Requests = {r1}
  Filters = 1
  CaptureContent = TRUE
INVARIANTS
  EveryRequestReported
CHECK_DEADLOCK FALSE
