CONSTANTS
  Workers = {}
  Procs = {p1, p2}
  MaxRetries = 2
  Calls <- MCCalls
  Kind <- MCKind
  FallbackEnabled = TRUE
  Broken = {1}
  MaxEdits = 1
  Disturbances = {}
SPECIFICATION Spec
INVARIANTS FailureMeansRejected
CHECK_DEADLOCK FALSE
