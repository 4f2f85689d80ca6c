CONSTANTS
  Workers = {}
  Procs = {p1, p2}
  MaxRetries = 2
  Calls <- MCCalls
  Kind <- MCKind
  FallbackEnabled = TRUE
  Broken = {1}
  MaxEdits = 1
  Disturbances = {"unavailable", "killed", "edit_text"}
SPECIFICATION Spec
SYMMETRY Symmetry
INVARIANTS ClientTypeOK SuccessIsCurrent OutageAbsorbed
PROPERTIES RemoteSuccessJustified
CHECK_DEADLOCK FALSE
