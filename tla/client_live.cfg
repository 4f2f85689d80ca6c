CONSTANTS
  Workers = {}
  Procs = {p1}
  MaxRetries = 3
  Calls <- MCCalls
  Kind <- MCKind
  FallbackEnabled = TRUE
  Broken = {1}
  MaxEdits = 1
  Disturbances = {"no_coordinator", "unavailable", "rpc_error", "coordinator_dies", "preprocess_fails", "local_trouble", "edit_text", "edit_deps", "edit_while_building", "killed"}
SPECIFICATION FairSpec
PROPERTIES EveryInvocationEnds
CHECK_DEADLOCK FALSE
