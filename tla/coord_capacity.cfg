CONSTANTS
  Workers = {w1}
  Calls = {c1, c2}
  Kind <- MCKind
  Times <- MCTimes
  Caps <- MCCaps
  SchedulerType = "p2c"
  BaseScore <- MCBaseScore
  MaxConcurrent <- MCMaxConcurrent
  Request <- MCRequest
  Disturbances = {}
SPECIFICATION Spec
INVARIANTS CapacityRespected
CHECK_DEADLOCK FALSE
