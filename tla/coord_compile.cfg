CONSTANTS
  Workers = {w1, w2}
  Calls = {c1, c2}
  Kind <- MCKind
  Times <- MCTimes
  Caps <- MCCaps
  SchedulerType = "leastloaded"
  BaseScore <- MCBaseScore
  MaxConcurrent <- MCMaxConcurrent
  Request <- MCRequest
  Disturbances = {"heartbeat_lost", "worker_stops", "connection_lost"}
SYMMETRY Symmetry
SPECIFICATION Spec
INVARIANTS TypeOK WorkerLedger AverageBounded AdmissionBound ActiveTasksExact
PROPERTIES OnlyHandshakeRevives
