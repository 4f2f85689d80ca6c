CONSTANTS
  Workers = {w1}
  b1 = b1
  b2 = b2
  u1 = u1
  c1 = c1
  Calls = {b1, b2}
  Kind <- MCKind
  Times <- MCTimes
  Caps <- MCCaps
  SchedulerType = "simple"
  BaseScore <- MCBaseScore
  MaxConcurrent <- MCMaxConcurrent
  Request <- MCRequest
  Disturbances = {"heartbeat_lost", "worker_stops", "client_gives_up", "connection_lost", "coordinator_restarts"}
SPECIFICATION Spec
INVARIANTS CacheSound CountersExact
PROPERTIES ImplementsService
