CONSTANTS
  Workers = {w1}
  b1 = b1
  b2 = b2
  u1 = u1
  c1 = c1
  Calls = {u1, c1}
  Kind <- MCKind
  Times <- MCTimes
  Caps <- MCCaps
  SchedulerType = "linucb"
  BaseScore <- MCBaseScore
  MaxConcurrent <- MCMaxConcurrent
  Request <- MCRequest
  Disturbances = {"heartbeat_lost", "worker_stops", "client_gives_up", "connection_lost", "coordinator_restarts"}
SPECIFICATION FairSpec
INVARIANTS BookingsExact
PROPERTIES EveryCallAnswered DeadWorkerShunned LiveWorkerTrusted
