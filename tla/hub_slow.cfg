CONSTANTS
  Procs = {p1, p2}
  Keys = {"a", "b"}
  KeySize <- MCKeySize
  MaxSize = 4
  MaxStarts = 3
  Viewers = {v1}
  Events = {"e1", "e2"}
  SendCap = 2
  QueueCap = 1
  MaxEvents = 1
  Arms = {a1, a2}
  Dispatches = {"d1", "d2", "d3"}
  TaskOf <- MCTaskOf
  Parallel = 2
  Rewards <- MCRewards
  Unit = 12
  Hosts = {h1}
  Callers = {k1, k2}
  Breakers = {b1, b2}
  MaxRequests = 1
  MinRequests = 2
  MaxCount = 2
  MaxGenerations = 3
  MaxRetries = 2
  ExecTasks = {"x1", "x2"}
  IdOf <- MCIdOf
  WorkLoads <- MCWorkLoads
  DockerArchs = {"foreign"}
  Coords = {"k1", "k2"}
  GrpcPort <- MCGrpcPort
  HttpPort <- MCHttpPort
  Finders = {"f1"}
  Heard = {"w1", "w2"}
  MaxCallbacks = 3
  Services = {"coord", "worker"}
  MaxControls = 2
  MaxLives = 2
SPECIFICATION Spec
INVARIANTS SlowViewerHarmless
CHECK_DEADLOCK FALSE
