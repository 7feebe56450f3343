SPECIFICATION Spec
CONSTANTS
  Worker = {w1}
  Task = {1, 2}
  HeartbeatInterval = 90
  Model = llm
  HeartbeatTimeout = 6
  CheckInterval = 3
  Lossy = FALSE
  Applies = FALSE
  Faulty = FALSE
  SlowLoads = FALSE
INVARIANTS
  SuspectedBriefly
