SPECIFICATION Spec
CONSTANTS
  Worker = {w1}
  Task = {1, 2}
  HeartbeatInterval = 1
  Model = llm
  HeartbeatTimeout = 6
  CheckInterval = 3
  Lossy = FALSE
  Applies = TRUE
  Faulty = TRUE
  SlowLoads = FALSE
INVARIANTS
  SuspectedBriefly
