SPECIFICATION FairSpec
CONSTANTS
  Worker = {w1}
  Task = {1, 2}
  HeartbeatInterval = 1
  Model = llm
  HeartbeatTimeout = 2
  CheckInterval = 1
  Lossy = TRUE
  Applies = TRUE
  Faulty = TRUE
  SlowLoads = TRUE
INVARIANTS
  TypeOK
  EnlistedWorkersBeat
PROPERTIES
  OnlyRegistrationEnlists
  SuspicionHeals
  DownWorkersFade
