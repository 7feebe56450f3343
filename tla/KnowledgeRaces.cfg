SPECIFICATION FairSpec
CONSTANTS
  Client = {c1, c2}
  Space = {finance}
  DocName = {report}
  DocIds <- MCSingles
  MaxSpaces = 1
  MaxDocs = 1
  MaxSyncs = 2
  Overlap = TRUE
  DeletesSyncing = TRUE
  StoreErrors = TRUE
  TableErrors = TRUE
  ReusesIds = TRUE
  SplitsIds = TRUE
  Crashes = TRUE
INVARIANTS
  TypeOK
  RunningIsBeingSynced
PROPERTIES
  AbandonedStaysRunning
  SyncSettles
