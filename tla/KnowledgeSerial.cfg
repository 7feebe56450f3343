SPECIFICATION Spec
CONSTANTS
  Client = {c1}
  Space = {finance}
  DocName = {report, notes}
  DocIds <- MCBatches
  MaxSpaces = 2
  MaxDocs = 2
  MaxSyncs = 3
  Overlap = FALSE
  DeletesSyncing = FALSE
  StoreErrors = FALSE
  TableErrors = FALSE
  ReusesIds = TRUE
  SplitsIds = TRUE
  Crashes = FALSE
INVARIANTS
  OneDocumentPerName
  OneSpacePerName
  OneThreadPerDocument
  FinishedIsComplete
  NothingOrphaned
