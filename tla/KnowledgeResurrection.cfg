SPECIFICATION Spec
CONSTANTS
  Client = {c1}
  Space = {finance}
  DocName = {report}
  DocIds <- MCSingles
  MaxSpaces = 2
  MaxDocs = 2
  MaxSyncs = 3
  Overlap = FALSE
  DeletesSyncing = TRUE
  StoreErrors = FALSE
  TableErrors = FALSE
  ReusesIds = FALSE
  SplitsIds = TRUE
  Crashes = FALSE
INVARIANTS
  OneDocumentPerName
