SPECIFICATION FairSpec
CONSTANTS
  NumDocs = 4
  Invalid = {3}
  BatchSize = 3
  MaxRuns = 2
INVARIANTS
  EveryDocumentAccounted
  OkIsComplete
  CleanRestoreIsExact
PROPERTIES
  RunEnds
