SPECIFICATION FairSpec
CONSTANTS
  NumItems = 3
  Jobs = 1
  Multipart = TRUE
  NoIndexes = TRUE
INVARIANTS
  CleanupIsTried
