SPECIFICATION FairSpec
CONSTANTS
  NumItems = 3
  Jobs = 2
  Multipart = FALSE
  NoIndexes = FALSE
INVARIANTS
  TypeOK
  DoneIsComplete
  SkippedOnlyBehindAFailure
  CleanupIsTried
PROPERTIES
  OneWriterPerBlob
  AllOrNothing
  Termination
