SPECIFICATION Spec
CONSTANTS
  NumDumps = 3
  NumBlobs = 1
  Recents = {1}
  Cutoffs = {0, 3}
  Unsafes = {TRUE, FALSE}
  MaxDeletes = 2
  Faults = TRUE
INVARIANTS
  HarmOnlyByDelete
  DeletedIsGone
PROPERTIES
  LossWasAsked
