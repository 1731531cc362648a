SPECIFICATION Spec
CONSTANTS
  NumDumps = 2
  NumBlobs = 1
  Recents = {1}
  Cutoffs = {0, 1}
  Unsafes = {FALSE}
  MaxDeletes = 1
  Faults = FALSE
INVARIANT LatestIsComplete
