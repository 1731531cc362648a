SPECIFICATION FairSpec
CONSTANTS
  InitialPartSize = 2
  PartsPerDoubling = 2
  MaxDoublings = 1
  Capacity = 2
  MaxWrite = 3
  MaxBytes = 16
INVARIANTS
  CompletedIsWhole
  NothingLostInFlight
  FinishBringsTheCause
  LeftoverHasItsReason
PROPERTIES
  WriterReturns
  BlobIsAtomic
