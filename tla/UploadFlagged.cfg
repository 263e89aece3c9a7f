SPECIFICATION LedgerSpec
CONSTANTS
  Slot = {s1}
  Chunks = 3
  Sampled <- MCSampled
  MaxUploadTroubles = 1
  MaxRots = 1
INVARIANT FailedCopyIsNotDone
