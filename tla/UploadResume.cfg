SPECIFICATION LedgerSpec
CONSTANTS
  Slot = {s1, s2}
  Chunks = 3
  Sampled <- MCSampled
  MaxUploadTroubles = 0
  MaxRots = 0
INVARIANT ResumesAtActualLength
