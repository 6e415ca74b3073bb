CONSTANTS
  Oid <- MCOid
  BlobOids <- MCBlobOids
  Packs <- MCPacks
  Size <- MCSize
  NeededSets <- MCNeeded
  CacheLimit = 1
  CheckoutLimit = 2
  SpillLimit = 3
  MaxDepth = 1
  Foreign = "other"
  MaxForeign = 1
  CutsIn = FALSE
SPECIFICATION IngestSpec
INVARIANT VerdictIsRight
INVARIANT ReleasedExactly
INVARIANT ReadsBack
INVARIANT NeededIsReady
INVARIANT KeepsWithinLimits
