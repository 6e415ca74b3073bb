CONSTANTS
  Oid <- MCOid
  BlobOids <- MCBlobOids
  Packs <- SpillPacks
  Size <- MCSize
  NeededSets <- MCNeeded
  CacheLimit = 1
  CheckoutLimit = 2
  SpillLimit = 3
  MaxDepth = 1
  Foreign = "other"
  MaxForeign = 1
  CutsIn = TRUE
SPECIFICATION IngestSpec
INVARIANT ReadsBack
