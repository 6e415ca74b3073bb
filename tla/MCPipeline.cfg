SPECIFICATION DataSpec
CONSTANTS
  Oid <- WideOid
  Packs <- AllPacks
  DefaultCommit = "c"
  RootTree = "t"
  SubTrees <- WideSubTrees
  Blobs <- WideBlobs
  Main = main
  Workers = {w1, w2}
  NoOid = "none"
  QueueCapacity = 2
  ResolverMayPanic = TRUE
  Size <- MCSize
  BlobOids = {"b1", "b2", "x", "y"}
  ResidentLimit = 1
  SpillChoices = {TRUE}
INVARIANTS
  FramesInPlace
  ChannelInOrder
  NoLostWakeup
  SuccessIsComplete
  PublishedIsReadable
PROPERTIES
  StoreContract
  ReturnsUnlessPanic
