SPECIFICATION Spec
CONSTANTS
  Clones = {c1, c2}
  Absent = absent
  Empty = empty
  Foreign = foreign
  Bytes <- PartBytes
  Limits = {2, 4, 6}
  NoLimit = none
INVARIANTS
  TargetIsComplete
  SuccessIsPublished
  PublishedWithinLimit
PROPERTIES
  ExistingDataIsKept
