CONSTANTS
  Oid <- MCOid
  Heads <- StatusHeads
  Existing <- MCExisting
  Dot = "."
  DotDot = ".."
  IndexNames <- MCIndexNames
  Height <- MCHeight
SPECIFICATION Spec
INVARIANT StatusIsClean
