CONSTANTS
  Oid <- MCOid
  Heads <- MCHeads
  Existing <- MCExisting
  Dot = "."
  DotDot = ".."
  IndexNames <- MCIndexNames
  Height <- MCHeight
SPECIFICATION Spec
 
 
 
INVARIANT GoodTreeChecksOut
 
