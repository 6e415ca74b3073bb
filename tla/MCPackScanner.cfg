CONSTANTS
  SizeRadix = 2
  OidLen = 2
  TrailerLen = 2
  MaxObjects = 2
  OutputLen = 2
  NoObject = NoObject
  Magic <- PackMagic
  Packs <- MCPacks
SPECIFICATION Spec
INVARIANTS
  TypeOK
  FramesAreThePacks
  AcceptsValidPacks
PROPERTIES
  ScanEnds
