CONSTANTS
  TrailerLen = 4
  PackLen = 18
  Pack <- MCPack
  NoByte = 0
SPECIFICATION Spec
INVARIANT SplitsBytes
INVARIANT FinishSplitsPack
