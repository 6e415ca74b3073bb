CONSTANTS
  Byte <- MCByte
  HeaderLen = 2
  TrailerLen = 2
  Hash <- MCHash
  Packs <- MCPacks
  Limit = 9
  Retries = 1
SPECIFICATION Spec
INVARIANT AcceptedPackIsWhole
INVARIANT FinishedIsTrue
INVARIANT FramesWithinLimit
INVARIANT HealthyPackAccepted
PROPERTY SendsFrameStream
