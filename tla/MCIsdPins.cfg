SPECIFICATION PinsFairSpec
CONSTANTS
  ByteBits = 2
  Addressed = 1
  DataBytes = 2
  Word = 1
  PollLimit = 1
INVARIANTS
  FramesExact
  RepliesExact
PROPERTIES
  ExportsReturn
