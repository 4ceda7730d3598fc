\* Calls of both kinds in any order, on a card that answers late or never.
SPECIFICATION FairSpec
CONSTANTS
  CardBlocks = 3
  Starts = {1, 2, 5}
  Lengths = {0, 4}
  FileSizes <- MCFileSizes
  PollLimit = 2
  BlockSize = 2
  Addressable = 3
INVARIANTS
  DataAfterSetup
  ReadIsExact
  WriteIsExact
  ReleasedOnReturn
PROPERTIES
  CallEnds
