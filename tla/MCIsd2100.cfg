\* Exports in any order on a chip that may be slow, powered down or gone.
SPECIFICATION FairSpec
CONSTANTS
  Cells = 3
  CellsPerRead = 2
  Checkpoint = 2
  Checks = 1
  PollLimit = 1
INVARIANTS
  TypeOK
  ReadsAreRight
  WriteLands
  ChannelHasOneOwner
  ProgressReset
PROPERTIES
  CallEnds
