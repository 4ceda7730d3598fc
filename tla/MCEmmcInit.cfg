\* The time limit of emmc_init.
SPECIFICATION FairSpec
CONSTANTS
  CardBlocks = 3
  Starts = {1, 2, 5}
  Lengths = {0, 4}
  FileSizes <- MCFileSizes
  PollLimit = 2
  BlockSize = 2
  Addressable = 3
PROPERTIES
  InitTimesOut
