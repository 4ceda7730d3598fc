\* Both builds: batches of two pages with a delay of two ticks, or two polls.
SPECIFICATION FairSpec
CONSTANTS
  NumPages = 3
  PageWords = 3
  WordCounts = {2, 3}
  NAND_READ_BATCH_PAGES = 2
  Delay = 2
  PollLimit = 1
  LoadTimes = {1, 2, 5}
INVARIANTS
  PunctualPagesExact
PROPERTIES
  ReadReturns
