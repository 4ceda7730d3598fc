\* One GUI thread: spi() with spiStop() implements a cancellable job.
SPECIFICATION FairSpec
CONSTANTS
  UIThreads = {u1}
  Starts = {0, 1}
  Lengths <- MCLengths
  Sizes = {1}
  FilePages = {0, 3}
  PageCounts = {2, 4}
  Unit = 2
  PagesPerMB = 4
  NAND_READ_BATCH_PAGES = 2
PROPERTIES
  ImplementsJob
  CallEnds
