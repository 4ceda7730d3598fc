\* Two GUI threads: a stop and a poll overtake each other and a whole call.
SPECIFICATION Spec
CONSTANTS
  UIThreads = {u1, u2}
  Starts = {0, 1}
  Lengths <- MCLengths
  Sizes = {1}
  FilePages = {0, 3}
  PageCounts = {2, 4}
  Unit = 2
  PagesPerMB = 4
  NAND_READ_BATCH_PAGES = 2
SYMMETRY MCSymmetry
INVARIANTS
  TypeOK
  SuccessIsComplete
  CancelledIffAsked
  ErrorsTouchNothing
  ReleasedOnReturn
  ProgressIsBacked
PROPERTIES
  PollsNeverGoBack
