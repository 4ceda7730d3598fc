\* Two erase blocks of four pages, addressed in units of two pages.
SPECIFICATION FairSpec
CONSTANTS
  NumPages = 8
  PageCountInBlock = 4
  Unit = 2
  Words = 2
  PollLimit = 1
  ImagePages = {0, 3, 5}
  ErasePages = {0, 2, 6}
INVARIANTS
  TypeOK
  RangeIsExact
  OutsideUntouched
PROPERTIES
  CallReturns
