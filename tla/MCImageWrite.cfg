\* Eight pages; a file of five fills two small blocks and a half, or a large one and a quarter.
\* Of 17 pages the size is too much for an int, and the bytes of 18 for an unsigned.
SPECIFICATION Spec
CONSTANTS
  BlockPages <- MCBlockPages
  MB = 1
  DataBits = 2
  Degree = 3
  Feedback <- MCFeedback
  NumPages = 8
  Unit = 2
  RawPage = 4
  MaxUnsigned = 64
  Devices <- MCDevices
  FilePage <- MCFilePage
  FilePages = {1, 5, 17}
  Starts = {0, 1, 2}
  Ends = {2, 6, 18}
INVARIANTS
  TypeOK
  GeometryIsOwn
  ImageInPlace
  PatchedPagesFit
  BufferHoldsImage
