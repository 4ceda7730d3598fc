\* Driver functions in any order; the batch just fits in the buffer.
SPECIFICATION FairSpec
CONSTANTS
  Words <- MCWords
  PageWords = 2
  Pages = 2
  DelayBytes = 3
  OUTPUT_BUFFER_SIZE = 245
  UsbRoom = 50
INVARIANTS
  AccessesExact
  NothingLeft
PROPERTIES
  LinesHold
  FunctionsEnd
