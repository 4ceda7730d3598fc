\* Requests one after another, through short writes and late replies.
SPECIFICATION FairSpec
CONSTANTS
  Requests <- MCRequests
  OUTPUT_BUFFER_SIZE = 6
  MAX_NUM_BYTES_USB_WRITE = 2
  TryCount = 2
INVARIANTS
  ReplyIsOwn
PROPERTIES
  RequestEnds
