\* The message of the exception.
SPECIFICATION Spec
CONSTANTS
  Requests <- MCRequests
  OUTPUT_BUFFER_SIZE = 6
  MAX_NUM_BYTES_USB_WRITE = 2
  TryCount = 2
INVARIANTS
  ThrownForMissingData
