SPECIFICATION Spec
CONSTANTS
  Requests <- MCRequests
  FileSystems <- MCFileSystems
  MimeTypes <- MCMimeTypes
  Capacity = 13
  TmpSize = 10
  HeaderSize = 2
  JunkBytes = {0}
INVARIANT ParsedAsSent
INVARIANT ResponseInOrder
INVARIANT OffsetsInBlock
PROPERTY CompleteGetAnswered
PROPERTY ParserStops
CHECK_DEADLOCK FALSE
