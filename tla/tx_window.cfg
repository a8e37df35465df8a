SPECIFICATION Spec
CONSTANTS
  SegmentSize = 2
  DupAckThresh = 2
  Total = 6
  Writes = {6}
  SackModes = {TRUE}
  NoDelay = TRUE
  ReceiverWindow = 4
  CongWindows = {6}
  DataRetries = 1
INVARIANTS OfferHasBytes
CHECK_DEADLOCK FALSE
