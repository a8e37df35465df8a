SPECIFICATION FlowFairSpec
CONSTANTS
  SegmentSize = 2
  DupAckThresh = 3
  Total = 4
  Writes = {4}
  SackModes = {TRUE}
  NoDelay = TRUE
  ReceiverWindow = 3
  CongWindows = {4}
  DataRetries = 1
  MaxBuffer = 3
  WindowUnit = 1
  DelAckMaxCount = 2
  Reads = {2}
  MaxAcks = 2
PROPERTIES AckedOrGivenUp
CHECK_DEADLOCK FALSE
