SPECIFICATION FlowFairSpec
CONSTANTS
  SegmentSize = 1
  DupAckThresh = 3
  Total = 5
  Writes = {1, 3}
  SackModes = {TRUE, FALSE}
  NoDelay = TRUE
  ReceiverWindow = 3
  CongWindows = {1}
  DataRetries = 1
  MaxBuffer = 3
  WindowUnit = 1
  DelAckMaxCount = 2
  Reads = {1, 2}
  MaxAcks = 2
INVARIANTS
  FlowTypeOK
  WindowKept
PROPERTIES
  AckedOrGivenUp
CHECK_DEADLOCK FALSE
