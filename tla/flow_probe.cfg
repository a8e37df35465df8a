SPECIFICATION FlowSpec
CONSTANTS
  SegmentSize = 1
  DupAckThresh = 3
  Total = 4
  Writes = {2}
  SackModes = {TRUE}
  NoDelay = TRUE
  ReceiverWindow = 2
  CongWindows = {4}
  DataRetries = 1
  MaxBuffer = 2
  WindowUnit = 1
  DelAckMaxCount = 2
  Reads = {1, 2}
  MaxAcks = 2
INVARIANTS ProbeHasByte
CHECK_DEADLOCK FALSE
