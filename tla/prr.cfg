SPECIFICATION PrrSpec
CONSTANTS
  SegmentSize = 2
  DupAckThresh = 1
  Total = 8
  Writes = {3, 5}
  SackModes = {TRUE, FALSE}
  NoDelay = TRUE
  ReceiverWindow = 8
  CongWindows = {2, 7}
  DataRetries = 1
  SsThreshs = {2, 4}
  Bounds = {"CRB", "SSRB"}
  WordSize = 128
INVARIANTS DivisorPositive WindowBounded
CHECK_DEADLOCK FALSE
