SPECIFICATION Spec
CONSTANTS
  SegmentSize = 2
  Total = 5
  InitialCwnd = 4
  InitialSsThresh = 40
  RetxThresh = 3
  ReceiverWindow = 4
  Rtts = {1, 8}
  TimeMax = 9
  Dmin = 1
  MaxGrowth = 1
  RecoveryWindows = {2, 7}
  Ecn = TRUE
INVARIANT FusionOnInOpen
CHECK_DEADLOCK FALSE
