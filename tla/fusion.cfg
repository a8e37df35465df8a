SPECIFICATION FairSpec
CONSTANTS
  SegmentSize = 2
  Total = 4
  InitialCwnd = 4
  InitialSsThresh = 10
  RetxThresh = 2
  ReceiverWindow = 4
  Rtts = {0, 1, 8}
  TimeMax = 9
  Dmin = 1
  MaxGrowth = 3
  RecoveryWindows = {0, 7}
  Ecn = TRUE
INVARIANTS
  FusionTypeOK
  CountedIsMeasured
  ReductionIsBounded
  ShadowAboveThreshold
  FusionOffWhileRepairing
PROPERTIES
  MeasurementEnds
  NoRelapse
CHECK_DEADLOCK FALSE
