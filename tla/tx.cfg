SPECIFICATION FairSpec
CONSTANTS
  SegmentSize = 2
  DupAckThresh = 2
  Total = 8
  Writes = {3, 5}
  SackModes = {TRUE, FALSE}
  NoDelay = TRUE
  ReceiverWindow = 8
  CongWindows = {2, 5, 8}
  DataRetries = 2
INVARIANTS
  SenderTypeOK
  CountersAgree
  LeftOutWithinSent
  SackedIsHeld
  LostIsJustified
  HeadNotSacked
PROPERTIES
  SackedNotResent
  RepairFirst
  RestartsFromHead
  AckedOrGivenUp
CHECK_DEADLOCK FALSE
