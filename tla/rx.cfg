CONSTANTS
  StreamLen = 9
  MaxBuffer = 5
  MaxSegment = 5
  Oversend = 2
  MaxSackBlocks = 2
SPECIFICATION Spec
INVARIANTS RxTypeOK BufferBounded PayloadInPlace NextRxIsFirstMissing CountersExact SackHonest EndOfStreamComplete AddMatchesLoop
PROPERTIES ImplementsStream WindowNeverShrinks SackNewestFirst
CHECK_DEADLOCK FALSE
