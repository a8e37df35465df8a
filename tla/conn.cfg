SPECIFICATION FairSpec
CONSTANTS
  WriterSets = {{},{"A"},{"B"}}
  SynRetries = 2
  DataRetries = 1
  DelAckMaxCount = 2
  CallbackCloses = {"DataRecv","NormalClose"}
INVARIANTS ConnTypeOK AckedIsReceived EndOfStreamLast FinWasHeard NoStuckEnd
PROPERTIES FinIsFinal Settles
CHECK_DEADLOCK FALSE
