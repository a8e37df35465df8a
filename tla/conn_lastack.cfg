SPECIFICATION Spec
CONSTANTS
  WriterSets = {{}}
  SynRetries = 2
  DataRetries = 1
  DelAckMaxCount = 2
  CallbackCloses = {}
PROPERTIES PeacefulIfAcked
CHECK_DEADLOCK FALSE
