SPECIFICATION Spec
CONSTANTS
  WriterSets = {{"A"}}
  SynRetries = 2
  DataRetries = 1
  DelAckMaxCount = 2
  CallbackCloses = {}
INVARIANTS FinWhenEmpty
CHECK_DEADLOCK FALSE
