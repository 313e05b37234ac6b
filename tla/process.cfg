SPECIFICATION MCFairSpec
CONSTANTS
  MAX_CONSECUTIVE_RESYNCS = 5
  Caller = {"c1", "c2"}
  MaxCount = 2
  MaxBlocks = 4
  MaxOthers = 1
  Addresses = 2
  MaxQueue = 3
INVARIANTS
  RecoversFromSpacedFailures
  SoleMinerNeverRejected
  ResultMatchesSending
PROPERTIES
  SupervisionWorks
  ChainConverges
  CallsReturn
CHECK_DEADLOCK FALSE
