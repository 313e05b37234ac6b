SPECIFICATION FairSpec
CONSTANTS
  g = g
  a1 = a1
  a2 = a2
  a3 = a3
  a4 = a4
  a5 = a5
  b2 = b2
  b3 = b3
  b4 = b4
  c3 = c3
  c4 = c4
  Block = {g, a1, a2, b2, b3}
  NoBlock = NoBlock
  Parent <- Tree
  Rejected = {}
  ActivationHeight = 0
  HEADER_FETCH_BATCH_SIZE = 2
  BLOCK_FETCH_BATCH_SIZE = 2
  PRE_ACTIVATION_BATCH_SIZE = 2
  SnapshotHeight <- NoSnapshot
  MaxStops = 0
PROPERTIES
  InterruptedSyncIsRetried
CHECK_DEADLOCK FALSE
