SPECIFICATION MCSpec
CONSTANTS
  g = g
  a1 = a1
  a2 = a2
  a3 = a3
  a4 = a4
  a5 = a5
  b2 = b2
  b3 = b3
  b4 = b4
  c3 = c3
  c4 = c4
  x = x
  Block = {g, a1, a2, a3, a4, a5, b2, b3, b4, c3, c4}
  NoBlock = NoBlock
  Parent <- Tree
  Rejected = {a4, c3}
  ActivationHeight = 2
  HEADER_FETCH_BATCH_SIZE = 3
  BLOCK_FETCH_BATCH_SIZE = 2
  PRE_ACTIVATION_BATCH_SIZE = 1
  SnapshotHeight <- NoSnapshot
  MaxStops = 1
INVARIANTS
  DatabasesClosed
  OnlyRejectedInvalidated
  SubscriberAtTip
  MissingBlocksConnect
  NoBlockLost
  OrderOfFilesIrrelevant
CHECK_DEADLOCK FALSE
