SPECIFICATION Spec
CONSTANTS
  N = 5
  Other = {x}
  PreActivated = 5
  Rejected = {}
  MAX_BLOCK_CACHE_SIZE = 3
  MAX_ITERATIONS_WITHOUT_MATCH = 4
  BLOCKS_DIR_CONNECT_BATCH_SIZE = 2
  MaxReads = 8
INVARIANTS
  CalledWithWork
CHECK_DEADLOCK FALSE
