SPECIFICATION ActivatedSpec
CONSTANTS
  Slot = {0}
  Description = {d1}
  M6id = {a, b}
  Txid = {t1}
  WithdrawalBundleMaxAge = 4
  WithdrawalBundleInclusionThreshold = 2
  UnusedSlotProposalMaxAge = 3
  UnusedSlotActivationThreshold = 0
  U16Max = 4
  LeadingBy50Margin = 2
  BundleValue <- NoBundleValue
  ActivationHeight = 0
  Message <- BundleMessages
  TxShape = {}
  Value = {}
  Vote = {0, 1, 254}
  MaxHeight = 8
  MaxTxs = 0
  KeepBlocks = 2
INVARIANTS
  UndoRestores
  PendingChronological
  BundleVotesWithinAge
  AtMostOnePayable
  VotesInv
