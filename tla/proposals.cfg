SPECIFICATION Spec
CONSTANTS
  Slot = {0}
  Description = {d1, d2}
  M6id = {a}
  Txid = {t1}
  WithdrawalBundleMaxAge = 4
  WithdrawalBundleInclusionThreshold = 2
  UnusedSlotProposalMaxAge = 3
  UnusedSlotActivationThreshold = 1
  U16Max = 65535
  LeadingBy50Margin = 50
  BundleValue <- NoBundleValue
  ActivationHeight = 1
  Message <- ProposalMessages
  TxShape = {}
  Value = {}
  Vote = {}
  MaxHeight = 8
  MaxTxs = 0
  KeepBlocks = 3
INVARIANTS
  ProposalVotesWithinAge
  ActivationEarned
PROPERTIES
  OnlyHopelessProposalsFail
