SPECIFICATION Spec
CONSTANTS
  Slot = {0}
  Description = {d1}
  M6id = {a}
  Txid = {t1}
  WithdrawalBundleMaxAge = 4
  WithdrawalBundleInclusionThreshold = 1
  UnusedSlotProposalMaxAge = 3
  UnusedSlotActivationThreshold = 0
  U16Max = 65535
  LeadingBy50Margin = 2
  BundleValue <- NoBundleValue
  ActivationHeight = 0
  Message <- ReorgMessages
  TxShape = {}
  Value = {}
  Vote = {}
  MaxHeight = 4
  MaxTxs = 0
  KeepBlocks = 3
INVARIANTS
  RepeatPreviousResolves
  IndInv
PROPERTIES
  ImplementsChainState
