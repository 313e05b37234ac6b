SPECIFICATION ActivatedSpec
CONSTANTS
  Slot = {0, 1}
  Description = {d1}
  M6id = {a}
  Txid = {t1, t2, t3, t4, t5, t6}
  WithdrawalBundleMaxAge = 4
  WithdrawalBundleInclusionThreshold = 1
  UnusedSlotProposalMaxAge = 3
  UnusedSlotActivationThreshold = 0
  U16Max = 65535
  LeadingBy50Margin = 2
  BundleValue <- NoBundleValue
  ActivationHeight = 0
  Message <- TwoSlotMessages
  TxShape <- TwoSlotShapes
  Value = {1, 2}
  Vote = {}
  MaxHeight = 4
  MaxTxs = 2
  KeepBlocks = 2
INVARIANTS
  CtipsAreTheUnspentOutputs
  TreasuryMatchesEvents
