SPECIFICATION MCSpec
CONSTANTS
  d1 = d1
  d2 = d2
  m6a = m6a
  m6b = m6b
  Txids = {t1, t2, t3, t4, t5, t6, t7, t8, t9}
  Block <- ForkBlocks
  NoBlock = "none"
  Parent <- ForkTree
  Bid = {"m1", "m2", "m3", "m4"}
  Prev <- BidPrev
  Slot <- BidSlot
  Fee <- BidFee
  Rejected = {"b1"}
  MaxStops = 1
INVARIANTS
  BuiltTemplateConnects
  StableBuildSucceeds
  ApprovedBundlesPaid
  
  FollowersInStep
  AuctionOutcome
PROPERTIES
  DryRunLeavesNoTrace
