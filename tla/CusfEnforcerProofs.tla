------------------------- MODULE CusfEnforcerProofs -------------------------
(***************************************************************************)
(* The mempool and the subscribers are in step with the committed chain,   *)
(* the auction is won by one highest bid, dry runs commit nothing, and the *)
(* stored headers are closed under parents: for every tree of blocks,      *)
(* every set of requests and any number of stops of the process.           *)
(***************************************************************************)
EXTENDS CusfEnforcer, TLAPS

Db == [tip : Block \cup {NoBlock}, header : SUBSET Block, seen : SUBSET Bid]
Template ==
  [pc : {"seen", "done"}, parent : Block \cup {NoBlock}, seen : SUBSET Bid,
   bids : SUBSET Bid, offered : SUBSET Bid]

\* Where the write transactions of a call have got to.  Until the parent
\* commits, the mempool bids on the tip, and what the reply will remove is the
\* requests on that tip; after it, everything in the mempool is removed.
Opened ==
  /\ txn.pc \in {"accepted", "rejected"}
  /\ txn.parent \in Db /\ txn.parent.tip = db.tip /\ txn.parent.seen = db.seen
  /\ txn.pc = "accepted" =>
       txn.child \in Db /\ txn.child.seen = db.seen /\ Parent[txn.block] = db.tip
ChildFinished ==
  /\ txn.pc = "parent"
  /\ txn = [pc |-> "parent", mode |-> txn.mode, block |-> txn.block,
            parent |-> txn.parent, removed |-> SeenOn(db, db.tip)]
  /\ txn.parent \in Db /\ txn.parent.seen = db.seen
Committed == txn.pc = "event" /\ mempool \subseteq txn.removed

StepInv ==
  /\ db \in Db /\ mempool \subseteq db.seen
  /\ \/ Committed
     \/ /\ txn = NoTxn \/ Opened \/ ChildFinished
        /\ subscriber = db.tip /\ \A m \in mempool : Minable(m)

\* accept_tx reports every rival that a request has in the mempool.
RivalsApart ==
  \A m, r \in mempool : m # r /\ Slot[m] = Slot[r] => {m, r} \in conflicts

AuctionInv ==
  /\ template \in {NoTemplate} \cup Template
  /\ OneBidPerSlot /\ HighestBidWins

EnforcerInv == StepInv /\ RivalsApart /\ AuctionInv

-----------------------------------------------------------------------------
(* Blocks                                                                  *)

\* A call that opens its transactions leaves the committed state alone.
LEMMA Opening ==
  ASSUME StepInv, NEW b \in Block, NEW mode \in {"commit", "dry"},
         connect_block_with_mode(mode, b)
  PROVE  StepInv'
<1>1. /\ txn = NoTxn /\ db \in Db /\ mempool \subseteq db.seen
      /\ subscriber = db.tip /\ \A m \in mempool : Minable(m)
  BY DEF connect_block_with_mode, Idle, StepInv, Committed, NoTxn
<1>2. /\ WithHeader(db, b) \in Db
      /\ WithHeader(db, b).tip = db.tip /\ WithHeader(db, b).seen = db.seen
  BY <1>1 DEF WithHeader, Db
<1>3. /\ [WithHeader(db, b) EXCEPT !.tip = b] \in Db
      /\ [WithHeader(db, b) EXCEPT !.tip = b].seen = db.seen
  BY <1>2 DEF Db
<1>4. Accepted(db, b) => Parent[b] = db.tip
  BY DEF Accepted
<1>5. UNCHANGED <<db, subscriber, mempool>>
  BY DEF connect_block_with_mode, pool
<1>6. Opened'
  BY <1>2, <1>3, <1>4, <1>5 DEF connect_block_with_mode, Opened
<1> QED  BY <1>1, <1>5, <1>6 DEF StepInv, Minable

\* What the reply will remove is read from the child transaction.
LEMMA FinishingChild ==
  ASSUME StepInv, FinishChild
  PROVE  StepInv'
<1>1. /\ Opened /\ txn.pc = "accepted" /\ db \in Db /\ mempool \subseteq db.seen
      /\ subscriber = db.tip /\ \A m \in mempool : Minable(m)
  BY DEF FinishChild, StepInv, Committed, ChildFinished, NoTxn
<1>2. UNCHANGED <<db, subscriber, mempool>>
  BY DEF FinishChild, pool
<1>3. SeenOn(txn.child, Parent[txn.block]) = SeenOn(db, db.tip)
  BY <1>1 DEF Opened, SeenOn
<1>4. ChildFinished'
  BY <1>1, <1>2, <1>3 DEF FinishChild, ChildFinished, Opened, SeenOn
<1> QED  BY <1>1, <1>2, <1>4 DEF StepInv, Minable

\* The commit of a block makes every request in the mempool one that the
\* reply removes; a dry run ends with nothing changed.
LEMMA FinishingParent ==
  ASSUME StepInv, FinishParent
  PROVE  StepInv'
<1>1. /\ ChildFinished /\ db \in Db /\ mempool \subseteq db.seen
      /\ subscriber = db.tip /\ \A m \in mempool : Minable(m)
  BY DEF FinishParent, StepInv, Committed, Opened, NoTxn
<1>2. UNCHANGED <<subscriber, mempool>>
  BY DEF FinishParent, pool
<1>3. CASE txn.mode = "commit"
  <2>1. mempool \subseteq txn.removed
    BY <1>1 DEF ChildFinished, SeenOn, Minable
  <2>2. txn'.pc = "event" /\ txn'.removed = txn.removed
    BY <1>1, <1>3 DEF FinishParent, ChildFinished
  <2>3. db' = txn.parent
    BY <1>3 DEF FinishParent
  <2> QED  BY <1>1, <1>2, <2>1, <2>2, <2>3 DEF StepInv, Committed, ChildFinished
<1>4. CASE txn.mode # "commit"
  BY <1>1, <1>2, <1>4 DEF FinishParent, StepInv, Minable
<1> QED  BY <1>3, <1>4

\* A rejected block adds at most a header.
LEMMA Rejecting ==
  ASSUME StepInv, Reject
  PROVE  StepInv'
<1>1. /\ Opened /\ db \in Db /\ mempool \subseteq db.seen
      /\ subscriber = db.tip /\ \A m \in mempool : Minable(m)
  BY DEF Reject, StepInv, Committed, ChildFinished, NoTxn
<1>2. db' \in Db /\ db'.tip = db.tip /\ db'.seen = db.seen
  BY <1>1 DEF Reject, Opened
<1> QED  BY <1>1, <1>2 DEF Reject, pool, StepInv, Minable

\* The reply empties the mempool of requests on the old tip, which is all of it.
LEMMA SendingEvent ==
  ASSUME StepInv, SendEvent
  PROVE  StepInv'
<1>1. Committed /\ db \in Db
  BY DEF SendEvent, StepInv, Opened, ChildFinished, NoTxn
<1>2. mempool' = {}
  BY <1>1 DEF SendEvent, Committed
<1> QED  BY <1>1, <1>2 DEF SendEvent, StepInv

\* The same holds of a disconnected tip.
LEMMA Disconnecting ==
  ASSUME StepInv, disconnect_block
  PROVE  StepInv'
<1>1. /\ db \in Db /\ mempool \subseteq db.seen /\ db.tip \in Block
      /\ \A m \in mempool : Minable(m)
  BY DEF disconnect_block, Idle, StepInv, Committed, NoTxn, Db
<1>2. Parent[db.tip] \in Block \cup {NoBlock}
  BY <1>1, TreeAssumption
<1>3. db' \in Db /\ db'.seen = db.seen
  BY <1>1, <1>2 DEF disconnect_block, Db
<1>4. mempool \subseteq SeenOn(db, db.tip)
  BY <1>1 DEF SeenOn, Minable
<1>5. Committed'
  BY <1>4 DEF disconnect_block, pool, Committed, NoLongerMinable
<1> QED  BY <1>1, <1>3, <1>5 DEF disconnect_block, pool, StepInv

-----------------------------------------------------------------------------
(* Requests                                                                *)

\* A request joins the mempool only on the tip, and apart from its rivals.
LEMMA Accepting ==
  ASSUME StepInv, RivalsApart, NEW m \in Bid, accept_tx(m)
  PROVE  StepInv' /\ RivalsApart'
<1>1. /\ txn = NoTxn /\ db \in Db /\ mempool \subseteq db.seen
      /\ subscriber = db.tip /\ \A r \in mempool : Minable(r)
  BY DEF accept_tx, Idle, StepInv, Committed, NoTxn
<1>2. db' \in Db /\ db'.tip = db.tip /\ db'.seen = db.seen \cup {m}
  BY <1>1 DEF accept_tx, Db
<1>3. StepInv'
  BY <1>1, <1>2 DEF accept_tx, StepInv, Minable
<1>4. RivalsApart'
  <2> SUFFICES ASSUME NEW x \in mempool', NEW y \in mempool', x # y, Slot[x] = Slot[y]
               PROVE  {x, y} \in conflicts'
    BY DEF RivalsApart
  <2>1. CASE x \in mempool /\ y \in mempool
    BY <2>1 DEF accept_tx, RivalsApart
  <2>2. CASE x = m /\ y \in mempool
    BY <1>1, <2>2 DEF accept_tx, SeenRivals, SeenOn, Minable
  <2>3. CASE y = m /\ x \in mempool
    <3>1. x \in SeenRivals(db, m)
      BY <1>1, <2>3 DEF accept_tx, SeenRivals, SeenOn, Minable
    <3>2. {x, y} = {m, x}
      BY <2>3
    <3> QED  BY <3>1, <3>2 DEF accept_tx
  <2> QED  BY <2>1, <2>2, <2>3 DEF accept_tx
<1> QED  BY <1>3, <1>4

\* A request that leaves takes only its own conflicts with it.
LEMMA Leaving ==
  ASSUME StepInv, RivalsApart, NEW m \in Bid, Leaves(m)
  PROVE  StepInv' /\ RivalsApart'
<1>1. StepInv'
  BY DEF Leaves, Idle, StepInv, Committed, NoTxn, Minable
<1>2. RivalsApart'
  BY DEF Leaves, RivalsApart
<1> QED  BY <1>1, <1>2

\* A template takes no two requests that conflict, and none of those seen but
\* the winners.
LEMMA Settling ==
  ASSUME EnforcerInv, SettleAuction
  PROVE  AuctionInv'
<1>1. PICK ws \in Winners(template.seen \cap mempool) :
        \E ms \in SUBSET (mempool \ (template.seen \ ws)) :
          /\ \A c \in conflicts : ~(c \subseteq ms)
          /\ template' = [template EXCEPT !.pc = "done", !.bids = ms, !.offered = mempool]
  BY DEF SettleAuction
<1>2. PICK ms \in SUBSET (mempool \ (template.seen \ ws)) :
        /\ \A c \in conflicts : ~(c \subseteq ms)
        /\ template' = [template EXCEPT !.pc = "done", !.bids = ms, !.offered = mempool]
  BY <1>1
<1>3. template \in Template /\ mempool \subseteq Bid
  BY DEF SettleAuction, EnforcerInv, AuctionInv, StepInv, NoTemplate, Db
<1>4. /\ template' \in Template /\ template'.bids = ms
      /\ template'.offered = mempool /\ template'.seen = template.seen
  BY <1>2, <1>3 DEF Template
<1>5. OnePerSlot(ms)
  <2> SUFFICES ASSUME NEW m \in ms, NEW r \in ms, Slot[m] = Slot[r], m # r
               PROVE  FALSE
    BY DEF OnePerSlot
  <2>1. {m, r} \in conflicts
    BY DEF EnforcerInv, RivalsApart
  <2>2. {m, r} \subseteq ms
    OBVIOUS
  <2> QED  BY <1>2, <2>1, <2>2
<1>6. ASSUME mempool \subseteq template.seen, NEW m \in ms, NEW r \in mempool,
             Slot[r] = Slot[m]
      PROVE  Fee[r] <= Fee[m]
  BY <1>1, <1>6 DEF Winners, Wins
<1> QED  BY <1>4, <1>5, <1>6 DEF AuctionInv, OneBidPerSlot, HighestBidWins

-----------------------------------------------------------------------------

\* Every step of the enforcer, the library or the process keeps the invariant.
LEMMA EnforcerInvariance == Spec => []EnforcerInv
<1>1. Init => EnforcerInv
  BY DEF Init, EnforcerInv, StepInv, RivalsApart, AuctionInv, OneBidPerSlot,
         HighestBidWins, Db, NoTxn, NoTemplate
<1>2. EnforcerInv /\ [Next]_vars => EnforcerInv'
  <2> SUFFICES ASSUME EnforcerInv, [Next]_vars PROVE EnforcerInv'
    OBVIOUS
  <2> USE DEF EnforcerInv
  <2>1. CASE \/ \E b \in Block, mode \in {"commit", "dry"} :
                   connect_block_with_mode(mode, b)
             \/ FinishChild \/ FinishParent \/ Reject \/ SendEvent \/ disconnect_block
    <3>1. StepInv'
      BY <2>1, Opening, FinishingChild, FinishingParent, Rejecting, SendingEvent,
         Disconnecting
    <3>2. mempool' \subseteq mempool /\ UNCHANGED <<conflicts, template>>
      BY <2>1 DEF connect_block_with_mode, FinishChild, FinishParent, Reject, SendEvent,
                  disconnect_block, pool
    <3>3. RivalsApart'
      BY <3>2 DEF RivalsApart
    <3>4. AuctionInv'
      BY <3>2 DEF AuctionInv, OneBidPerSlot, HighestBidWins
    <3> QED  BY <3>1, <3>3, <3>4
  <2>2. CASE \E m \in Bid : accept_tx(m) \/ Leaves(m)
    <3>1. StepInv' /\ RivalsApart'
      BY <2>2, Accepting, Leaving
    <3>2. UNCHANGED template
      BY <2>2 DEF accept_tx, Leaves
    <3>3. AuctionInv'
      BY <3>2 DEF AuctionInv, OneBidPerSlot, HighestBidWins
    <3> QED  BY <3>1, <3>3
  <2>3. CASE StartTemplate \/ SettleAuction \/ DropTemplate
    <3>1. UNCHANGED <<db, txn, subscriber, mempool, conflicts>>
      BY <2>3 DEF StartTemplate, SettleAuction, DropTemplate, pool
    <3>2. StepInv' /\ RivalsApart'
      BY <3>1 DEF StepInv, RivalsApart, Committed, Opened, ChildFinished, Minable, SeenOn
    <3>3. CASE StartTemplate
      <4>1. template' \in Template /\ template'.pc = "seen"
        BY <3>3 DEF StartTemplate, Template, SeenOn, StepInv, Db
      <4> QED  BY <3>2, <4>1 DEF AuctionInv, OneBidPerSlot, HighestBidWins
    <3>4. CASE SettleAuction
      BY <3>2, <3>4, Settling
    <3>5. CASE DropTemplate
      BY <3>2, <3>5 DEF DropTemplate, AuctionInv, OneBidPerSlot, HighestBidWins, NoTemplate
    <3> QED  BY <2>3, <3>3, <3>4, <3>5
  <2>4. CASE Stop
    BY <2>4 DEF Stop, StepInv, RivalsApart, AuctionInv, OneBidPerSlot, HighestBidWins,
                NoTemplate
  <2>5. CASE UNCHANGED vars
    <3>1. StepInv' /\ RivalsApart'
      BY <2>5 DEF vars, pool, StepInv, RivalsApart, Committed, Opened, ChildFinished,
                  Minable, SeenOn
    <3>2. AuctionInv'
      BY <2>5 DEF vars, AuctionInv, OneBidPerSlot, HighestBidWins
    <3> QED  BY <3>1, <3>2
  <2> QED  BY <2>1, <2>2, <2>3, <2>4, <2>5 DEF Next
<1> QED  BY <1>1, <1>2, PTL DEF Spec

\* When the library has its reply every request in its mempool bids on the tip,
\* and subscribers are told of a block once it is committed and before the next
\* one is (connect_block, disconnect_block and accept_tx of cusf_enforcer.rs).
THEOREM InStep == Spec => []FollowersInStep
<1>1. EnforcerInv => FollowersInStep
  BY DEF EnforcerInv, StepInv, FollowersInStep, BidsOnTip, EventsFollowCommits, Committed,
         NoTxn, Opened, ChildFinished
<1> QED  BY <1>1, EnforcerInvariance, PTL

\* A template takes at most one request of a sidechain, and, if none arrived
\* since the auction was settled, one with the highest fee
\* (initial_block_template_inner, bmm_auction_winners, accept_tx).
THEOREM AuctionFair == Spec => []AuctionOutcome
<1>1. EnforcerInv => AuctionOutcome
  BY DEF EnforcerInv, AuctionInv, AuctionOutcome
<1> QED  BY <1>1, EnforcerInvariance, PTL

\* A block that validate_block tries is committed in neither of its two
\* transactions, whether it is accepted, rejected or interrupted.
THEOREM DryRunsCommitNothing == Spec => DryRunLeavesNoTrace
<1>1. [Next]_vars => [~Idle /\ txn.mode = "dry" => UNCHANGED db]_vars
  BY DEF Next, vars, connect_block_with_mode, FinishChild, FinishParent, Reject, SendEvent,
     disconnect_block, accept_tx, Leaves, StartTemplate, SettleAuction, DropTemplate, Stop
<1> QED  BY <1>1, PTL DEF Spec, DryRunLeavesNoTrace

-----------------------------------------------------------------------------
(* Headers                                                                 *)

Closed(d) ==
  /\ d.tip \in d.header \cup {NoBlock}
  /\ \A b \in d.header : Parent[b] \in d.header \cup {NoBlock}

\* What is committed, and what either transaction of a call would commit.
HeadersInv ==
  /\ Closed(db)
  /\ txn.pc \in {"accepted", "rejected", "parent"} => Closed(txn.parent)
  /\ txn.pc = "accepted" => Closed(txn.child)

\* A header is stored after its parent's, and a block connects with its header.
LEMMA HeaderStored ==
  ASSUME NEW d \in Db, Closed(d), NEW b \in Block
  PROVE  /\ Closed(WithHeader(d, b))
         /\ Accepted(d, b) => Closed([WithHeader(d, b) EXCEPT !.tip = b])
<1>1. CASE Orphan(d, b)
  BY <1>1 DEF WithHeader, Accepted
<1>2. CASE ~Orphan(d, b)
  <2>1. /\ WithHeader(d, b) \in Db /\ WithHeader(d, b).tip = d.tip
        /\ WithHeader(d, b).header = d.header \cup {b}
    BY <1>2 DEF WithHeader, Db
  <2>2. Parent[b] \in d.header \cup {b, NoBlock}
    BY <1>2 DEF Orphan, Closed
  <2>3. /\ [WithHeader(d, b) EXCEPT !.tip = b].tip = b
        /\ [WithHeader(d, b) EXCEPT !.tip = b].header = d.header \cup {b}
    BY <2>1 DEF Db
  <2> QED  BY <2>1, <2>2, <2>3 DEF Closed
<1> QED  BY <1>1, <1>2

\* Each step of a call keeps the headers closed.
LEMMA CallsKeepHeaders ==
  ASSUME EnforcerInv, HeadersInv,
         \/ \E b \in Block, mode \in {"commit", "dry"} : connect_block_with_mode(mode, b)
         \/ FinishChild \/ FinishParent \/ Reject \/ SendEvent \/ disconnect_block
  PROVE  HeadersInv'
<1>1. db \in Db /\ Closed(db)
  BY DEF EnforcerInv, StepInv, HeadersInv
<1>2. ASSUME NEW b \in Block, NEW mode \in {"commit", "dry"},
             connect_block_with_mode(mode, b)
      PROVE  HeadersInv'
  <2>1. /\ Closed(WithHeader(db, b))
        /\ Accepted(db, b) => Closed([WithHeader(db, b) EXCEPT !.tip = b])
    BY <1>1, HeaderStored
  <2> HIDE DEF HeadersInv
  <2>2. /\ db' = db /\ txn'.parent = WithHeader(db, b)
        /\ txn'.pc = IF Accepted(db, b) THEN "accepted" ELSE "rejected"
        /\ Accepted(db, b) => txn'.child = [WithHeader(db, b) EXCEPT !.tip = b]
    BY <1>2 DEF connect_block_with_mode
  <2> QED  BY <1>1, <2>1, <2>2 DEF HeadersInv
<1>3. CASE FinishChild
  <2>1. db' = db /\ txn'.pc = "parent" /\ txn'.parent \in {txn.child, txn.parent}
    BY <1>3 DEF FinishChild
  <2>2. txn.pc = "accepted"
    BY <1>3 DEF FinishChild
  <2> QED  BY <2>1, <2>2 DEF HeadersInv
<1>4. CASE FinishParent
  <2>1. ChildFinished
    BY <1>4 DEF FinishParent, EnforcerInv, StepInv, Committed, Opened, NoTxn
  <2>2. db' \in {db, txn.parent} /\ txn'.pc \in {"event", "none"}
    BY <1>4, <2>1 DEF FinishParent, ChildFinished, NoTxn
  <2>3. Closed(txn.parent)
    BY <1>4 DEF FinishParent, HeadersInv
  <2> QED  BY <1>1, <2>2, <2>3 DEF HeadersInv
<1>5. CASE Reject
  BY <1>5 DEF Reject, HeadersInv, NoTxn
<1>6. CASE SendEvent
  BY <1>1, <1>6 DEF SendEvent, HeadersInv, NoTxn
<1>7. CASE disconnect_block
  <2>1. db'.tip = Parent[db.tip] /\ db'.header = db.header /\ txn'.pc = "event"
    BY <1>1, <1>7 DEF disconnect_block, Db
  <2>2. Parent[db.tip] \in db.header \cup {NoBlock}
    BY <1>1, <1>7 DEF disconnect_block, Closed
  <2> QED  BY <1>1, <2>1, <2>2 DEF HeadersInv, Closed
<1> QED  BY <1>2, <1>3, <1>4, <1>5, <1>6, <1>7

\* The committed tip has its header, every stored header its parent's, and every
\* request in the mempool has been recorded, whatever was rejected, tried in a
\* dry run or interrupted before (put_headers, connect_block_with_mode).
THEOREM StoredHeadersClosed == Spec => []TypeOK
<1>1. Init => HeadersInv
  BY DEF Init, HeadersInv, Closed, NoTxn
<1>2. EnforcerInv /\ HeadersInv /\ [Next]_vars => HeadersInv'
  <2> SUFFICES ASSUME EnforcerInv, HeadersInv, [Next]_vars PROVE HeadersInv'
    OBVIOUS
  <2>1. CASE \E m \in Bid : accept_tx(m) \/ Leaves(m)
    <3>1. txn' = txn /\ db'.tip = db.tip /\ db'.header = db.header
      BY <2>1 DEF accept_tx, Leaves, EnforcerInv, StepInv, Db
    <3> QED  BY <3>1 DEF HeadersInv, Closed
  <2>2. CASE StartTemplate \/ SettleAuction \/ DropTemplate \/ UNCHANGED vars
    <3>1. txn' = txn /\ db' = db
      BY <2>2 DEF StartTemplate, SettleAuction, DropTemplate, vars
    <3> QED  BY <3>1 DEF HeadersInv
  <2>3. CASE Stop
    BY <2>3 DEF Stop, HeadersInv, NoTxn
  <2> QED  BY <2>1, <2>2, <2>3, CallsKeepHeaders DEF Next
<1>3. EnforcerInv /\ HeadersInv => TypeOK
  BY DEF EnforcerInv, StepInv, HeadersInv, Closed, Db, TypeOK
<1> QED  BY <1>1, <1>2, <1>3, EnforcerInvariance, PTL DEF Spec
=============================================================================
