---------------------------- MODULE CusfEnforcer ----------------------------
(***************************************************************************)
(* The enforcer as the mempool library drives it (the CusfEnforcer trait,  *)
(* src/lib/validator/cusf_enforcer.rs): blocks are connected, for good or  *)
(* as a dry run, in a write transaction nested in the one that stores the  *)
(* header; transactions are accepted; and the BMM requests (M8) that are   *)
(* seen on the way settle which of them the mempool keeps and a template   *)
(* takes (block_producer/mod.rs, initial_block_template_inner).            *)
(*                                                                         *)
(* Transactions are the BMM requests alone.  What else a block does to the *)
(* databases is the Validator module's subject; here they are the tip, the *)
(* headers and the requests seen.                                          *)
(***************************************************************************)
EXTENDS Integers

CONSTANTS Block, NoBlock, Parent,  \* a tree of blocks, as in BlockTree
          Bid,           \* BMM requests
          Prev, Slot, Fee,  \* the block each one bids on, its sidechain, its fee
          Rejected,      \* blocks that the handlers reject
          MaxStops       \* bound on the stops of the process

ASSUME TreeAssumption ==
  NoBlock \notin Block /\ Parent \in [Block -> Block \cup {NoBlock}]

ASSUME BidAssumption ==
  Prev \in [Bid -> Block] /\ Fee \in [Bid -> Nat] /\ Slot \in [Bid -> Nat] /\ MaxStops \in Nat

VARIABLES
  db,         \* what is committed
  txn,        \* the one write transaction, and the call it belongs to
  subscriber, \* the tip by the events sent
  mempool, conflicts,  \* the library's mempool, and the pairs it keeps apart
  template,   \* the template being built
  stops

pool == <<mempool, conflicts>>
vars == <<db, txn, subscriber, pool, template, stops>>

NoTxn == [pc |-> "none"]
NoTemplate == [pc |-> "none"]
Idle == txn = NoTxn

\* get_seen_bmm_requests_for_parent_block, and with a slot get_seen_bmm_requests
SeenOn(d, b) == {m \in d.seen : Prev[m] = b}
SeenRivals(d, m) == {r \in SeenOn(d, Prev[m]) : Slot[r] = Slot[m]} \ {m}

-----------------------------------------------------------------------------
(* connect_block and validate_block                                        *)

\* A header is stored if its parent's is; the block itself connects to the tip.
Orphan(d, b) == b \notin d.header /\ Parent[b] \notin d.header \cup {NoBlock}
WithHeader(d, b) == IF Orphan(d, b) THEN d ELSE [d EXCEPT !.header = @ \cup {b}]
Accepted(d, b) == ~Orphan(d, b) /\ Parent[b] = d.tip /\ b \notin Rejected

connect_block_with_mode(mode, b) ==
  /\ Idle
  /\ LET parent == WithHeader(db, b)
     IN  txn' = [pc |-> IF Accepted(db, b) THEN "accepted" ELSE "rejected",
                 mode |-> mode, block |-> b, parent |-> parent,
                 child |-> IF Accepted(db, b) THEN [parent EXCEPT !.tip = b] ELSE parent]
  /\ UNCHANGED <<db, subscriber, pool, template, stops>>

\* A commit moves the child's writes to the parent; a dry run aborts it.
FinishChild ==
  /\ txn.pc = "accepted"
  /\ txn' = [pc |-> "parent", mode |-> txn.mode, block |-> txn.block,
             parent |-> IF txn.mode = "commit" THEN txn.child ELSE txn.parent,
             removed |-> SeenOn(txn.child, Parent[txn.block])]
  /\ UNCHANGED <<db, subscriber, pool, template, stops>>

\* Mutant of FinishParent: a dry run commits too.
FinishParent_AlwaysCommits ==
  /\ txn.pc = "parent"
  /\ db' = txn.parent
  /\ txn' = IF txn.mode = "commit" THEN [txn EXCEPT !.pc = "event"] ELSE NoTxn
  /\ UNCHANGED <<subscriber, pool, template, stops>>

FinishParent ==
  /\ txn.pc = "parent"
  /\ IF txn.mode = "commit"
       THEN db' = txn.parent /\ txn' = [txn EXCEPT !.pc = "event"]
       ELSE txn' = NoTxn /\ UNCHANGED db
  /\ UNCHANGED <<subscriber, pool, template, stops>>

\* A rejected block that was to be connected keeps its header.
Reject ==
  /\ txn.pc = "rejected"
  /\ db' = IF txn.mode = "commit" THEN txn.parent ELSE db
  /\ txn' = NoTxn
  /\ UNCHANGED <<subscriber, pool, template, stops>>

\* The event, and the reply, by which the library drops requests.  It drops the
\* requests in a connected block by itself, and they are among those.
SendEvent ==
  /\ txn.pc = "event"
  /\ subscriber' = db.tip
  /\ mempool' = mempool \ txn.removed
  /\ txn' = NoTxn
  /\ UNCHANGED <<db, conflicts, template, stops>>

\* Mutant of NoLongerMinable: the requests on the new tip are removed.
NoLongerMinable_Parents(b) == SeenOn(db, Parent[b])

\* Requests on the disconnected block can be in no block on the new tip.
NoLongerMinable(b) == SeenOn(db, b)

disconnect_block ==
  /\ Idle /\ db.tip # NoBlock
  /\ db' = [db EXCEPT !.tip = Parent[db.tip]]
  /\ txn' = [pc |-> "event", mode |-> "commit", removed |-> NoLongerMinable(db.tip)]
  /\ UNCHANGED <<subscriber, pool, template, stops>>

-----------------------------------------------------------------------------
(* accept_tx                                                               *)

\* handle_m8 with no list of accepted requests: only the block bid on counts.
Minable(m) == Prev[m] = db.tip

\* Mutant of accept_tx: rival requests are not reported.
accept_tx_NoConflicts(m) ==
  /\ Idle /\ m \notin mempool /\ Minable(m)
  /\ db' = [db EXCEPT !.seen = @ \cup {m}]
  /\ mempool' = mempool \cup {m}
  /\ UNCHANGED <<txn, subscriber, conflicts, template, stops>>

accept_tx(m) ==
  /\ Idle /\ m \notin mempool /\ Minable(m)
  /\ conflicts' = conflicts \cup {{m, r} : r \in SeenRivals(db, m)}
  /\ db' = [db EXCEPT !.seen = @ \cup {m}]
  /\ mempool' = mempool \cup {m}
  /\ UNCHANGED <<txn, subscriber, template, stops>>

\* External: the node's mempool drops a request.
Leaves(m) ==
  /\ Idle /\ m \in mempool
  /\ mempool' = mempool \ {m}
  /\ conflicts' = {c \in conflicts : m \notin c}
  /\ UNCHANGED <<db, txn, subscriber, template, stops>>

-----------------------------------------------------------------------------
(* The auction of a template                                               *)

StartTemplate ==
  /\ template.pc # "seen" /\ db.tip # NoBlock
  /\ template' = [pc |-> "seen", parent |-> db.tip, seen |-> SeenOn(db, db.tip),
                  bids |-> {}, offered |-> {}]
  /\ UNCHANGED <<db, txn, subscriber, pool, stops>>

\* bmm_auction_winners: of equal fees the first one met wins.
Wins(m, bids) == \A r \in bids : Slot[r] = Slot[m] => Fee[r] <= Fee[m]

OnePerSlot(ms) == \A m, r \in ms : Slot[m] = Slot[r] => m = r
Winners(bids) ==
  {ws \in SUBSET {m \in bids : Wins(m, bids)} :
     OnePerSlot(ws) /\ {Slot[m] : m \in ws} = {Slot[m] : m \in bids}}

\* bmm_bid_fee finds no fee for a request that has left the mempool.  The
\* library fills the template from its mempool, which is still on the parent.
SettleAuction ==
  /\ template.pc = "seen" /\ template.parent = db.tip /\ Idle
  /\ \E ws \in Winners(template.seen \cap mempool) :
       LET excluded == template.seen \ ws
       IN  \E ms \in SUBSET (mempool \ excluded) :
             /\ \A c \in conflicts : ~(c \subseteq ms)
             /\ template' = [template EXCEPT !.pc = "done", !.bids = ms, !.offered = mempool]
  /\ UNCHANGED <<db, txn, subscriber, pool, stops>>

DropTemplate ==
  /\ template # NoTemplate
  /\ template' = NoTemplate
  /\ UNCHANGED <<db, txn, subscriber, pool, stops>>

-----------------------------------------------------------------------------

\* The process stops, or a commit fails and stops it; it starts again with an
\* empty mempool, which it fills through accept_tx.
Stop ==
  /\ stops < MaxStops /\ stops' = stops + 1
  /\ txn' = NoTxn /\ mempool' = {} /\ conflicts' = {} /\ template' = NoTemplate
  /\ subscriber' = db.tip
  /\ UNCHANGED db

Init ==
  /\ db = [tip |-> NoBlock, header |-> {}, seen |-> {}]
  /\ txn = NoTxn /\ subscriber = NoBlock
  /\ mempool = {} /\ conflicts = {} /\ template = NoTemplate /\ stops = 0

Next ==
  \/ \E b \in Block, mode \in {"commit", "dry"} : connect_block_with_mode(mode, b)
  \/ FinishChild \/ FinishParent \/ Reject \/ SendEvent \/ disconnect_block
  \/ \E m \in Bid : accept_tx(m) \/ Leaves(m)
  \/ StartTemplate \/ SettleAuction \/ DropTemplate \/ Stop

Spec == Init /\ [][Next]_vars

-----------------------------------------------------------------------------
(* Properties                                                              *)

\* The committed databases hold a tip whose header, and whose ancestors'
\* headers, are stored; transactions in the mempool have been seen.
TypeOK ==
  /\ db.header \subseteq Block /\ db.tip \in db.header \cup {NoBlock}
  /\ \A b \in db.header : Parent[b] \in db.header \cup {NoBlock}
  /\ mempool \subseteq db.seen /\ db.seen \subseteq Bid

\* When the library has its reply, every request in the mempool bids on the
\* tip: none is left from before a block, a reorganisation or a restart.
BidsOnTip == (\A m \in mempool : Minable(m)) \/ txn # NoTxn

\* A dry run, accepted or rejected, interrupted or not, changes nothing.
DryRunLeavesNoTrace == [][~Idle /\ txn.mode = "dry" => UNCHANGED db]_vars

\* Subscribers are told of a block only once it is committed, and before the
\* next one is.
EventsFollowCommits == subscriber # db.tip => txn # NoTxn /\ txn.pc = "event"

\* What follows the enforcer, the library's mempool and the subscribers, is in
\* step with the committed chain.
FollowersInStep == BidsOnTip /\ EventsFollowCommits

\* A template takes one request of a sidechain, whatever arrived since the
\* auction was settled.
OneBidPerSlot == template.pc = "done" => OnePerSlot(template.bids)

\* If no request arrived meanwhile, the one it takes had the highest fee of
\* those that were there.
HighestBidWins ==
  template.pc = "done" /\ template.offered \subseteq template.seen =>
    \A m \in template.bids, r \in template.offered : Slot[r] = Slot[m] => Fee[r] <= Fee[m]

\* A template takes one request of a sidechain, one with the highest fee unless
\* another arrived since the auction was settled.
AuctionOutcome == OneBidPerSlot /\ HighestBidWins
=============================================================================
