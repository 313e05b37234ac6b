----------------------------- MODULE Validator ------------------------------
(***************************************************************************)
(* Connecting and disconnecting blocks (connect_block, disconnect_block    *)
(* in lib/validator/task/mod.rs) inside LMDB write transactions.           *)
(*                                                                         *)
(* A block is connected message by message and transaction by transaction; *)
(* every diff is applied at once and recorded.  Everything happens in one  *)
(* write transaction, which is committed when the block is final and       *)
(* aborted when the block is rejected or the process dies.                 *)
(*                                                                         *)
(* The chain on top of which blocks arrive is any chain Bitcoin Core can   *)
(* hand over: blocks contain any messages and transactions of the sets     *)
(* Message and TxShape, and the tip may be disconnected at any time.       *)
(***************************************************************************)
EXTENDS TransactionHandler, DbsInvariant

CONSTANTS
  ActivationHeight,  \* bip300_activation_height
  Message,           \* the coinbase messages miners use
  TxShape,           \* the transactions users send, without their inputs
  MaxHeight,         \* bound: no block above this height
  MaxTxs,            \* bound: transactions per block
  KeepBlocks         \* bound: stored diffs are kept for the last KeepBlocks
                     \* blocks only, so reorgs are at most KeepBlocks - 1 deep

M1Message == [type : {"M1"}, slot : Slot, desc : Description]
M2Message == [type : {"M2"}, slot : Slot, desc : Description]
M3Message == [type : {"M3"}, slot : Slot, m6id : M6id]
VoteValue == 0..65535
M4Message == [type : {"M4"}, version : {"RepeatPrevious", "LeadingBy50"}]
             \cup [type : {"M4"}, version : {"OneByte", "TwoBytes"},
                   upvotes : Seq(VoteValue)]
M7Message == [type : {"M7"}, slot : Slot, hash : STRING]

BmmRequest == [slot : Slot, hash : STRING, prev : {"parent", "other"}]

Shape == [other : BOOLEAN, outs : Seq(TxOut), shifted : BOOLEAN,
          payout : M6id, m8 : SUBSET BmmRequest]

ASSUME ValidatorAssumption ==
  /\ ActivationHeight \in Nat /\ MaxHeight \in Nat /\ MaxTxs \in Nat
  /\ KeepBlocks \in Nat \ {0}
  /\ Message \subseteq M1Message \cup M2Message \cup M3Message \cup M4Message
                       \cup M7Message
  /\ TxShape \subseteq Shape

VARIABLES
  phase,   \* "idle", or what the open write transaction is doing
  tip,     \* height of current_chain_tip, -1 if there is none
  dbs,     \* the databases as the open write transaction sees them
  utxos,   \* the treasury outputs Bitcoin Core holds unspent
  cur,     \* the diffs applied so far by the block being connected, or
           \* still to be undone of the block being disconnected
  blk,     \* what else connect_block has gathered about the block
  stored,  \* block_hashes.diff: height -> the diffs of a connected block
  saved    \* the committed dbs and utxos

vars == <<phase, tip, dbs, utxos, cur, blk, stored, saved>>

(***************************************************************************)
(* An element of cur is a diff with the deposits of its block event.  As   *)
(* auxiliary information it has the databases and utxos before the diff    *)
(* was applied; a stored block has those before the block.                 *)
(***************************************************************************)
EntryOK(e) ==
  /\ e.diff.type \in DiffType
  /\ DbsOK(e.before)
  /\ e.utxos \subseteq Outpoint

EntriesOK(es) ==
  /\ Len(es) \in Nat /\ es = [i \in 1..Len(es) |-> es[i]]
  /\ \A i \in DOMAIN es : EntryOK(es[i])

EmptyBlk == [seen |-> {}, bmm |-> EmptyMap, m8 |-> {}, uncons |-> EmptyMap,
             txs |-> 0]

Init ==
  /\ phase = "idle"
  /\ tip = -1
  /\ dbs = EmptyDbs
  /\ utxos = {}
  /\ cur = <<>>
  /\ blk = EmptyBlk
  /\ stored = EmptyMap
  /\ saved = [dbs |-> EmptyDbs, utxos |-> {}]

-----------------------------------------------------------------------------
\* The height of the block being connected.
Height == tip + 1

\* DiffBuilder::apply
ApplyAndRecord(d, deposits) ==
  /\ dbs' = Apply(dbs, d, Height)
  /\ cur' = Append(cur, [diff |-> d, deposits |-> deposits, before |-> dbs,
                         utxos |-> utxos])

ApplyAny(diffs, deposits) ==
  IF diffs = <<>> THEN UNCHANGED <<dbs, cur>>
                  ELSE ApplyAndRecord(diffs[1], deposits)

\* The write transaction is dropped.
Abort ==
  /\ phase' = "idle"
  /\ dbs' = saved.dbs
  /\ utxos' = saved.utxos
  /\ cur' = <<>>
  /\ blk' = EmptyBlk
  /\ UNCHANGED <<tip, stored, saved>>

\* The stored M4 actions of the parent block.
PreviousActions ==
  LET parent == IF tip \in DOMAIN stored THEN stored[tip].entries ELSE <<>>
      I == {i \in DOMAIN parent : parent[i].diff.type = "AckBundles"}
  IN  IF I = {} THEN EmptyMap ELSE parent[CHOOSE i \in I : TRUE].diff.actions

MessageRejected(m) ==
  \/ MessageKey(m) \in blk.seen
  \/ m.type = "M3" /\ M3Rejected(dbs, m.slot, m.m6id)
  \/ m.type = "M4" /\ M4Rejected(dbs, PreviousActions, m)

MessageDiffs(m) ==
  CASE m.type = "M1" -> handle_m1_propose_sidechain(dbs, Height, m.slot, m.desc)
    [] m.type = "M2" -> handle_m2_ack_sidechain(dbs, Height, m.slot, m.desc)
    [] m.type = "M3" -> << handle_m3_propose_bundle(m.slot, m.m6id) >>
    [] m.type = "M4" -> handle_m4_ack_bundles(dbs, PreviousActions, m)
    [] m.type = "M7" -> <<>>

(***************************************************************************)
(* connect_block, step by step.                                            *)
(***************************************************************************)

\* record_block and the commit.  The model forgets the diffs of old blocks.
Record(entries) ==
  /\ tip' = tip + 1
  /\ stored' = LET old == {h \in DOMAIN stored : h <= tip + 1 - KeepBlocks}
               IN  Put(Delete(stored, old), tip + 1,
                       [start |-> saved.dbs, utxos |-> saved.utxos,
                        entries |-> entries])
  /\ saved' = [dbs |-> dbs, utxos |-> utxos]

\* Below the activation height a block is recorded with an empty diff.
ConnectPreActivationBlock ==
  /\ phase = "idle"
  /\ tip < MaxHeight
  /\ tip + 1 < ActivationHeight
  /\ Record(<<>>)
  /\ UNCHANGED <<phase, dbs, utxos, cur, blk>>

BeginConnectBlock ==
  /\ phase = "idle"
  /\ tip < MaxHeight
  /\ tip + 1 >= ActivationHeight
  /\ phase' = "coinbase"
  /\ UNCHANGED <<tip, dbs, utxos, cur, blk, stored, saved>>

HandleCoinbaseMessage(m) ==
  /\ phase = "coinbase"
  /\ ~MessageRejected(m)
  /\ ApplyAny(MessageDiffs(m), EmptyMap)
  /\ blk' = [blk EXCEPT !.seen = @ \cup {MessageKey(m)},
                        !.bmm = IF m.type = "M7" THEN Put(@, m.slot, m.hash)
                                                 ELSE @]
  /\ UNCHANGED <<phase, tip, utxos, stored, saved>>

RejectCoinbaseMessage(m) ==
  /\ phase = "coinbase"
  /\ MessageRejected(m)
  /\ Abort

\* After the coinbase messages.  A block without M4 counts as abstaining on
\* every sidechain, which has no effect.
HandleFailedSidechainProposals ==
  /\ phase = "coinbase"
  /\ ApplyAndRecord(handle_failed_sidechain_proposals(dbs, Height), EmptyMap)
  /\ phase' = "failing"
  /\ UNCHANGED <<tip, utxos, blk, stored, saved>>

HandleFailedM6ids ==
  /\ phase = "failing"
  /\ ApplyAndRecord(handle_failed_m6ids(dbs, Height), EmptyMap)
  /\ phase' = "txs"
  /\ UNCHANGED <<tip, utxos, blk, stored, saved>>

\* A txid that names no treasury output the databases know of.
UsedTxids == {o[1] : o \in DOMAIN dbs.ctip_outpoint_to_value_seq
                           \cup DOMAIN blk.uncons}

FreshTxid == CHOOSE t \in Txid : t \notin UsedTxids

TxRejected(tx) ==
  \/ M5M6Rejected(dbs, blk.uncons, tx, TRUE)
  \/ M8Rejected(blk.bmm, tx)
  \/ \E r \in tx.m8 : r.slot \in blk.m8

\* Bitcoin Core hands over no transaction that creates value.
ValueOf(o) == IF o \in DOMAIN blk.uncons
              THEN blk.uncons[o].value
              ELSE dbs.ctip_outpoint_to_value_seq[o].value

Funded(tx) ==
  \/ tx.other
  \/ MapThenSumSet(LAMBDA i : tx.outs[i].value, DOMAIN tx.outs)
       <= MapThenSumSet(ValueOf, tx.ins)

Spending(shape, ins) ==
  [ins |-> ins, other |-> shape.other, outs |-> shape.outs,
   shifted |-> shape.shifted, payout |-> shape.payout, m8 |-> shape.m8]

HandleTransaction(tx) ==
  /\ phase = "txs"
  /\ blk.txs < MaxTxs
  /\ Funded(tx)
  /\ Txid \ UsedTxids # {}
  /\ ~TxRejected(tx)
  /\ ApplyAny(handle_m5_m6(dbs, blk.uncons, tx, FreshTxid),
              Deposits(dbs, blk.uncons, tx))
  /\ utxos' = (utxos \ tx.ins)
              \cup {NewCtip(dbs, tx, FreshTxid, s).outpoint :
                      s \in TxSlots(dbs, tx)}
  /\ blk' = [blk EXCEPT !.uncons = UnconsAfter(dbs, @, tx, FreshTxid),
                        !.m8 = @ \cup {r.slot : r \in tx.m8},
                        !.txs = @ + 1]
  /\ UNCHANGED <<phase, tip, stored, saved>>

RejectTransaction(tx) ==
  /\ phase = "txs"
  /\ blk.txs < MaxTxs
  /\ Funded(tx)
  /\ TxRejected(tx)
  /\ Abort

\* finalize_connect_block
FinalizeConnectBlock ==
  /\ phase = "txs"
  /\ DOMAIN blk.uncons = {}
  /\ phase' = "idle"
  /\ cur' = <<>>
  /\ blk' = EmptyBlk
  /\ Record(cur)
  /\ UNCHANGED <<dbs, utxos>>

RejectUnconsolidated ==
  /\ phase = "txs"
  /\ DOMAIN blk.uncons # {}
  /\ Abort

(***************************************************************************)
(* disconnect_block: undo the stored diff, last part first.                *)
(***************************************************************************)
BeginDisconnectBlock ==
  /\ phase = "idle"
  /\ tip \in DOMAIN stored
  /\ tip - 1 \in DOMAIN stored \cup {-1}
  /\ phase' = "undo"
  /\ cur' = stored[tip].entries
  /\ UNCHANGED <<tip, dbs, utxos, blk, stored, saved>>

UndoDiff ==
  /\ phase = "undo"
  /\ cur # <<>>
  /\ LET last == cur[Len(cur)]
     IN  /\ ~UndoFails(dbs, last.diff)
         /\ dbs' = Undo(dbs, last.diff)
         /\ utxos' = last.utxos
         /\ cur' = SubSeq(cur, 1, Len(cur) - 1)
  /\ UNCHANGED <<phase, tip, blk, stored, saved>>

\* The tip moves back and the transaction is committed.  The code leaves the
\* diff of the block in place, under its hash.
FinishDisconnectBlock ==
  /\ phase = "undo"
  /\ cur = <<>>
  /\ phase' = "idle"
  /\ tip' = tip - 1
  /\ stored' = Delete(stored, {tip})
  /\ saved' = [dbs |-> dbs, utxos |-> utxos]
  /\ UNCHANGED <<dbs, utxos, cur, blk>>

\* The process stops inside a write transaction and starts again.
Crash ==
  /\ phase # "idle"
  /\ Abort

Next ==
  \/ ConnectPreActivationBlock
  \/ BeginConnectBlock
  \/ \E m \in Message : HandleCoinbaseMessage(m)
  \/ \E m \in Message : RejectCoinbaseMessage(m)
  \/ HandleFailedSidechainProposals
  \/ HandleFailedM6ids
  \/ \E shape \in TxShape, ins \in SUBSET utxos :
       HandleTransaction(Spending(shape, ins))
  \/ \E shape \in TxShape, ins \in SUBSET utxos :
       RejectTransaction(Spending(shape, ins))
  \/ FinalizeConnectBlock
  \/ RejectUnconsolidated
  \/ BeginDisconnectBlock
  \/ UndoDiff
  \/ FinishDisconnectBlock
  \/ Crash

Spec == Init /\ [][Next]_vars

-----------------------------------------------------------------------------
Connecting == phase \in {"coinbase", "failing", "txs"}

\* The height of the newest block the databases know about.
TopHeight == IF Connecting THEN tip + 1 ELSE tip

\* The variables have their types: in particular every vote count and every
\* treasury_utxo_count that connect_block and disconnect_block compute is a
\* natural number, and every database keeps its key and value types.
TypeOK ==
  /\ phase \in {"idle", "coinbase", "failing", "txs", "undo"}
  /\ tip \in Int /\ tip >= -1
  /\ DbsOK(dbs) /\ DbsOK(saved.dbs)
  /\ utxos \subseteq Outpoint /\ saved.utxos \subseteq Outpoint
  /\ EntriesOK(cur)
  /\ DOMAIN blk = DOMAIN EmptyBlk
  /\ IsMap(blk.uncons, Outpoint, [slot : Slot, value : Nat])
  /\ DOMAIN stored \subseteq Nat
  /\ \A h \in DOMAIN stored : /\ DbsOK(stored[h].start)
                             /\ stored[h].utxos \subseteq Outpoint
                             /\ EntriesOK(stored[h].entries)

\* disconnect_block is the inverse of connect_block, diff by diff: undoing the
\* stored diffs of the tip, last one first, takes the databases back through
\* exactly the states that connect_block went through, down to the one before
\* the block: votes, order of the pending bundles and treasury history
\* included.
UndoRestores ==
  phase = "undo" =>
    LET entries == stored[tip].entries
    IN  dbs = IF cur = entries THEN saved.dbs
              ELSE entries[Len(cur) + 1].before

\* What disconnect_block leaves behind is what was there before the block.
DisconnectRestores ==
  [][phase = "undo" /\ phase' = "idle" /\ tip' < tip =>
       saved'.dbs = stored[tip].start]_vars

\* disconnect_block never meets an UndoError: no vote count underflows, and no
\* key that undo reads is missing.
UndoNeverFails ==
  phase = "undo" /\ cur # <<>> => ~UndoFails(dbs, cur[Len(cur)].diff)

\* A proposal has at most one vote per block after the one that proposed it,
\* whatever M1 and M2 messages, activations, failures and reorgs happened; no
\* proposal from a disconnected block is left (so the saturating ages of
\* handle_m2_ack_sidechain never saturate).
ProposalVotesWithinAge ==
  \A id \in DOMAIN dbs.proposal_id_to_sidechain :
    LET p == dbs.proposal_id_to_sidechain[id]
    IN  p.vote_count + p.proposal_height <= TopHeight

\* An active sidechain was acked by more blocks than the threshold of a free
\* or of a used slot, all after its proposal and within that slot's window.
ActivationEarned ==
  \A s \in DOMAIN dbs.sidechain :
    LET sc == dbs.sidechain[s]
        age == sc.activation_height - sc.proposal_height
    IN  /\ sc.activation_height <= TopHeight
        /\ sc.vote_count <= age
        /\ \/ /\ sc.vote_count > UnusedSlotActivationThreshold
              /\ age <= UnusedSlotProposalMaxAge
           \/ /\ sc.vote_count > WithdrawalBundleInclusionThreshold
              /\ age <= WithdrawalBundleMaxAge

\* handle_failed_sidechain_proposals drops no proposal that could still be
\* activated: even if every later block acked it, it would stay below the
\* threshold of its slot until its window closes.
OnlyHopelessProposalsFail ==
  [][phase = "coinbase" /\ phase' = "failing" =>
       \A id \in DOMAIN dbs.proposal_id_to_sidechain
                 \ DOMAIN dbs'.proposal_id_to_sidechain :
         LET p == dbs.proposal_id_to_sidechain[id]
             left == ProposalMaxAge(dbs, id[1]) - (tip + 1 - p.proposal_height)
         IN  left <= 0
             \/ p.vote_count + left <= ActivationThreshold(dbs, id[1])]_vars

\* Every active sidechain has a list of pending bundles and no other slot has
\* one.  The list is in the order of proposal and has no bundle twice, also
\* after failed and paid bundles were removed and put back by a reorg: M4
\* votes address the bundles by their place in this list.
PendingChronological ==
  /\ DOMAIN dbs.pending_m6ids = DOMAIN dbs.sidechain
  /\ \A s \in DOMAIN dbs.pending_m6ids :
       LET pending == dbs.pending_m6ids[s]
       IN  \A i, j \in DOMAIN pending :
             i < j => /\ pending[i].proposal_height < pending[j].proposal_height
                      /\ pending[i].m6id # pending[j].m6id

\* RepeatPrevious finds the pending bundles of every sidechain the parent's M4
\* voted on, also when a reorg has deactivated or replaced sidechains in
\* between: the lookup that handle_m4_repeat_previous treats as a database
\* error never fails.
RepeatPreviousResolves ==
  phase = "coinbase" => ~RepeatRejected(dbs, PreviousActions)

\* A bundle has at most one vote per block, the block that proposed it
\* included, on top of the one it starts with, whichever M4 encodings were
\* used.
BundleVotesWithinAge ==
  \A s \in DOMAIN dbs.pending_m6ids : \A i \in DOMAIN dbs.pending_m6ids[s] :
    LET b == dbs.pending_m6ids[s][i]
    IN  b.vote_count + b.proposal_height <= TopHeight + 2

\* When the inclusion threshold is more than a third of the maximal age (it is
\* half of it on every network), at most one bundle of a sidechain can be paid
\* out at any time: a block cannot drain a treasury into two rival bundles.
AtMostOnePayable ==
  /\ 3 * WithdrawalBundleInclusionThreshold > WithdrawalBundleMaxAge + 1
  /\ phase \in {"idle", "txs"}
  => \A s \in DOMAIN dbs.pending_m6ids :
       \A i, j \in DOMAIN dbs.pending_m6ids[s] :
         /\ dbs.pending_m6ids[s][i].vote_count > WithdrawalBundleInclusionThreshold
         /\ dbs.pending_m6ids[s][j].vote_count > WithdrawalBundleInclusionThreshold
         => i = j

\* The four treasury databases tell the same story at every step of
\* connect_block and disconnect_block: ctip is the last treasury output of its
\* slot, outputs are numbered without gaps, and every output that was ever ctip
\* is found again by its outpoint, with its number and value.
TreasuryConsistent == TreasuryOK(dbs)

\* The treasury outputs unspent on the main chain are the current ctip of each
\* slot and, inside a block, the outputs waiting to be consolidated.  So the
\* assertion of fill_ctips cannot fail, and no treasury output is lost.
CtipsAreTheUnspentOutputs ==
  phase # "undo" =>
    utxos = {dbs.ctip[s].outpoint : s \in DOMAIN dbs.ctip} \cup DOMAIN blk.uncons

\* What the events of a block say was deposited minus what was paid out.
NetDeposits(entries, s) ==
  MapThenSumSet(LAMBDA i : IF s \in DOMAIN entries[i].deposits
                           THEN entries[i].deposits[s].value ELSE 0,
                DOMAIN entries)
  - MapThenSumSet(LAMBDA i : BundleValue[entries[i].diff.m6id],
                  {i \in DOMAIN entries : /\ entries[i].diff.type = "M6"
                                          /\ entries[i].diff.slot = s})

TreasuryValue(db, s) == IF s \in DOMAIN db.ctip THEN db.ctip[s].value ELSE 0

\* A sidechain that adds the deposit events of a block to what its treasury
\* held before, and subtracts the bundles paid, gets the value the treasury
\* holds, whatever the deposits were consolidated with.
TreasuryMatchesEvents ==
  Connecting =>
    \A s \in Slot :
      TreasuryValue(saved.dbs, s) + NetDeposits(cur, s)
        = TreasuryValue(dbs, s)
          + MapThenSumSet(LAMBDA o : blk.uncons[o].value,
                          {o \in DOMAIN blk.uncons : blk.uncons[o].slot = s})

\* Two deposits into one sidechain in one block have different sequence
\* numbers, so that the sidechain can tell them apart.
DepositSequenceNumbersDistinct ==
  \A h \in DOMAIN stored :
    LET deposits(i) == stored[h].entries[i].deposits
    IN  \A i, j \in DOMAIN stored[h].entries : i # j =>
          \A s \in DOMAIN deposits(i) \cap DOMAIN deposits(j) :
            deposits(i)[s].seq # deposits(j)[s].seq

-----------------------------------------------------------------------------
(***************************************************************************)
(* The invariant behind UndoRestores: every diff that was recorded can be  *)
(* undone in the databases it led to, and leads back to the ones before.   *)
(***************************************************************************)

\* The databases after the first n entries, if they are `end` after all.
After(entries, end, n) == IF n = Len(entries) THEN end ELSE entries[n + 1].before

Linked(entries, start, end) ==
  /\ After(entries, end, 0) = start
  /\ \A n \in DOMAIN entries :
       /\ ~UndoFails(After(entries, end, n), entries[n].diff)
       /\ Undo(After(entries, end, n), entries[n].diff) = entries[n].before

\* The databases after the stored block at height h.
EndOf(h) == IF h + 1 \in DOMAIN stored THEN stored[h + 1].start ELSE saved.dbs

AllDbsInv ==
  /\ DbsInv(dbs) /\ DbsInv(saved.dbs)
  /\ \A n \in DOMAIN cur : DbsInv(cur[n].before)
  /\ \A h \in DOMAIN stored :
       /\ DbsInv(stored[h].start)
       /\ \A n \in DOMAIN stored[h].entries : DbsInv(stored[h].entries[n].before)

StoredLinked ==
  \A h \in DOMAIN stored :
    /\ h <= tip
    /\ h < tip => h + 1 \in DOMAIN stored
    /\ Linked(stored[h].entries, stored[h].start, EndOf(h))

PhaseInv ==
  /\ phase = "idle" => dbs = saved.dbs /\ cur = <<>>
  /\ Connecting => Linked(cur, saved.dbs, dbs)
  /\ phase = "undo" =>
       LET entries == stored[tip].entries
       IN  /\ tip \in DOMAIN stored
           /\ Len(cur) <= Len(entries)
           /\ \A n \in DOMAIN cur : cur[n] = entries[n]
           /\ dbs = After(entries, saved.dbs, Len(cur))

\* The inductive invariant of the proofs: between any two diffs of
\* connect_block and disconnect_block the databases are consistent, and the
\* stored diffs form one chain of undoable steps from the oldest stored block
\* up to the committed databases.
IndInv == TypeOK /\ AllDbsInv /\ StoredLinked /\ PhaseInv
=============================================================================
