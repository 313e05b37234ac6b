---------------------------- MODULE ChainHistory ----------------------------
(***************************************************************************)
(* The history predicates of DbsHistory, said of every database state a    *)
(* disconnect may return to, each relative to its own height, and which    *)
(* treasury outputs are unspent.  The invariants here are inductive together*)
(* with IndInv of Validator.                                               *)
(***************************************************************************)
EXTENDS Validator, DbsHistory

\* After the block at height h.
SettledOK(db, h) ==
  /\ HistoryOK(db, h)
  /\ FreshOK(db, h)
  /\ h < ActivationHeight => DOMAIN db.pending_m6ids = {}

\* The inductive invariant behind what the project says of votes, ages and the
\* order of bundles: the bounds hold of the committed databases, of every
\* database state that disconnect_block can return to, and of the block being
\* connected.
VotesInv ==
  /\ SettledOK(saved.dbs, tip)
  /\ \A h \in DOMAIN stored :
       /\ SettledOK(stored[h].start, h - 1)
       /\ \A n \in DOMAIN stored[h].entries : HistoryOK(stored[h].entries[n].before, h)
  /\ Connecting => /\ Height >= ActivationHeight
                   /\ HistoryOK(dbs, Height)
                   /\ \A n \in DOMAIN cur : HistoryOK(cur[n].before, Height)
  /\ phase = "coinbase" => /\ OpenProposals(dbs, blk.seen, Height)
                           /\ OpenBundles(dbs, blk.seen, Height)
  /\ phase = "txs" => FreshOK(dbs, Height)

-----------------------------------------------------------------------------
\* A block names in its M4 only sidechains that are still active after it:
\* connect_block deactivates none, and disconnect_block takes the M4 of a
\* block away together with the sidechains activated in it.
ActionsInv ==
  /\ \A h \in DOMAIN stored : \A n \in DOMAIN stored[h].entries :
       AckedSlots(stored[h].entries[n].diff) \subseteq DOMAIN EndOf(h).pending_m6ids
  /\ Connecting =>
       /\ DOMAIN saved.dbs.pending_m6ids \subseteq DOMAIN dbs.pending_m6ids
       /\ \A n \in DOMAIN cur :
            AckedSlots(cur[n].diff) \subseteq DOMAIN dbs.pending_m6ids

-----------------------------------------------------------------------------
\* Outside a block the unspent treasury outputs are the ctips, of the committed
\* databases and of those before every stored block.  Inside a block they are
\* the ctips and the outputs waiting to be consolidated, none of which was ever
\* a ctip; coinbase messages do not touch them.
CtipInv ==
  /\ saved.utxos = Ctips(saved.dbs)
  /\ \A h \in DOMAIN stored :
       /\ stored[h].utxos = Ctips(stored[h].start)
       /\ stored[h].entries # <<>> =>
            stored[h].entries[1].utxos = Ctips(stored[h].start)
  /\ phase \in {"idle", "coinbase", "failing"} \/ (phase = "undo" /\ cur = <<>>) =>
       utxos = Ctips(dbs)
  /\ phase # "txs" => DOMAIN blk.uncons = {}
  /\ phase \in {"coinbase", "failing"} => utxos = saved.utxos
  /\ Connecting /\ cur # <<>> => cur[1].utxos = saved.utxos
  /\ phase \in {"failing", "txs"} => cur # <<>>
  /\ phase = "txs" =>
       /\ utxos = Ctips(dbs) \cup DOMAIN blk.uncons
       /\ DOMAIN blk.uncons \cap DOMAIN dbs.ctip_outpoint_to_value_seq = {}
=============================================================================
