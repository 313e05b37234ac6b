--------------------------- MODULE TreasuryProofs ---------------------------
(***************************************************************************)
(* The treasury outputs unspent on the main chain are the ctips and, inside*)
(* a block, the outputs waiting to be consolidated: CtipInv of ChainHistory*)
(* is inductive.                                                           *)
(***************************************************************************)
EXTENDS ChainHistory, ValidatorProofs, DbsHistoryProofs

\* The first entry of the diff builder stays where it is.
LEMMA FirstEntry ==
  ASSUME IndInv, NEW diffs, NEW deposits, ApplyAny(diffs, deposits)
  PROVE  /\ cur # <<>> => cur' # <<>> /\ cur'[1] = cur[1]
         /\ cur = <<>> /\ cur' # <<>> => cur'[1].utxos = utxos
         /\ diffs # <<>> => cur' # <<>>
<1>1. EntriesOK(cur)
  BY DEF IndInv, TypeOK
<1>2. CASE diffs = <<>>
  BY <1>2 DEF ApplyAny
<1>3. CASE diffs # <<>>
  <2> DEFINE e == [diff |-> diffs[1], deposits |-> deposits, before |-> dbs,
                   utxos |-> utxos]
             n == Len(cur)
  <2>1. cur' = Append(cur, e)
    BY <1>3 DEF ApplyAny, ApplyAndRecord
  <2>2. e.utxos = utxos
    OBVIOUS
  <2> HIDE DEF e
  <2>3. n \in Nat
    BY <1>1, Zenon DEF EntriesOK
  <2>4. /\ DOMAIN cur = 1..n /\ DOMAIN cur' = 1..(n + 1)
        /\ \A k \in 1..n : cur'[k] = cur[k]
        /\ cur'[n + 1] = e
    BY <1>1, <2>1, <2>3, AppendEntries
  <2>5. DOMAIN cur' # {}
    <3> HIDE DEF n
    <3> QED BY <2>3, <2>4
  <2>6. cur' # <<>>
    BY <2>5
  <2>7. CASE cur # <<>>
    <3>1. n # 0
      BY <1>1, <2>7, FrontEntries
    <3> HIDE DEF n
    <3> QED BY <2>3, <2>4, <2>6, <2>7, <3>1
  <2>8. CASE cur = <<>>
    <3>1. n = 0
      BY <2>8
    <3> HIDE DEF n
    <3> QED BY <2>2, <2>4, <2>6, <2>8, <3>1
  <2> QED BY <2>7, <2>8
<1> QED
  BY <1>2, <1>3

\* A step of connect_block inside the block.
LEMMA ConnectingKeepsCtips ==
  ASSUME IndInv, CtipInv, Connecting, Connecting', UNCHANGED <<tip, stored, saved>>,
         NEW diffs, NEW deposits, ApplyAny(diffs, deposits),
         phase' # "coinbase" => cur # <<>> \/ diffs # <<>>,
         phase' # "txs" => /\ DOMAIN blk'.uncons = {} /\ utxos' = saved.utxos
                           /\ utxos' = Ctips(dbs'),
         phase' = "txs" =>
           /\ utxos' = Ctips(dbs') \cup DOMAIN blk'.uncons
           /\ DOMAIN blk'.uncons \cap DOMAIN dbs'.ctip_outpoint_to_value_seq = {}
  PROVE  CtipInv'
<1>1. /\ cur # <<>> => cur' # <<>> /\ cur'[1] = cur[1]
      /\ cur = <<>> /\ cur' # <<>> => cur'[1].utxos = utxos
      /\ diffs # <<>> => cur' # <<>>
  BY FirstEntry
<1>2. cur' # <<>> => cur'[1].utxos = saved.utxos
  <2>1. CASE cur # <<>>
    BY <1>1, <2>1 DEF CtipInv
  <2>2. CASE cur = <<>>
    <3>1. utxos = saved.utxos
      BY <2>2 DEF CtipInv, Connecting
    <3> QED BY <1>1, <2>2, <3>1
  <2> QED BY <2>1, <2>2
<1>3. /\ saved'.utxos = Ctips(saved'.dbs)
      /\ \A h \in DOMAIN stored' :
           /\ stored'[h].utxos = Ctips(stored'[h].start)
           /\ stored'[h].entries # <<>> =>
                stored'[h].entries[1].utxos = Ctips(stored'[h].start)
  BY DEF CtipInv
<1>4. phase' \in {"failing", "txs"} => cur' # <<>>
  BY <1>1
<1> QED
  BY <1>1, <1>2, <1>3, <1>4 DEF CtipInv, Connecting

\* The coinbase messages and the failures of the block.
LEMMA CoinbaseKeepsCtips ==
  ASSUME IndInv, CtipInv, NEW diffs, NEW deposits, ApplyAny(diffs, deposits),
         AllFit(dbs, diffs), UNCHANGED <<utxos, tip, stored, saved>>,
         diffs # <<>> => diffs[1].type # "M5" /\ diffs[1].type # "M6",
         phase \in {"coinbase", "failing"}, Connecting',
         phase' # "coinbase" => diffs # <<>>,
         blk'.uncons = blk.uncons
  PROVE  CtipInv'
<1>1. DbsOK(dbs) /\ Connecting
  BY DEF IndInv, TypeOK, Connecting
<1>2. SameTreasury(dbs, dbs')
  <2>1. dbs' = AppliedAny(dbs, diffs, Height)
    BY RecordedEntries
  <2>2. CASE diffs = <<>>
    BY <2>1, <2>2 DEF AppliedAny, SameTreasury
  <2>3. CASE diffs # <<>>
    <3> DEFINE d == diffs[1]
    <3>1. Fits(dbs, d) /\ dbs' = Apply(dbs, d, Height) /\ d.type # "M5" /\ d.type # "M6"
      BY <2>1, <2>3 DEF AppliedAny, AllFit
    <3> HIDE DEF d
    <3> QED BY <1>1, <3>1, OtherDiffsKeepTreasury
  <2> QED BY <2>2, <2>3
<1>3. Ctips(dbs') = Ctips(dbs)
  BY <1>2 DEF SameTreasury, Ctips
<1>4. /\ utxos = Ctips(dbs) /\ utxos = saved.utxos /\ DOMAIN blk.uncons = {}
  BY DEF CtipInv
<1> QED
  BY <1>1, <1>3, <1>4, ConnectingKeepsCtips

\* A message of the coinbase transaction.
LEMMA MessageKeepsCtips ==
  ASSUME IndInv, CtipInv, NEW m \in Message, HandleCoinbaseMessage(m)
  PROVE  CtipInv'
<1> DEFINE diffs == MessageDiffs(m)
<1>1. /\ phase = "coinbase" /\ ApplyAny(diffs, EmptyMap) /\ ~MessageRejected(m)
      /\ UNCHANGED <<phase, utxos, tip, stored, saved>>
  BY DEF HandleCoinbaseMessage
<1>2. AllFit(dbs, diffs)
  BY <1>1, MessageFits
<1>3. blk'.uncons = blk.uncons
  BY BlkOK DEF HandleCoinbaseMessage, UnconsOK, EmptyBlk
<1>4. diffs # <<>> => diffs[1].type # "M5" /\ diffs[1].type # "M6"
  <2>1. m.type \in {"M1", "M2", "M3", "M4", "M7"}
    BY ValidatorAssumption DEF M1Message, M2Message, M3Message, M4Message, M7Message
  <2> QED
    BY <2>1, Zenon DEF MessageDiffs, handle_m1_propose_sidechain, handle_m2_ack_sidechain,
                handle_m3_propose_bundle, handle_m4_ack_bundles
<1> HIDE DEF diffs
<1> QED
  BY <1>1, <1>2, <1>3, <1>4, CoinbaseKeepsCtips DEF Connecting

\* A transaction of the block.
LEMMA TransactionKeepsCtips ==
  ASSUME IndInv, CtipInv, NEW shape \in TxShape, NEW ins \in SUBSET utxos,
         HandleTransaction(Spending(shape, ins))
  PROVE  CtipInv'
<1> DEFINE tx == Spending(shape, ins)
           uncons == blk.uncons
           txid == FreshTxid
           diffs == handle_m5_m6(dbs, uncons, tx, txid)
           made == {OutpointFor(dbs, tx, txid, s) : s \in TxSlots(dbs, tx)}
           after == UnconsAfter(dbs, uncons, tx, txid)
           V == DOMAIN dbs.ctip_outpoint_to_value_seq
<1>1. /\ tx.outs \in Seq(TxOut) /\ tx.ins = ins
  BY ValidatorAssumption DEF Spending, Shape
<1>2. /\ phase = "txs" /\ ApplyAny(diffs, Deposits(dbs, uncons, tx))
      /\ ~TxRejected(tx) /\ Txid \ UsedTxids # {}
      /\ UNCHANGED <<phase, tip, stored, saved>>
  BY DEF HandleTransaction
<1>3. utxos' = (utxos \ tx.ins) \cup made
  BY DEF HandleTransaction, OutpointFor
<1>4. blk'.uncons = after
  BY BlkOK DEF HandleTransaction, UnconsOK, EmptyBlk
<1>5. ~M5M6Rejected(dbs, uncons, tx, TRUE)
  BY <1>2, Zenon DEF TxRejected
<1>6. ~FillCtipsRejected(dbs, uncons, tx)
  BY <1>5, Zenon DEF M5M6Rejected
<1>7. txid \in Txid /\ txid \notin UsedTxids
  BY <1>2 DEF FreshTxid
<1>8. FreshFor(dbs, txid) /\ \A o \in DOMAIN uncons : o[1] # txid
  BY <1>7 DEF FreshFor, UsedTxids
<1>9. /\ utxos = Ctips(dbs) \cup DOMAIN uncons /\ DOMAIN uncons \cap V = {}
      /\ cur # <<>>
  BY <1>2 DEF CtipInv
<1>10. DbsInv(dbs) /\ IsMap(uncons, Outpoint, [slot : Slot, value : Nat])
  BY DEF IndInv, AllDbsInv, TypeOK
<1>11. dbs' = AppliedAny(dbs, diffs, Height)
  BY <1>2, RecordedEntries
<1>12. tx.ins \subseteq Ctips(dbs) \cup DOMAIN uncons
  BY <1>1, <1>9
<1> HIDE DEF tx, txid, uncons
<1>13. CtipsPut(dbs, dbs', NewCtips(dbs, tx, txid))
  BY <1>5, <1>10, <1>11, TransactionCtips, Zenon
<1>14. /\ ((Ctips(dbs) \cup DOMAIN uncons) \ tx.ins) \cup made = Ctips(dbs') \cup DOMAIN after
       /\ DOMAIN after \cap DOMAIN dbs'.ctip_outpoint_to_value_seq = {}
  BY <1>1, <1>6, <1>8, <1>9, <1>10, <1>12, <1>13, UnspentAfterTransaction, Zenon
<1> HIDE DEF diffs, made, after
<1>15. /\ utxos' = Ctips(dbs') \cup DOMAIN blk'.uncons
       /\ DOMAIN blk'.uncons \cap DOMAIN dbs'.ctip_outpoint_to_value_seq = {}
  BY <1>3, <1>4, <1>9, <1>14
<1>16. Connecting /\ Connecting' /\ phase' = "txs"
  BY <1>2 DEF Connecting
<1> QED
  BY <1>2, <1>9, <1>15, <1>16, ConnectingKeepsCtips

\* record_block, and the commit.
LEMMA RecordKeepsCtips ==
  ASSUME IndInv, CtipInv, NEW entries, Record(entries), phase' = "idle",
         UNCHANGED <<dbs, utxos>>, utxos = Ctips(dbs), DOMAIN blk'.uncons = {},
         entries # <<>> => entries[1].utxos = saved.utxos
  PROVE  CtipInv'
<1>1. saved'.utxos = Ctips(saved'.dbs)
  BY RecordedBlocks
<1>2. ASSUME NEW h \in DOMAIN stored'
      PROVE  /\ stored'[h].utxos = Ctips(stored'[h].start)
             /\ stored'[h].entries # <<>> =>
                  stored'[h].entries[1].utxos = Ctips(stored'[h].start)
  <2>1. \/ h \in DOMAIN stored /\ stored'[h] = stored[h]
        \/ /\ stored'[h].start = saved.dbs
           /\ stored'[h].utxos = saved.utxos /\ stored'[h].entries = entries
    BY RecordedBlocks
  <2>2. CASE h \in DOMAIN stored /\ stored'[h] = stored[h]
    BY <2>2 DEF CtipInv
  <2>3. CASE /\ stored'[h].start = saved.dbs
             /\ stored'[h].utxos = saved.utxos /\ stored'[h].entries = entries
    BY <2>3 DEF CtipInv
  <2> QED BY <2>1, <2>2, <2>3
<1> QED
  BY <1>1, <1>2 DEF CtipInv, Connecting

\* The end of disconnect_block, and the commit.
LEMMA FinishDisconnectKeepsCtips ==
  ASSUME IndInv, CtipInv, FinishDisconnectBlock
  PROVE  CtipInv'
<1>1. /\ phase = "undo" /\ cur = <<>> /\ phase' = "idle"
      /\ UNCHANGED <<dbs, utxos, cur, blk>>
  BY DEF FinishDisconnectBlock
<1>2. utxos = Ctips(dbs) /\ DOMAIN blk.uncons = {}
  BY <1>1 DEF CtipInv
<1>3. saved'.utxos = Ctips(saved'.dbs)
  BY <1>2, RemainingBlocks
<1>4. \A h \in DOMAIN stored' : h \in DOMAIN stored /\ stored'[h] = stored[h]
  BY RemainingBlocks
<1> QED
  BY <1>1, <1>2, <1>3, <1>4 DEF CtipInv, Connecting

\* One step of disconnect_block.
LEMMA UndoKeepsCtips ==
  ASSUME IndInv, CtipInv, UndoDiff
  PROVE  CtipInv'
<1> DEFINE n == Len(cur)
           entries == stored[tip].entries
           start == stored[tip].start
<1>1. /\ phase = "undo" /\ cur # <<>> /\ UNCHANGED <<phase, tip, blk, stored, saved>>
      /\ dbs' = Undo(dbs, cur[n].diff) /\ utxos' = cur[n].utxos
      /\ cur' = SubSeq(cur, 1, n - 1)
  BY DEF UndoDiff
<1>2. ASSUME cur' = <<>>
      PROVE  utxos' = Ctips(dbs')
  <2>1. EntriesOK(cur)
    BY DEF IndInv, TypeOK
  <2>2. n \in Nat \ {0} /\ DOMAIN cur = 1..n /\ Len(cur') = n - 1
    BY <1>1, <2>1, FrontEntries
  <2>3. Len(cur') = 0
    BY <1>2
  <2>4. n = 1 /\ 1 \in DOMAIN cur
    <3> HIDE DEF n
    <3> QED BY <2>2, <2>3
  <2>5. dbs' = After(entries, saved.dbs, 0)
    <3>1. dbs' = After(entries, saved.dbs, n - 1)
      BY <1>1, UndoNext
    <3> QED BY <2>4, <3>1
  <2>6. tip \in DOMAIN stored /\ cur[1] = entries[1] /\ n <= Len(entries)
    BY <1>1, <2>4 DEF IndInv, PhaseInv
  <2>7. Linked(entries, start, saved.dbs)
    <3>1. tip \in Int /\ \A h \in DOMAIN stored : h \in Nat /\ h <= tip
      BY DEF IndInv, TypeOK, StoredLinked
    <3>2. tip + 1 \notin DOMAIN stored
      BY <3>1
    <3> QED BY <2>6, <3>2 DEF IndInv, StoredLinked, EndOf
  <2>8. dbs' = start
    BY <2>5, <2>7 DEF Linked
  <2>9. entries # <<>>
    <3>1. 1 <= Len(entries)
      BY <2>4, <2>6
    <3> QED BY <3>1
  <2>10. utxos' = entries[1].utxos
    BY <1>1, <2>4, <2>6
  <2> QED BY <2>6, <2>8, <2>9, <2>10 DEF CtipInv
<1> QED
  BY <1>1, <1>2 DEF CtipInv, Connecting

\* The failures after the coinbase messages.
LEMMA FailuresKeepCtips ==
  ASSUME IndInv, CtipInv, HandleFailedSidechainProposals \/ HandleFailedM6ids
  PROVE  CtipInv'
<1>1. DbsInv(dbs) /\ Height \in Nat
  BY DEF IndInv, AllDbsInv, TypeOK, Height
<1>2. CASE HandleFailedSidechainProposals
  <2> DEFINE d == handle_failed_sidechain_proposals(dbs, Height)
  <2>1. /\ phase = "coinbase" /\ ApplyAndRecord(d, EmptyMap) /\ phase' = "failing"
        /\ UNCHANGED <<utxos, tip, stored, saved>> /\ blk' = blk
    BY <1>2 DEF HandleFailedSidechainProposals
  <2>2. d.type = "FailedProposals" /\ Fits(dbs, d)
    BY <1>1, FailedSidechainProposalsFit DEF handle_failed_sidechain_proposals
  <2> HIDE DEF d
  <2> DEFINE diffs == <<d>>
  <2>3. diffs # <<>> /\ diffs[1] = d
    OBVIOUS
  <2> HIDE DEF diffs
  <2>4. ApplyAny(diffs, EmptyMap) /\ AllFit(dbs, diffs)
    BY <2>1, <2>2, <2>3 DEF ApplyAny, AllFit
  <2> QED BY <2>1, <2>2, <2>3, <2>4, CoinbaseKeepsCtips DEF Connecting
<1>3. CASE HandleFailedM6ids
  <2> DEFINE d == handle_failed_m6ids(dbs, Height)
  <2>1. /\ phase = "failing" /\ ApplyAndRecord(d, EmptyMap) /\ phase' = "txs"
        /\ UNCHANGED <<utxos, tip, stored, saved>> /\ blk' = blk
    BY <1>3 DEF HandleFailedM6ids
  <2>2. d.type = "FailedM6ids" /\ Fits(dbs, d)
    BY <1>1, FailedBundlesFit, Zenon DEF handle_failed_m6ids
  <2> HIDE DEF d
  <2> DEFINE diffs == <<d>>
  <2>3. diffs # <<>> /\ diffs[1] = d
    OBVIOUS
  <2> HIDE DEF diffs
  <2>4. ApplyAny(diffs, EmptyMap) /\ AllFit(dbs, diffs)
    BY <2>1, <2>2, <2>3 DEF ApplyAny, AllFit
  <2> QED BY <2>1, <2>2, <2>3, <2>4, CoinbaseKeepsCtips DEF Connecting
<1> QED
  BY <1>2, <1>3

\* Every step of connect_block and disconnect_block keeps CtipInv.
LEMMA NextCtips ==
  ASSUME IndInv, CtipInv, [Next]_vars
  PROVE  CtipInv'
<1>1. CASE ConnectPreActivationBlock
  <2>1. /\ phase = "idle" /\ Record(<<>>) /\ UNCHANGED <<phase, dbs, utxos, cur, blk>>
    BY <1>1 DEF ConnectPreActivationBlock
  <2>2. utxos = Ctips(dbs) /\ DOMAIN blk.uncons = {}
    BY <2>1 DEF CtipInv
  <2> QED BY <2>1, <2>2, RecordKeepsCtips
<1>2. CASE BeginConnectBlock
  <2>1. /\ phase = "idle" /\ phase' = "coinbase"
        /\ UNCHANGED <<tip, dbs, utxos, cur, blk, stored, saved>>
    BY <1>2 DEF BeginConnectBlock
  <2>2. dbs = saved.dbs /\ cur = <<>>
    BY <2>1 DEF IndInv, PhaseInv
  <2>3. utxos = Ctips(dbs) /\ utxos = saved.utxos /\ DOMAIN blk.uncons = {}
    BY <2>1, <2>2 DEF CtipInv
  <2> QED BY <2>1, <2>2, <2>3 DEF CtipInv, Connecting
<1>3. ASSUME NEW m \in Message, HandleCoinbaseMessage(m)
      PROVE  CtipInv'
  BY <1>3, MessageKeepsCtips
<1>4. CASE HandleFailedSidechainProposals \/ HandleFailedM6ids
  BY <1>4, FailuresKeepCtips
<1>5. ASSUME NEW shape \in TxShape, NEW ins \in SUBSET utxos,
             HandleTransaction(Spending(shape, ins))
      PROVE  CtipInv'
  BY <1>5, TransactionKeepsCtips
<1>6. CASE FinalizeConnectBlock
  <2>1. /\ phase = "txs" /\ phase' = "idle" /\ Record(cur) /\ DOMAIN blk.uncons = {}
        /\ UNCHANGED <<dbs, utxos>> /\ blk' = EmptyBlk
    BY <1>6 DEF FinalizeConnectBlock
  <2>2. utxos = Ctips(dbs) /\ (cur # <<>> => cur[1].utxos = saved.utxos)
    BY <2>1 DEF CtipInv, Connecting
  <2>3. DOMAIN blk'.uncons = {}
    BY <2>1 DEF EmptyBlk, EmptyMap
  <2> QED BY <2>1, <2>2, <2>3, RecordKeepsCtips
<1>7. CASE FinishDisconnectBlock
  BY <1>7, FinishDisconnectKeepsCtips
<1>8. CASE Abort
  <2>1. DOMAIN blk'.uncons = {}
    BY <1>8 DEF Abort, EmptyBlk, EmptyMap
  <2> QED BY <1>8, <2>1 DEF Abort, CtipInv, Connecting
<1>9. CASE BeginDisconnectBlock
  <2>1. /\ phase = "idle" /\ phase' = "undo"
        /\ UNCHANGED <<tip, dbs, utxos, blk, stored, saved>>
    BY <1>9 DEF BeginDisconnectBlock
  <2> QED BY <2>1 DEF CtipInv, Connecting
<1>10. CASE UndoDiff
  BY <1>10, UndoKeepsCtips
<1>11. CASE UNCHANGED vars
  BY <1>11 DEF vars, CtipInv, Connecting
<1> QED
  BY <1>1, <1>2, <1>3, <1>4, <1>5, <1>6, <1>7, <1>8, <1>9, <1>10, <1>11
     DEF Next, RejectCoinbaseMessage, RejectTransaction, RejectUnconsolidated, Crash

\* At every step of connect_block and disconnect_block, and in the state before
\* every stored block, the treasury outputs unspent on the main chain are known:
\* the ctips, and inside a block the outputs waiting to be consolidated, which
\* were never a ctip.
THEOREM CtipInvariance == Spec => []CtipInv
<1>1. Init => CtipInv
  <2>1. DOMAIN EmptyMap = {} /\ DOMAIN EmptyDbs.ctip = {}
    BY DEF EmptyMap, EmptyDbs
  <2>2. Ctips(EmptyDbs) = {}
    BY <2>1 DEF Ctips
  <2> QED BY <2>1, <2>2 DEF Init, CtipInv, EmptyBlk, Connecting
<1>2. IndInv /\ CtipInv /\ [Next]_vars => CtipInv'
  BY NextCtips
<1> QED
  BY <1>1, <1>2, Invariance, PTL DEF Spec

\* No treasury output is lost: what fill_ctips asserts of the inputs of a
\* transaction holds, and every output that put_ctip replaces is spent.
THEOREM CtipsAlwaysUnspent == Spec => []CtipsAreTheUnspentOutputs
<1>1. ASSUME IndInv, CtipInv
      PROVE  CtipsAreTheUnspentOutputs
  <2>1. phase \in {"idle", "coinbase", "failing", "txs", "undo"}
    BY <1>1 DEF IndInv, TypeOK
  <2>2. CASE phase = "txs"
    BY <1>1, <2>2 DEF CtipInv, CtipsAreTheUnspentOutputs, Ctips
  <2>3. CASE phase \in {"idle", "coinbase", "failing"}
    <3>1. utxos = Ctips(dbs) /\ DOMAIN blk.uncons = {}
      BY <1>1, <2>3 DEF CtipInv
    <3> QED BY <3>1 DEF CtipsAreTheUnspentOutputs, Ctips
  <2> QED BY <2>1, <2>2, <2>3 DEF CtipsAreTheUnspentOutputs
<1> QED
  BY <1>1, Invariance, CtipInvariance, PTL
=============================================================================
