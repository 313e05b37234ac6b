--------------------------- MODULE HistoryProofs ----------------------------
(***************************************************************************)
(* The votes of proposals and bundles are bounded by the blocks they lived *)
(* through, bundles stay in the order of their proposal, at most one of a  *)
(* sidechain can be paid, and RepeatPrevious always resolves: VotesInv and *)
(* ActionsInv of ChainHistory are inductive.                               *)
(***************************************************************************)
EXTENDS ChainHistory, ValidatorProofs, DbsHistoryProofs

-----------------------------------------------------------------------------
(***************************************************************************)
(* VotesInv is inductive, given IndInv.                                    *)
(***************************************************************************)

\* A step of connect_block.
LEMMA ConnectingStep ==
  ASSUME IndInv, VotesInv, Connecting, Connecting', UNCHANGED <<tip, stored, saved>>,
         NEW diffs, NEW deposits, ApplyAny(diffs, deposits),
         HistoryOK(dbs', Height),
         phase' = "coinbase" => BlockOK(dbs', blk'.seen, Height),
         phase' = "txs" => FreshOK(dbs', Height)
  PROVE  VotesInv'
<1>1. HistoryOK(dbs, Height) /\ \A n \in DOMAIN cur : HistoryOK(cur[n].before, Height)
  BY DEF VotesInv
<1>2. \A n \in DOMAIN cur' : HistoryOK(cur'[n].before, Height)
  BY <1>1, RecordedEntries
<1>3. Height' = Height /\ tip' = tip /\ stored' = stored /\ saved' = saved
  BY DEF Height
<1> QED
  BY <1>2, <1>3 DEF VotesInv, BlockOK

\* handle_coinbase_message
LEMMA MessageKeepsVotes ==
  ASSUME IndInv, VotesInv, NEW m \in Message, HandleCoinbaseMessage(m)
  PROVE  VotesInv'
<1> DEFINE diffs == MessageDiffs(m)
           seen == blk.seen
           more == blk'.seen
<1>1. /\ phase = "coinbase" /\ ApplyAny(diffs, EmptyMap) /\ ~MessageRejected(m)
      /\ UNCHANGED <<phase, tip, stored, saved>>
  BY DEF HandleCoinbaseMessage
<1>2. Connecting /\ Connecting' /\ phase' = "coinbase"
  BY <1>1 DEF Connecting
<1>3. more = seen \cup {MessageKey(m)}
  <2>1. "seen" \in DOMAIN blk
    BY BlkOK DEF UnconsOK, EmptyBlk
  <2> QED BY <2>1 DEF HandleCoinbaseMessage
<1>4. seen \subseteq more /\ MessageKey(m) \in more /\ MessageKey(m) \notin seen
  BY <1>1, <1>3 DEF MessageRejected
<1> DEFINE h == Height
<1>5. DbsInv(dbs) /\ h \in Nat
  BY DEF IndInv, AllDbsInv, TypeOK, Height
<1>6. BlockOK(dbs, seen, h)
  BY <1>1, <1>2 DEF VotesInv, BlockOK
<1>7. dbs' = AppliedAny(dbs, diffs, h)
  BY <1>1, RecordedEntries
<1>8. m \in M1Message \cup M2Message \cup M3Message \cup M4Message \cup M7Message
  BY ValidatorAssumption
<1> HIDE DEF seen, more, h
<1>9. BlockOK(dbs', more, h)
  <2>1. CASE m \in M1Message
    <3>1. m.type = "M1" /\ m.slot \in Slot /\ m.desc \in Description
      BY <2>1 DEF M1Message
    <3>2. diffs = handle_m1_propose_sidechain(dbs, h, m.slot, m.desc)
      BY <3>1 DEF MessageDiffs, h
    <3> HIDE DEF diffs
    <3> QED BY <1>4, <1>5, <1>6, <1>7, <3>1, <3>2, M1KeepsBlockOK
  <2>2. CASE m \in M2Message
    <3>1. m.type = "M2" /\ m.slot \in Slot /\ m.desc \in Description
      BY <2>2 DEF M2Message
    <3>2. diffs = handle_m2_ack_sidechain(dbs, h, m.slot, m.desc)
      BY <3>1 DEF MessageDiffs, h
    <3>3. MessageKey(m) = <<"M2", m.slot>>
      BY <3>1 DEF MessageKey
    <3> HIDE DEF diffs
    <3> QED BY <1>4, <1>5, <1>6, <1>7, <3>1, <3>2, <3>3, M2KeepsBlockOK
  <2>3. CASE m \in M3Message
    <3>1. m.type = "M3" /\ m.slot \in Slot /\ m.m6id \in M6id
      BY <2>3 DEF M3Message
    <3>2. diffs = << handle_m3_propose_bundle(m.slot, m.m6id) >>
      BY <3>1 DEF MessageDiffs
    <3>3. MessageKey(m) = <<"M3">>
      BY <3>1 DEF MessageKey
    <3>4. ~M3Rejected(dbs, m.slot, m.m6id)
      BY <1>1, <3>1 DEF MessageRejected
    <3> HIDE DEF diffs
    <3> QED BY <1>4, <1>5, <1>6, <1>7, <3>1, <3>2, <3>3, <3>4, M3KeepsBlockOK
  <2>4. CASE m \in M4Message
    <3>1. /\ m.type = "M4"
          /\ m.version \in {"LeadingBy50", "RepeatPrevious", "OneByte", "TwoBytes"}
      BY <2>4, M4Versions
    <3> DEFINE prev == PreviousActions
    <3>2. diffs = handle_m4_ack_bundles(dbs, prev, m)
      BY <3>1 DEF MessageDiffs
    <3>3. MessageKey(m) = <<"M4">>
      BY <3>1 DEF MessageKey
    <3> HIDE DEF prev, diffs
    <3> QED BY ONLY <1>4, <1>5, <1>6, <1>7, <3>1, <3>2, <3>3, M4KeepsBlockOK
  <2>5. CASE m \in M7Message
    <3>1. diffs = <<>>
      BY <2>5 DEF M7Message, MessageDiffs
    <3>2. dbs' = dbs
      BY <1>7, <3>1 DEF AppliedAny
    <3> QED BY <1>4, <1>6, <3>2, SeenKeepsOpen DEF BlockOK
  <2> QED BY <1>8, <2>1, <2>2, <2>3, <2>4, <2>5
<1>10. HistoryOK(dbs', h)
  BY <1>9 DEF BlockOK
<1> HIDE DEF diffs
<1> QED
  BY <1>1, <1>2, <1>9, <1>10, ConnectingStep DEF h, more

\* handle_transaction
LEMMA TransactionKeepsVotes ==
  ASSUME IndInv, VotesInv, NEW shape \in TxShape, NEW ins,
         HandleTransaction(Spending(shape, ins))
  PROVE  VotesInv'
<1> DEFINE tx == Spending(shape, ins)
           uncons == blk.uncons
           txid == FreshTxid
           diffs == handle_m5_m6(dbs, uncons, tx, txid)
           deposits == Deposits(dbs, uncons, tx)
           h == Height
<1>1. /\ phase = "txs" /\ ApplyAny(diffs, deposits)
      /\ UNCHANGED <<phase, tip, stored, saved>>
  BY DEF HandleTransaction
<1>2. Connecting /\ Connecting' /\ phase' = "txs"
  BY <1>1 DEF Connecting
<1>3. AllFit(dbs, diffs)
  BY TransactionDiffsFit
<1>4. DbsInv(dbs) /\ h \in Nat
  BY DEF IndInv, AllDbsInv, TypeOK, Height
<1>5. HistoryOK(dbs, h) /\ FreshOK(dbs, h)
  BY <1>1, <1>2 DEF VotesInv
<1>6. dbs' = AppliedAny(dbs, diffs, h)
  BY <1>1, RecordedEntries
<1> HIDE DEF tx, uncons, txid, deposits, h
<1>7. HistoryOK(dbs', h) /\ FreshOK(dbs', h)
  BY <1>3, <1>4, <1>5, <1>6, TransactionKeepsHistory
<1> HIDE DEF diffs
<1> QED
  BY <1>1, <1>2, <1>7, ConnectingStep DEF h

\* handle_failed_sidechain_proposals and handle_failed_m6ids
LEMMA FailuresKeepVotes ==
  ASSUME IndInv, VotesInv, HandleFailedSidechainProposals \/ HandleFailedM6ids
  PROVE  VotesInv'
<1> DEFINE h == Height
<1>1. DbsInv(dbs) /\ DbsOK(dbs) /\ h \in Nat
  BY DEF IndInv, AllDbsInv, TypeOK, Height
<1>2. CASE HandleFailedSidechainProposals
  <2> DEFINE d == handle_failed_sidechain_proposals(dbs, h)
  <2>1. /\ phase = "coinbase" /\ ApplyAndRecord(d, EmptyMap) /\ phase' = "failing"
        /\ UNCHANGED <<tip, stored, saved>>
    BY <1>2 DEF HandleFailedSidechainProposals
  <2>2. Connecting /\ Connecting'
    BY <2>1 DEF Connecting
  <2>3. d.type = "FailedProposals"
    BY DEF handle_failed_sidechain_proposals
  <2> HIDE DEF d
  <2>4. dbs' = ApplyFailedProposals(dbs, d)
    BY <2>1, <2>3 DEF ApplyAndRecord, Apply
  <2>5. HistoryOK(dbs', h)
    BY <1>1, <2>2, <2>4, FailedProposalsKeepHistory DEF VotesInv
  <2>6. ApplyAny(<<d>>, EmptyMap)
    BY <2>1 DEF ApplyAny
  <2> QED BY <2>1, <2>2, <2>5, <2>6, ConnectingStep
<1>3. CASE HandleFailedM6ids
  <2> DEFINE d == handle_failed_m6ids(dbs, h)
  <2>1. /\ phase = "failing" /\ ApplyAndRecord(d, EmptyMap) /\ phase' = "txs"
        /\ UNCHANGED <<tip, stored, saved>>
    BY <1>3 DEF HandleFailedM6ids
  <2>2. Connecting /\ Connecting'
    BY <2>1 DEF Connecting
  <2>3. d.type = "FailedM6ids"
    BY DEF handle_failed_m6ids
  <2>4. dbs' = Apply(dbs, d, h)
    BY <2>1 DEF ApplyAndRecord
  <2> HIDE DEF d
  <2>5. dbs' = ApplyFailedM6ids(dbs, d)
    BY <2>3, <2>4 DEF Apply
  <2>6. HistoryOK(dbs, h)
    BY <2>2 DEF VotesInv
  <2> HIDE DEF h
  <2>7. HistoryOK(dbs', h) /\ FreshOK(dbs', h)
    BY <1>1, <2>5, <2>6, FailedBundlesKeepHistory DEF d
  <2>8. ApplyAny(<<d>>, EmptyMap)
    BY <2>1 DEF ApplyAny
  <2> QED BY <2>1, <2>2, <2>7, <2>8, ConnectingStep DEF h
<1> QED
  BY <1>2, <1>3

-----------------------------------------------------------------------------
\* record_block, and the commit.
LEMMA RecordKeepsVotes ==
  ASSUME IndInv, VotesInv, NEW entries, Record(entries), phase' = "idle",
         SettledOK(dbs, tip + 1),
         \A n \in DOMAIN entries : HistoryOK(entries[n].before, tip + 1)
  PROVE  VotesInv'
<1>1. /\ tip' = tip + 1 /\ saved'.dbs = dbs
      /\ \A h \in DOMAIN stored' :
           \/ h \in DOMAIN stored /\ stored'[h] = stored[h]
           \/ h = tip + 1 /\ stored'[h].start = saved.dbs /\ stored'[h].entries = entries
  BY RecordedBlocks
<1>2. SettledOK(saved.dbs, tip) /\ tip \in Int
  BY DEF VotesInv, IndInv, TypeOK
<1>3. \A h \in DOMAIN stored' :
         /\ SettledOK(stored'[h].start, h - 1)
         /\ \A n \in DOMAIN stored'[h].entries :
              HistoryOK(stored'[h].entries[n].before, h)
  <2> TAKE h \in DOMAIN stored'
  <2>1. CASE h \in DOMAIN stored /\ stored'[h] = stored[h]
    BY <2>1 DEF VotesInv
  <2>2. CASE h = tip + 1 /\ stored'[h].start = saved.dbs /\ stored'[h].entries = entries
    <3>1. h - 1 = tip
      BY <1>2, <2>2
    <3> QED BY <1>2, <2>2, <3>1
  <2> QED BY <1>1, <2>1, <2>2
<1>4. ~Connecting'
  BY DEF Connecting
<1> QED
  BY <1>1, <1>3, <1>4 DEF VotesInv

\* The first step of connect_block.
LEMMA BeginConnectKeepsVotes ==
  ASSUME IndInv, VotesInv, BeginConnectBlock
  PROVE  VotesInv'
<1>1. /\ phase = "idle" /\ phase' = "coinbase" /\ tip + 1 >= ActivationHeight
      /\ UNCHANGED <<tip, dbs, utxos, cur, blk, stored, saved>>
  BY DEF BeginConnectBlock
<1>2. dbs = saved.dbs /\ cur = <<>> /\ tip \in Int /\ DbsInv(dbs)
  BY <1>1 DEF IndInv, PhaseInv, TypeOK, AllDbsInv
<1>3. HistoryOK(dbs, tip)
  BY <1>2 DEF VotesInv, SettledOK
<1>4. HistoryOK(dbs, tip + 1)
  BY <1>2, <1>3, LaterHistory
<1>5. OpenProposals(dbs, blk.seen, tip + 1)
  <2>1. \A id \in DOMAIN dbs.proposal_id_to_sidechain :
           /\ dbs.proposal_id_to_sidechain[id].vote_count \in Nat
           /\ dbs.proposal_id_to_sidechain[id].proposal_height \in Nat
    BY <1>2 DEF DbsInv, DbsOK, IsMap, Sidechain
  <2> QED
    BY <1>2, <1>3, <2>1 DEF HistoryOK, ProposalsBounded, OpenProposals
<1>6. OpenBundles(dbs, blk.seen, tip + 1)
  <2> DEFINE h == tip + 1
  <2>1. h - 1 = tip
    BY <1>2
  <2> HIDE DEF h
  <2>2. OpenBundles(dbs, blk.seen, h)
    BY <1>3, <2>1 DEF HistoryOK, PendingOK, OpenBundles
  <2> QED BY <2>2 DEF h
<1>7. DOMAIN cur' = {} /\ Height' = tip + 1
  BY <1>1, <1>2, NoEntries DEF Height
<1> QED
  BY <1>1, <1>4, <1>5, <1>6, <1>7 DEF VotesInv, Height

\* connect_block below the activation height.
LEMMA PreActivationKeepsVotes ==
  ASSUME IndInv, VotesInv, ConnectPreActivationBlock
  PROVE  VotesInv'
<1>1. /\ phase = "idle" /\ phase' = "idle" /\ tip + 1 < ActivationHeight
      /\ Record(<<>>)
  BY DEF ConnectPreActivationBlock
<1>2. dbs = saved.dbs /\ tip \in Int /\ DbsInv(dbs)
  BY <1>1 DEF IndInv, PhaseInv, TypeOK, AllDbsInv
<1>3. HistoryOK(dbs, tip) /\ DOMAIN dbs.pending_m6ids = {}
  <2>1. tip < ActivationHeight
    BY <1>1, <1>2, ValidatorAssumption
  <2> QED BY <1>2, <2>1 DEF VotesInv, SettledOK
<1>4. HistoryOK(dbs, tip + 1)
  BY <1>2, <1>3, LaterHistory
<1>5. SettledOK(dbs, tip + 1)
  BY <1>3, <1>4 DEF SettledOK, FreshOK
<1> QED
  BY <1>1, <1>5, RecordKeepsVotes, NoEntries

\* finalize_connect_block
LEMMA FinalizeKeepsVotes ==
  ASSUME IndInv, VotesInv, FinalizeConnectBlock
  PROVE  VotesInv'
<1>1. phase = "txs" /\ phase' = "idle" /\ Record(cur) /\ Connecting
  BY DEF FinalizeConnectBlock, Connecting
<1>2. /\ HistoryOK(dbs, tip + 1) /\ FreshOK(dbs, tip + 1) /\ tip + 1 >= ActivationHeight
      /\ \A n \in DOMAIN cur : HistoryOK(cur[n].before, tip + 1)
  BY <1>1 DEF VotesInv, Height
<1>3. SettledOK(dbs, tip + 1)
  <2>1. ~(tip + 1 < ActivationHeight)
    BY <1>2, ValidatorAssumption DEF IndInv, TypeOK
  <2> QED BY <1>2, <2>1 DEF SettledOK
<1> QED
  BY <1>1, <1>2, <1>3, RecordKeepsVotes

\* The end of disconnect_block.
LEMMA FinishDisconnectKeepsVotes ==
  ASSUME IndInv, VotesInv, FinishDisconnectBlock
  PROVE  VotesInv'
<1>1. /\ phase = "undo" /\ cur = <<>> /\ phase' = "idle" /\ tip' = tip - 1
      /\ stored' = Delete(stored, {tip}) /\ saved'.dbs = dbs
  BY DEF FinishDisconnectBlock
<1>2. tip \in DOMAIN stored /\ dbs = stored[tip].start
  BY <1>1, UndoneBlock
<1>3. SettledOK(saved'.dbs, tip')
  BY <1>1, <1>2 DEF VotesInv
<1>4. \A h \in DOMAIN stored' : h \in DOMAIN stored /\ stored'[h] = stored[h]
  BY <1>1 DEF Delete, Restrict
<1>5. ~Connecting' /\ phase' # "coinbase" /\ phase' # "txs"
  BY <1>1 DEF Connecting
<1> QED
  BY <1>3, <1>4, <1>5 DEF VotesInv

\* Steps that leave what is committed alone and connect no block.
LEMMA IdleStepKeepsVotes ==
  ASSUME VotesInv, UNCHANGED <<tip, stored, saved>>, phase' \in {"idle", "undo"}
  PROVE  VotesInv'
<1>1. ~Connecting' /\ phase' # "coinbase" /\ phase' # "txs"
  BY DEF Connecting
<1> QED
  BY <1>1 DEF VotesInv

\* A new data directory.
LEMMA InitVotes ==
  ASSUME Init
  PROVE  VotesInv
<1>1. /\ DOMAIN EmptyDbs.proposal_id_to_sidechain = {}
      /\ DOMAIN EmptyDbs.sidechain = {} /\ DOMAIN EmptyDbs.pending_m6ids = {}
  BY DEF EmptyDbs, EmptyMap
<1>2. SettledOK(EmptyDbs, -1)
  BY <1>1 DEF SettledOK, HistoryOK, ProposalsBounded, Earned, PendingOK, FreshOK
<1>3. DOMAIN stored = {} /\ phase = "idle" /\ tip = -1 /\ saved.dbs = EmptyDbs
  BY DEF Init, EmptyMap
<1>4. ~Connecting
  BY <1>3 DEF Connecting
<1> QED
  BY <1>2, <1>3, <1>4 DEF VotesInv

\* Every step of connect_block and disconnect_block keeps VotesInv.
LEMMA NextVotes ==
  ASSUME IndInv, VotesInv, [Next]_vars
  PROVE  VotesInv'
<1>1. CASE ConnectPreActivationBlock
  BY <1>1, PreActivationKeepsVotes
<1>2. CASE BeginConnectBlock
  BY <1>2, BeginConnectKeepsVotes
<1>3. ASSUME NEW m \in Message, HandleCoinbaseMessage(m)
      PROVE  VotesInv'
  BY <1>3, MessageKeepsVotes
<1>4. CASE HandleFailedSidechainProposals \/ HandleFailedM6ids
  BY <1>4, FailuresKeepVotes
<1>5. ASSUME NEW shape \in TxShape, NEW ins \in SUBSET utxos,
             HandleTransaction(Spending(shape, ins))
      PROVE  VotesInv'
  BY <1>5, TransactionKeepsVotes
<1>6. CASE FinalizeConnectBlock
  BY <1>6, FinalizeKeepsVotes
<1>7. CASE FinishDisconnectBlock
  BY <1>7, FinishDisconnectKeepsVotes
<1>8. CASE Abort
  BY <1>8, IdleStepKeepsVotes DEF Abort
<1>9. CASE BeginDisconnectBlock \/ UndoDiff
  BY <1>9, IdleStepKeepsVotes DEF BeginDisconnectBlock, UndoDiff
<1>10. CASE UNCHANGED vars
  BY <1>10 DEF vars, VotesInv, Connecting, Height
<1> QED
  BY <1>1, <1>2, <1>3, <1>4, <1>5, <1>6, <1>7, <1>8, <1>9, <1>10
     DEF Next, RejectCoinbaseMessage, RejectTransaction, RejectUnconsolidated, Crash

-----------------------------------------------------------------------------
(***************************************************************************)
(* ActionsInv is inductive, given IndInv.                                  *)
(***************************************************************************)

\* A step of connect_block.
LEMMA ConnectingKeepsActions ==
  ASSUME IndInv, ActionsInv, Connecting, Connecting', UNCHANGED <<tip, stored, saved>>,
         NEW diffs, AllFit(dbs, diffs), NEW deposits, ApplyAny(diffs, deposits)
  PROVE  ActionsInv'
<1> DEFINE d == diffs[1]
<1>1. DbsInv(dbs) /\ dbs' = AppliedAny(dbs, diffs, Height)
  BY RecordedEntries DEF IndInv, AllDbsInv
<1>2. DOMAIN dbs.pending_m6ids \subseteq DOMAIN dbs'.pending_m6ids
      /\ (diffs # <<>> => AckedSlots(d) \subseteq DOMAIN dbs.pending_m6ids)
  <2>1. CASE diffs = <<>>
    BY <1>1, <2>1 DEF AppliedAny
  <2>2. CASE diffs # <<>>
    <3>1. Fits(dbs, d) /\ dbs' = Apply(dbs, d, Height)
      BY <1>1, <2>2 DEF AppliedAny, AllFit
    <3> HIDE DEF d
    <3> QED BY <1>1, <3>1, FittingDiffKeepsSlots
  <2> QED BY <2>1, <2>2
<1>3. \A n \in DOMAIN cur' :
         \/ n \in DOMAIN cur /\ cur'[n] = cur[n]
         \/ diffs # <<>> /\ cur'[n].diff = d
  BY RecordedEntries
<1> HIDE DEF d
<1>4. \A n \in DOMAIN cur' : AckedSlots(cur'[n].diff) \subseteq DOMAIN dbs'.pending_m6ids
  BY <1>2, <1>3 DEF ActionsInv
<1>5. DOMAIN saved'.dbs.pending_m6ids \subseteq DOMAIN dbs'.pending_m6ids
  BY <1>2 DEF ActionsInv
<1>6. \A h : EndOf(h)' = EndOf(h)
  BY DEF EndOf
<1> QED
  BY <1>4, <1>5, <1>6 DEF ActionsInv

\* record_block, and the commit.
LEMMA RecordKeepsActions ==
  ASSUME IndInv, ActionsInv, NEW entries, Record(entries), phase' = "idle",
         \A n \in DOMAIN entries :
           AckedSlots(entries[n].diff) \subseteq DOMAIN dbs.pending_m6ids
  PROVE  ActionsInv'
<1>1. \A h \in DOMAIN stored' :
         \/ h \in DOMAIN stored /\ stored'[h] = stored[h] /\ EndOf(h)' = EndOf(h)
         \/ stored'[h].entries = entries /\ EndOf(h)' = dbs
  BY RecordedBlocks
<1>2. \A h \in DOMAIN stored' : \A n \in DOMAIN stored'[h].entries :
         AckedSlots(stored'[h].entries[n].diff) \subseteq DOMAIN EndOf(h)'.pending_m6ids
  <2> TAKE h \in DOMAIN stored'
  <2>1. CASE h \in DOMAIN stored /\ stored'[h] = stored[h] /\ EndOf(h)' = EndOf(h)
    BY <2>1 DEF ActionsInv
  <2>2. CASE stored'[h].entries = entries /\ EndOf(h)' = dbs
    BY <2>2
  <2> QED BY <1>1, <2>1, <2>2
<1>3. ~Connecting'
  BY DEF Connecting
<1> QED
  BY <1>2, <1>3 DEF ActionsInv

\* Every step of connect_block and disconnect_block keeps ActionsInv.
LEMMA NextActions ==
  ASSUME IndInv, ActionsInv, [Next]_vars
  PROVE  ActionsInv'
<1>1. CASE ConnectPreActivationBlock
  BY <1>1, RecordKeepsActions, NoEntries DEF ConnectPreActivationBlock
<1>2. CASE BeginConnectBlock
  <2>1. /\ phase = "idle" /\ phase' = "coinbase"
        /\ UNCHANGED <<tip, dbs, utxos, cur, blk, stored, saved>>
    BY <1>2 DEF BeginConnectBlock
  <2>2. dbs' = saved'.dbs /\ DOMAIN cur' = {}
    BY <2>1, NoEntries DEF IndInv, PhaseInv
  <2>3. \A h : EndOf(h)' = EndOf(h)
    BY <2>1 DEF EndOf
  <2> QED BY <2>1, <2>2, <2>3 DEF ActionsInv
<1>3. ASSUME NEW m \in Message, HandleCoinbaseMessage(m)
      PROVE  ActionsInv'
  <2>1. AllFit(dbs, MessageDiffs(m)) /\ ApplyAny(MessageDiffs(m), EmptyMap)
    BY <1>3, MessageFits DEF HandleCoinbaseMessage
  <2>2. Connecting /\ Connecting' /\ UNCHANGED <<tip, stored, saved>>
    BY <1>3 DEF HandleCoinbaseMessage, Connecting
  <2> QED BY <2>1, <2>2, ConnectingKeepsActions
<1>4. ASSUME NEW d, Fits(dbs, d), ApplyAndRecord(d, EmptyMap), Connecting, Connecting',
             UNCHANGED <<tip, stored, saved>>
      PROVE  ActionsInv'
  <2>1. AllFit(dbs, <<d>>) /\ ApplyAny(<<d>>, EmptyMap)
    BY <1>4 DEF AllFit, ApplyAny
  <2> QED BY <1>4, <2>1, ConnectingKeepsActions
<1>5. DbsInv(dbs) /\ Height \in Nat
  BY DEF IndInv, AllDbsInv, TypeOK, Height
<1>6. CASE HandleFailedSidechainProposals
  <2> DEFINE d == handle_failed_sidechain_proposals(dbs, Height)
  <2>1. Fits(dbs, d) /\ ApplyAndRecord(d, EmptyMap)
    BY <1>5, <1>6, FailedSidechainProposalsFit DEF HandleFailedSidechainProposals
  <2>2. Connecting /\ Connecting' /\ UNCHANGED <<tip, stored, saved>>
    BY <1>6 DEF HandleFailedSidechainProposals, Connecting
  <2> HIDE DEF d
  <2> QED BY <1>4, <2>1, <2>2
<1>7. CASE HandleFailedM6ids
  <2> DEFINE d == handle_failed_m6ids(dbs, Height)
  <2>1. Fits(dbs, d) /\ ApplyAndRecord(d, EmptyMap)
    BY <1>5, <1>7, FailedBundlesFit DEF HandleFailedM6ids
  <2>2. Connecting /\ Connecting' /\ UNCHANGED <<tip, stored, saved>>
    BY <1>7 DEF HandleFailedM6ids, Connecting
  <2> HIDE DEF d
  <2> QED BY <1>4, <2>1, <2>2
<1>8. ASSUME NEW shape \in TxShape, NEW ins \in SUBSET utxos,
             HandleTransaction(Spending(shape, ins))
      PROVE  ActionsInv'
  <2> DEFINE tx == Spending(shape, ins)
             diffs == handle_m5_m6(dbs, blk.uncons, tx, FreshTxid)
             deposits == Deposits(dbs, blk.uncons, tx)
  <2>1. AllFit(dbs, diffs)
    BY <1>8, TransactionDiffsFit
  <2>2. ApplyAny(diffs, deposits) /\ Connecting /\ Connecting'
        /\ UNCHANGED <<tip, stored, saved>>
    BY <1>8 DEF HandleTransaction, Connecting
  <2> HIDE DEF diffs, deposits
  <2> QED BY <2>1, <2>2, ConnectingKeepsActions
<1>9. CASE FinalizeConnectBlock
  BY <1>9, RecordKeepsActions DEF FinalizeConnectBlock, ActionsInv, Connecting
<1>10. CASE FinishDisconnectBlock
  <2>1. \A h \in DOMAIN stored' :
          h \in DOMAIN stored /\ stored'[h] = stored[h] /\ EndOf(h)' = EndOf(h)
    BY <1>10, RemainingBlocks
  <2>2. ~Connecting'
    BY <1>10 DEF FinishDisconnectBlock, Connecting
  <2> QED BY <2>1, <2>2 DEF ActionsInv
<1>11. CASE Abort \/ BeginDisconnectBlock \/ UndoDiff
  <2>1. ~Connecting' /\ UNCHANGED <<tip, stored, saved>>
    BY <1>11 DEF Abort, BeginDisconnectBlock, UndoDiff, Connecting
  <2>2. \A h : EndOf(h)' = EndOf(h)
    BY <2>1 DEF EndOf
  <2> QED BY <2>1, <2>2 DEF ActionsInv
<1>12. CASE UNCHANGED vars
  BY <1>12 DEF vars, ActionsInv, Connecting, EndOf
<1> QED
  BY <1>1, <1>2, <1>3, <1>6, <1>7, <1>8, <1>9, <1>10, <1>11, <1>12
     DEF Next, RejectCoinbaseMessage, RejectTransaction, RejectUnconsolidated, Crash

-----------------------------------------------------------------------------
(***************************************************************************)
(* The theorems.                                                           *)
(***************************************************************************)

\* The databases as the open write transaction sees them are within the
\* bounds of the newest block they know about, also while a block is undone.
LEMMA HistoryNow ==
  ASSUME IndInv, VotesInv
  PROVE  HistoryOK(dbs, TopHeight)
<1>1. CASE Connecting
  BY <1>1 DEF VotesInv, TopHeight, Height
<1>2. CASE phase = "idle"
  <2>1. dbs = saved.dbs /\ TopHeight = tip
    BY <1>2 DEF IndInv, PhaseInv, TopHeight, Connecting
  <2> QED BY <2>1 DEF VotesInv, SettledOK
<1>3. CASE phase = "undo"
  <2> DEFINE entries == stored[tip].entries
             n == Len(cur)
  <2>1. /\ tip \in DOMAIN stored /\ n <= Len(entries)
        /\ dbs = After(entries, saved.dbs, n) /\ TopHeight = tip
    BY <1>3 DEF IndInv, PhaseInv, TopHeight, Connecting
  <2>2. EntriesOK(entries) /\ EntriesOK(cur)
    BY <2>1 DEF IndInv, TypeOK
  <2>3. n \in Nat /\ Len(entries) \in Nat /\ DOMAIN entries = 1..Len(entries)
    <3>1. n \in Nat /\ Len(entries) \in Nat
      BY <2>2, Zenon DEF EntriesOK
    <3> QED BY <2>2, <3>1, AppendEntries
  <2>4. CASE n = Len(entries)
    <3>1. dbs = saved.dbs
      BY <2>1, <2>4 DEF After
    <3> QED BY <2>1, <3>1 DEF VotesInv, SettledOK
  <2>5. CASE n # Len(entries)
    <3>1. dbs = entries[n + 1].before
      BY <2>1, <2>5 DEF After
    <3>2. n + 1 \in DOMAIN entries
      <4> DEFINE l == Len(entries)
      <4>1. n \in Nat /\ l \in Nat /\ n <= l /\ n # l /\ DOMAIN entries = 1..l
        BY <2>1, <2>3, <2>5
      <4> HIDE DEF n, l
      <4>2. n + 1 \in 1..l
        BY <4>1
      <4> QED BY <4>1, <4>2
    <3>3. HistoryOK(entries[n + 1].before, tip)
      BY <2>1, <3>2 DEF VotesInv
    <3> QED BY <2>1, <3>1, <3>3
  <2> QED BY <2>4, <2>5
<1> QED
  BY <1>1, <1>2, <1>3 DEF IndInv, TypeOK, Connecting

\* For any slots, thresholds, messages, transactions and reorgs: one vote per
\* block at most for a proposal, one per block for a bundle and its rivals
\* together, bundles in the order of their blocks, and every activation earned,
\* in the committed databases, in those that disconnect_block can return to
\* and at every step of connect_block.
THEOREM VotesInvariance == Spec => []VotesInv
<1>1. Init => VotesInv
  BY InitVotes
<1>2. IndInv /\ VotesInv /\ [Next]_vars => VotesInv'
  BY NextVotes
<1> QED
  BY <1>1, <1>2, Invariance, PTL DEF Spec

\* A proposal has at most one vote per block after the one that proposed it,
\* so the saturating ages of handle_m2_ack_sidechain never saturate.
THEOREM ProposalVotesBounded == Spec => []ProposalVotesWithinAge
<1>1. IndInv /\ VotesInv => ProposalVotesWithinAge
  BY HistoryNow DEF HistoryOK, ProposalsBounded, ProposalVotesWithinAge
<1> QED
  BY <1>1, Invariance, VotesInvariance, PTL

\* Every active sidechain was acked by more blocks than its threshold, within
\* the window of its slot.
THEOREM ActivationsEarned == Spec => []ActivationEarned
<1>1. IndInv /\ VotesInv => ActivationEarned
  BY HistoryNow DEF HistoryOK, Earned, ActivationEarned
<1> QED
  BY <1>1, Invariance, VotesInvariance, PTL

\* Pending bundles stay in the order of proposal, also after a reorg put
\* failed and paid bundles back: M4 votes address them by their place.
THEOREM PendingAlwaysChronological == Spec => []PendingChronological
<1>1. ASSUME IndInv, VotesInv
      PROVE  PendingChronological
  <2>1. PendingOK(dbs, TopHeight)
    BY <1>1, HistoryNow DEF HistoryOK
  <2>2. LifecycleOK(dbs)
    BY <1>1 DEF IndInv, AllDbsInv, DbsInv
  <2>3. \A s \in DOMAIN dbs.pending_m6ids :
           \A i \in DOMAIN dbs.pending_m6ids[s] : i \in Nat
    BY <1>1, PendingList, BundleNumbers DEF IndInv, AllDbsInv
  <2>4. \A s \in DOMAIN dbs.pending_m6ids :
          \A i, j \in DOMAIN dbs.pending_m6ids[s] :
            i < j => dbs.pending_m6ids[s][i].m6id # dbs.pending_m6ids[s][j].m6id
    BY <2>2, <2>3 DEF LifecycleOK
  <2>5. DOMAIN dbs.pending_m6ids = DOMAIN dbs.sidechain
    BY <2>2 DEF LifecycleOK
  <2> QED
    BY <2>1, <2>4, <2>5 DEF PendingOK, Chronological, PendingChronological
<1> QED
  BY <1>1, Invariance, VotesInvariance, PTL

\* A bundle has at most one vote per block on top of the one it starts with.
THEOREM BundleVotesBounded == Spec => []BundleVotesWithinAge
<1>1. IndInv /\ VotesInv => BundleVotesWithinAge
  BY HistoryNow DEF HistoryOK, PendingOK, VotesBounded, BundleVotesWithinAge
<1> QED
  BY <1>1, Invariance, VotesInvariance, PTL

\* When the inclusion threshold is more than a third of the maximal age, at
\* most one bundle of a sidechain can be paid out at any time.
THEOREM OneBundlePayable == Spec => []AtMostOnePayable
<1>1. ASSUME IndInv, VotesInv
      PROVE  AtMostOnePayable
  <2> SUFFICES ASSUME 3 * WithdrawalBundleInclusionThreshold > WithdrawalBundleMaxAge + 1,
                      phase \in {"idle", "txs"},
                      NEW s \in DOMAIN dbs.pending_m6ids,
                      NEW i \in DOMAIN dbs.pending_m6ids[s],
                      NEW j \in DOMAIN dbs.pending_m6ids[s],
                      dbs.pending_m6ids[s][i].vote_count > WithdrawalBundleInclusionThreshold,
                      dbs.pending_m6ids[s][j].vote_count > WithdrawalBundleInclusionThreshold
               PROVE  i = j
    BY DEF AtMostOnePayable
  <2> DEFINE t == dbs.pending_m6ids[s]
             h == TopHeight
  <2>1. h \in Int
    BY <1>1 DEF TopHeight, IndInv, TypeOK
  <2>2. FreshOK(dbs, h)
    <3>1. CASE phase = "idle"
      BY <1>1, <3>1 DEF IndInv, PhaseInv, VotesInv, SettledOK, TopHeight, Connecting
    <3>2. CASE phase = "txs"
      BY <1>1, <3>2 DEF VotesInv, TopHeight, Connecting, Height
    <3> QED BY <3>1, <3>2
  <2>3. VotesBounded(t, h) /\ NoneTooOld(t, h)
    BY <1>1, <2>2, HistoryNow DEF HistoryOK, PendingOK, FreshOK
  <2>4. t \in Seq(Bundle)
    BY <1>1, PendingList DEF IndInv, AllDbsInv
  <2>5. /\ \A k \in DOMAIN t : t[k] \in Bundle /\ t[k].vote_count \in Nat
        /\ i \in Nat /\ j \in Nat
    BY <2>4, BundleNumbers
  <2>6. /\ t[i].vote_count > WithdrawalBundleInclusionThreshold
        /\ t[j].vote_count > WithdrawalBundleInclusionThreshold
        /\ i \in DOMAIN t /\ j \in DOMAIN t
    OBVIOUS
  <2> HIDE DEF t, h
  <2>7. ASSUME NEW k \in DOMAIN t, NEW l \in DOMAIN t, k < l
        PROVE  \/ t[k].vote_count <= WithdrawalBundleInclusionThreshold
               \/ t[l].vote_count <= WithdrawalBundleInclusionThreshold
    <3>1. RivalsBounded(t[k], t[l], h) /\ h - t[k].proposal_height <= WithdrawalBundleMaxAge
      BY <2>3, <2>7 DEF VotesBounded, NoneTooOld
    <3> QED BY <2>1, <2>5, <3>1, RivalsNotBothPayable
  <2>8. ~(i < j) /\ ~(j < i)
    BY <2>5, <2>6, <2>7, ThresholdsAssumption
  <2> QED BY <2>5, <2>8
<1> QED
  BY <1>1, Invariance, VotesInvariance, PTL

\* RepeatPrevious finds the pending bundles of every sidechain the parent's M4
\* voted on, whatever was activated, replaced or disconnected in between.
THEOREM RepeatPreviousAlwaysResolves == Spec => []RepeatPreviousResolves
<1>1. Init => ActionsInv
  <2> SUFFICES ASSUME Init PROVE ActionsInv
    OBVIOUS
  <2>1. DOMAIN stored = {} /\ ~Connecting
    BY DEF Init, EmptyMap, Connecting
  <2> QED BY <2>1 DEF ActionsInv
<1>2. IndInv /\ ActionsInv /\ [Next]_vars => ActionsInv'
  BY NextActions
<1>3. ASSUME IndInv, ActionsInv
      PROVE  RepeatPreviousResolves
  <2> SUFFICES ASSUME phase = "coinbase"
               PROVE  DOMAIN PreviousActions \subseteq DOMAIN dbs.pending_m6ids
    BY DEF RepeatPreviousResolves, RepeatRejected
  <2> DEFINE parent == IF tip \in DOMAIN stored THEN stored[tip].entries ELSE <<>>
             I == {i \in DOMAIN parent : parent[i].diff.type = "AckBundles"}
             i == CHOOSE i \in I : TRUE
  <2>1. PreviousActions = IF I = {} THEN EmptyMap ELSE parent[i].diff.actions
    BY DEF PreviousActions
  <2>2. CASE I = {}
    BY <2>1, <2>2 DEF EmptyMap
  <2>3. CASE I # {}
    <3>1. i \in I
      BY <2>3
    <3>2. i \in DOMAIN parent /\ parent[i].diff.type = "AckBundles"
      <4> HIDE DEF i, parent
      <4> QED BY <3>1
    <3>3. tip \in DOMAIN stored /\ parent = stored[tip].entries
      BY <3>2, NoEntries
    <3>4. EndOf(tip) = saved.dbs
      <4>1. tip + 1 \notin DOMAIN stored
        <5>1. tip \in Int /\ \A h \in DOMAIN stored : h \in Nat /\ h <= tip
          BY <1>3 DEF IndInv, TypeOK, StoredLinked
        <5> QED BY ONLY <5>1
      <4> QED BY <4>1 DEF EndOf
    <3>5. AckedSlots(parent[i].diff) \subseteq DOMAIN saved.dbs.pending_m6ids
      <4> HIDE DEF i, parent
      <4> QED BY <1>3, <3>2, <3>3, <3>4 DEF ActionsInv
    <3>6. DOMAIN saved.dbs.pending_m6ids \subseteq DOMAIN dbs.pending_m6ids
      BY <1>3 DEF ActionsInv, Connecting
    <3> HIDE DEF i, parent, I
    <3>7. AckedSlots(parent[i].diff) = DOMAIN PreviousActions
      BY <2>1, <2>3, <3>2 DEF AckedSlots
    <3> QED BY <3>5, <3>6, <3>7
  <2> QED BY <2>2, <2>3
<1> QED
  BY <1>1, <1>2, <1>3, Invariance, PTL DEF Spec

\* handle_failed_sidechain_proposals drops no proposal that could still be
\* activated.
THEOREM OnlyHopelessFail == Spec => OnlyHopelessProposalsFail
<1> DEFINE A == phase = "coinbase" /\ phase' = "failing" =>
                  \A id \in DOMAIN dbs.proposal_id_to_sidechain
                            \ DOMAIN dbs'.proposal_id_to_sidechain :
                    LET p == dbs.proposal_id_to_sidechain[id]
                        left == ProposalMaxAge(dbs, id[1]) - (tip + 1 - p.proposal_height)
                    IN  left <= 0
                        \/ p.vote_count + left <= ActivationThreshold(dbs, id[1])
<1>1. IndInv /\ VotesInv /\ [Next]_vars => [A]_vars
  <2> SUFFICES ASSUME IndInv, VotesInv, Next, phase = "coinbase", phase' = "failing",
                      NEW id \in DOMAIN dbs.proposal_id_to_sidechain
                                 \ DOMAIN dbs'.proposal_id_to_sidechain
               PROVE  LET p == dbs.proposal_id_to_sidechain[id]
                          left == ProposalMaxAge(dbs, id[1])
                                    - (tip + 1 - p.proposal_height)
                      IN  left <= 0
                          \/ p.vote_count + left <= ActivationThreshold(dbs, id[1])
    OBVIOUS
  <2>1. HandleFailedSidechainProposals
    BY DEF Next, ConnectPreActivationBlock, BeginConnectBlock, HandleCoinbaseMessage,
           RejectCoinbaseMessage, HandleFailedM6ids, HandleTransaction,
           RejectTransaction, FinalizeConnectBlock, RejectUnconsolidated,
           BeginDisconnectBlock, UndoDiff, FinishDisconnectBlock, Crash, Abort
  <2> DEFINE d == handle_failed_sidechain_proposals(dbs, Height)
             failed == {i \in DOMAIN dbs.proposal_id_to_sidechain :
                          ProposalFailed(dbs, Height, i)}
  <2>2. d.type = "FailedProposals" /\ DOMAIN d.failed = failed
    BY DEF handle_failed_sidechain_proposals, Restrict
  <2>3. dbs' = Apply(dbs, d, Height)
    BY <2>1 DEF HandleFailedSidechainProposals, ApplyAndRecord
  <2> HIDE DEF d
  <2>4. dbs'.proposal_id_to_sidechain = Delete(dbs.proposal_id_to_sidechain, failed)
    <3>1. dbs' = ApplyFailedProposals(dbs, d) /\ DbsOK(dbs)
      BY <2>2, <2>3 DEF Apply, IndInv, TypeOK
    <3> HIDE DEF failed
    <3>2. dbs'.proposal_id_to_sidechain
            = Delete(dbs.proposal_id_to_sidechain, DOMAIN d.failed)
      BY <3>1, FailedProposalsWrites
    <3> QED BY <2>2, <3>2
  <2>5. id \in failed
    <3> HIDE DEF failed
    <3> QED BY <2>4 DEF Delete, Restrict
  <2> DEFINE p == dbs.proposal_id_to_sidechain[id]
             m == ProposalMaxAge(dbs, id[1])
             t == ActivationThreshold(dbs, id[1])
  <2>6. \/ SatSub(tip + 1, p.proposal_height) > m
        \/ SatSub(SatSub(tip + 1, p.proposal_height), p.vote_count) >= SatSub(m, t)
    BY <2>5 DEF ProposalFailed, Height
  <2>7. p \in Sidechain /\ tip + 1 \in Int
    <3>1. DbsOK(dbs) /\ tip \in Int
      BY DEF IndInv, TypeOK
    <3>2. IsMap(dbs.proposal_id_to_sidechain, ProposalId, Sidechain)
      BY ONLY <3>1 DEF DbsOK
    <3> QED BY ONLY <3>1, <3>2, id \in DOMAIN dbs.proposal_id_to_sidechain DEF IsMap
  <2>8. p.vote_count + p.proposal_height <= tip + 1
    BY Zenon DEF VotesInv, Connecting, HistoryOK, ProposalsBounded, Height
  <2>9. m \in Nat /\ t \in Nat
    BY ThresholdsAssumption DEF ProposalMaxAge, ActivationThreshold
  <2> DEFINE h == tip + 1
  <2> HIDE DEF p, m, t, h
  <2>10. LET left == m - (h - p.proposal_height)
         IN  left <= 0 \/ p.vote_count + left <= t
    BY <2>6, <2>7, <2>8, <2>9, HopelessProposal DEF h
  <2>11. tip \in Int /\ p.proposal_height \in Nat
    BY <2>7 DEF Sidechain, IndInv, TypeOK
  <2>12. tip + 1 - p.proposal_height = h - p.proposal_height
    BY <2>11 DEF h
  <2> QED BY <2>10, <2>12 DEF p, m, t
<1> QED
  BY <1>1, Invariance, VotesInvariance, PTL DEF Spec, OnlyHopelessProposalsFail
=============================================================================
