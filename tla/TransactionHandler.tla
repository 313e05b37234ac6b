------------------------- MODULE TransactionHandler -------------------------
(***************************************************************************)
(* How a non-coinbase transaction is handled: M5 deposits, consolidations  *)
(* of deposits, M6 withdrawals and M8 BMM requests (handle_transaction in  *)
(* lib/validator/task/mod.rs).                                             *)
(*                                                                         *)
(* A transaction is a record                                               *)
(*   ins      the treasury outputs it spends                               *)
(*   other    whether it has further inputs                                *)
(*   outs     its OP_DRIVECHAIN outputs in order: slot, value, and whether *)
(*            an address OP_RETURN follows                                 *)
(*   shifted  whether another output precedes the OP_DRIVECHAIN outputs    *)
(*   payout   which bundle its remaining outputs and its fee make up       *)
(*   m8       its BMM request, a set of at most one                        *)
(*            [slot, hash, prev]                                           *)
(* `uncons` are the unconsolidated treasury outputs of the block so far.   *)
(***************************************************************************)
EXTENDS BlockHandler

TxOut == [slot : Slot, value : Nat, addr : BOOLEAN]

(***************************************************************************)
(* fill_ctips: the treasury inputs and outputs of a transaction, by slot.  *)
(* An OP_DRIVECHAIN output for an inactive slot is an ordinary output.     *)
(***************************************************************************)
TreasuryOutputs(db, tx, s) ==
  {i \in DOMAIN tx.outs : tx.outs[i].slot = s /\ s \in DOMAIN db.sidechain}

TxSlots(db, tx) == {s \in Slot : TreasuryOutputs(db, tx, s) # {}}

ConsolidatedInputs(db, tx, s) ==
  {o \in tx.ins \cap DOMAIN db.ctip_outpoint_to_value_seq :
     db.ctip_outpoint_to_value_seq[o].slot = s}

UnconsolidatedInputs(db, uncons, tx, s) ==
  {o \in (tx.ins \cap DOMAIN uncons) \ DOMAIN db.ctip_outpoint_to_value_seq :
     uncons[o].slot = s}

FillCtipsRejected(db, uncons, tx) ==
  \E s \in Slot :
    \/ Cardinality(TreasuryOutputs(db, tx, s)) > 1
    \/ /\ \/ ConsolidatedInputs(db, tx, s) # {}
          \/ UnconsolidatedInputs(db, uncons, tx, s) # {}
       /\ TreasuryOutputs(db, tx, s) = {}

(***************************************************************************)
(* handle_m5_m6: for each slot, the value spent from the treasury against  *)
(* the value put back.                                                     *)
(***************************************************************************)
TreasuryOutput(db, tx, s) ==
  tx.outs[CHOOSE i \in TreasuryOutputs(db, tx, s) : TRUE]

\* Mutant of TreasuryValueIn: unconsolidated inputs are not counted.
TreasuryValueIn_ConsolidatedOnly(db, uncons, tx, s) ==
  MapThenSumSet(LAMBDA o : db.ctip_outpoint_to_value_seq[o].value,
                ConsolidatedInputs(db, tx, s))

TreasuryValueIn(db, uncons, tx, s) ==
  MapThenSumSet(LAMBDA o : db.ctip_outpoint_to_value_seq[o].value,
                ConsolidatedInputs(db, tx, s))
  + MapThenSumSet(LAMBDA o : uncons[o].value,
                  UnconsolidatedInputs(db, uncons, tx, s))

IsM6(db, uncons, tx, s) ==
  TreasuryOutput(db, tx, s).value < TreasuryValueIn(db, uncons, tx, s)

IsDeposit(db, uncons, tx, s) ==
  TreasuryOutput(db, tx, s).value > TreasuryValueIn(db, uncons, tx, s)

IsZeroDiff(db, uncons, tx, s) ==
  /\ TreasuryOutput(db, tx, s).value = TreasuryValueIn(db, uncons, tx, s)
  /\ UnconsolidatedInputs(db, uncons, tx, s) = {}

\* compute_m6id: the id commits to the payouts and to the fee, so it is the
\* id of the bundle `payout` only if the treasury loses just that value.
\* Any other value gives an id that nobody proposed.
M6Indexes(db, uncons, tx, s) ==
  IF TreasuryValueIn(db, uncons, tx, s) - TreasuryOutput(db, tx, s).value
       = BundleValue[tx.payout]
  THEN IndexesOf(db.pending_m6ids[s], tx.payout) ELSE {}

\* handle_m6, and the conditions on an M6 before it.
M6Rejected(db, uncons, tx, s, require_payable_bundles) ==
  \/ ConsolidatedInputs(db, tx, s) = {}
  \/ tx.other
  \/ ~(tx.ins \subseteq ConsolidatedInputs(db, tx, s)
                        \cup UnconsolidatedInputs(db, uncons, tx, s))
  \/ tx.shifted \/ 1 \notin TreasuryOutputs(db, tx, s)
  \/ M6Indexes(db, uncons, tx, s) = {}
  \/ /\ require_payable_bundles
     /\ \E i \in M6Indexes(db, uncons, tx, s) :
          db.pending_m6ids[s][i].vote_count <= WithdrawalBundleInclusionThreshold

M5M6Rejected(db, uncons, tx, require_payable_bundles) ==
  \/ FillCtipsRejected(db, uncons, tx)
  \/ \E s \in TxSlots(db, tx) :
       \/ IsZeroDiff(db, uncons, tx, s)
       \/ /\ IsM6(db, uncons, tx, s)
          /\ \/ M6Rejected(db, uncons, tx, s, require_payable_bundles)
             \/ TxSlots(db, tx) # {s}
       \/ IsDeposit(db, uncons, tx, s) /\ ~TreasuryOutput(db, tx, s).addr

\* Mutant of ReplacesCtip: every treasury output does.
ReplacesCtip_Always(db, tx, s) == TRUE

\* A treasury output replaces the ctip if the transaction spends the ctip, or
\* there is none yet; otherwise it waits to be consolidated.
ReplacesCtip(db, tx, s) ==
  ConsolidatedInputs(db, tx, s) # {} \/ s \notin DOMAIN db.ctip

NewCtip(db, tx, txid, s) ==
  [outpoint |-> <<txid, CHOOSE i \in TreasuryOutputs(db, tx, s) : TRUE>>,
   value |-> TreasuryOutput(db, tx, s).value]

M6Diff(db, uncons, tx, txid, s) ==
  LET index == CHOOSE i \in M6Indexes(db, uncons, tx, s) : TRUE
  IN  [type |-> "M6", slot |-> s, new_ctip |-> NewCtip(db, tx, txid, s),
       m6id |-> tx.payout, index |-> index, info |-> db.pending_m6ids[s][index]]

M5Diff(db, tx, txid) ==
  [type |-> "M5",
   new_ctips |-> [s \in {t \in TxSlots(db, tx) : ReplacesCtip(db, tx, t)} |->
                    NewCtip(db, tx, txid, s)]]

handle_m5_m6(db, uncons, tx, txid) ==
  CASE TxSlots(db, tx) = {} -> <<>>
    [] \E s \in TxSlots(db, tx) : IsM6(db, uncons, tx, s) ->
         << M6Diff(db, uncons, tx, txid,
                   CHOOSE s \in TxSlots(db, tx) : IsM6(db, uncons, tx, s)) >>
    [] OTHER -> << M5Diff(db, tx, txid) >>

\* Mutant of UnconsAfter: spent outputs keep waiting.
UnconsAfter_KeepsSpent(db, uncons, tx, txid) ==
  LET waiting == {s \in TxSlots(db, tx) : ~ReplacesCtip(db, tx, s)}
      slotOf(o) == CHOOSE s \in waiting : NewCtip(db, tx, txid, s).outpoint = o
  IN  PutAll(uncons, [o \in {NewCtip(db, tx, txid, s).outpoint : s \in waiting} |->
                        [slot |-> slotOf(o),
                         value |-> NewCtip(db, tx, txid, slotOf(o)).value]])

\* The unconsolidated outputs after the transaction.
UnconsAfter(db, uncons, tx, txid) ==
  LET spent == UNION {UnconsolidatedInputs(db, uncons, tx, s) : s \in Slot}
      waiting == {s \in TxSlots(db, tx) : ~ReplacesCtip(db, tx, s)}
      slotOf(o) == CHOOSE s \in waiting : NewCtip(db, tx, txid, s).outpoint = o
  IN  PutAll(Delete(uncons, spent),
             [o \in {NewCtip(db, tx, txid, s).outpoint : s \in waiting} |->
                [slot |-> slotOf(o),
                 value |-> NewCtip(db, tx, txid, slotOf(o)).value]])

\* Mutant of Deposits: the event says what the treasury holds afterwards.
Deposits_Total(db, uncons, tx) ==
  [s \in {t \in TxSlots(db, tx) : IsDeposit(db, uncons, tx, t)} |->
     [seq |-> db.treasury_utxo_count[s], value |-> TreasuryOutput(db, tx, s).value]]

\* The deposits of the block event.  The sequence number is the number of
\* treasury outputs so far.
Deposits(db, uncons, tx) ==
  [s \in {t \in TxSlots(db, tx) : IsDeposit(db, uncons, tx, t)} |->
     [seq |-> db.treasury_utxo_count[s],
      value |-> TreasuryOutput(db, tx, s).value
                  - TreasuryValueIn(db, uncons, tx, s)]]

(***************************************************************************)
(* handle_m8: a BMM request must be the one accepted by an M7 of the block *)
(* (`accepted`), and must name the parent block.                           *)
(***************************************************************************)
M8Rejected(accepted, tx) ==
  \E r \in tx.m8 :
    r.slot \in DOMAIN accepted /\ accepted[r.slot] = r.hash => r.prev # "parent"
=============================================================================
