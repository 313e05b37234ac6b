---------------------------- MODULE BlockTemplate ---------------------------
(***************************************************************************)
(* How the block producer builds a block (src/lib/block_producer/mod.rs    *)
(* and coinbase.rs), on top of the handlers that will judge it: the        *)
(* coinbase messages, what of the mempool to leave out, and the suffix     *)
(* transactions that pay out bundles and consolidate deposits.             *)
(*                                                                         *)
(* Every read of the validator is a read transaction of its own.  They are *)
(* put in five groups here, and the chain may move between two groups; a   *)
(* move inside a group can only yield other messages, which CheckCoinbase  *)
(* and FillTemplate try again in the same way.  Blocks that leave the same *)
(* databases behind are the same block here: to the builder the only       *)
(* difference is that it fails if the parent was replaced by the other.    *)
(***************************************************************************)
EXTENDS TransactionHandler, DbsInvariant, SequencesExt

CONSTANTS
  ActivationHeight,
  Past,         \* the blocks on the chain to begin with
  OtherBlock,   \* blocks of other miners
  Policy,       \* the operator's settings, see PolicyOK
  Deposit,      \* deposits in the mempool: transactions without treasury inputs
  MaxChain,     \* bound: blocks on the chain
  MaxPrefix,    \* bound: mempool transactions in a template
  MaxMoves      \* bound: changes of the tip while a template is built

PolicyOK(p) ==
  /\ p.ack_policy \in {"None", "NewSlots", "All"} /\ p.acks \subseteq ProposalId
  /\ p.bundle_policy \in {"None", "Known", "All", "Alarm"}
  /\ p.bundle_acks \subseteq Slot \X M6id
  /\ p.queued \subseteq ProposalId       \* sidechains to propose
  /\ p.bundles \subseteq Slot \X M6id    \* bundles stored and not settled

PolicyAssumption == \A p \in Policy : PolicyOK(p)

VARIABLES
  chain,      \* the databases after each of the connected blocks
  pc,
  template,   \* what has been built so far
  moves       \* how often the chain has changed since the build began

vars == <<chain, pc, template, moves>>

-----------------------------------------------------------------------------
(* partial_connect_block and finalize_connect_block, in one step           *)

ApplyAll(db, diffs, height) == IF diffs = <<>> THEN db ELSE Apply(db, diffs[1], height)

AfterMessage(st, m, height) ==
  IF \/ ~st.ok \/ MessageKey(m) \in st.seen
     \/ m.type = "M3" /\ M3Rejected(st.db, m.slot, m.m6id)
     \/ m.type = "M4" /\ M4Rejected(st.db, EmptyMap, m)
  THEN [st EXCEPT !.ok = FALSE]
  ELSE [st EXCEPT
          !.seen = @ \cup {MessageKey(m)},
          !.db = ApplyAll(@,
            CASE m.type = "M1" -> handle_m1_propose_sidechain(@, height, m.slot, m.desc)
              [] m.type = "M2" -> handle_m2_ack_sidechain(@, height, m.slot, m.desc)
              [] m.type = "M3" -> << handle_m3_propose_bundle(m.slot, m.m6id) >>
              [] m.type = "M4" -> handle_m4_ack_bundles(@, EmptyMap, m), height)]

AfterFailures(st, height) ==
  LET db1 == Apply(st.db, handle_failed_sidechain_proposals(st.db, height), height)
  IN  [st EXCEPT !.db = Apply(db1, handle_failed_m6ids(db1, height), height)]

FreshTxid(st) ==
  CHOOSE t \in Txid : t \notin {o[1] : o \in DOMAIN st.db.ctip_outpoint_to_value_seq
                                             \cup DOMAIN st.uncons}

AfterTx(st, tx, height) ==
  IF ~st.ok \/ M5M6Rejected(st.db, st.uncons, tx, TRUE)
  THEN [st EXCEPT !.ok = FALSE]
  ELSE LET txid == FreshTxid(st)
       IN  [st EXCEPT
              !.db = ApplyAll(@, handle_m5_m6(@, st.uncons, tx, txid), height),
              !.uncons = UnconsAfter(st.db, @, tx, txid)]

\* The result of partial_connect_block on databases db.
PartialConnect(db, height, block) ==
  LET start == [ok |-> TRUE, db |-> db, seen |-> {}, uncons |-> EmptyMap]
      messages == FoldLeft(LAMBDA st, m : AfterMessage(st, m, height), start, block.msgs)
      failures == IF messages.ok THEN AfterFailures(messages, height) ELSE messages
  IN  IF height < ActivationHeight THEN start
      ELSE FoldLeft(LAMBDA st, tx : AfterTx(st, tx, height), failures, block.txs)

ConnectsOn(db, height, block) ==
  LET res == PartialConnect(db, height, block)
  IN  res.ok /\ DOMAIN res.uncons = {}

DbOf(c) == IF c = <<>> THEN EmptyDbs ELSE Last(c)

\* The chain with the block on top; the genesis block has height 0.
Extend(c, block) == Append(c, PartialConnect(DbOf(c), Len(c), block).db)

db0 == DbOf(chain)
next_height == Len(chain)

-----------------------------------------------------------------------------
(* extend_coinbase_txouts: the messages                                    *)

used_slots == DOMAIN db0.sidechain

\* get_active_sidechain_proposals keys the pending proposals by slot, and so
\* keeps one per slot, whichever comes last in the database.
PendingBySlot ==
  LET ids == DOMAIN db0.proposal_id_to_sidechain
  IN  {f \in [{id[1] : id \in ids} -> Description] : \A s \in DOMAIN f : <<s, f[s]>> \in ids}

auto_acks(policy, slot_is_used) ==
  policy = "All" \/ (policy = "NewSlots" /\ ~slot_is_used)

\* The stored acks of proposals found in `pending`, and the automatic ones.
select_sidechain_acks(acks, pending, used, policy) ==
  {<<s, pending[s]>> : s \in {t \in DOMAIN pending : <<t, pending[t]>> \in acks
                                                    \/ auto_acks(policy, t \in used)}}

\* Those of the lowest slot; which of them is the lowest is up to the hashes.
Lowest(ids) == {id \in ids : \A other \in ids : id[1] <= other[1]}

select_sidechain_proposal(queued) ==
  Lowest(queued \ DOMAIN db0.proposal_id_to_sidechain)

\* The stored bundles of the slots in use, with what the validator has pending.
InfoOf(slot, m6id) ==
  {db0.pending_m6ids[slot][i] : i \in IndexesOf(db0.pending_m6ids[slot], m6id)}

OurBundles(bundles, used) == {b \in bundles : b[1] \in used}

select_bundle_proposal(bundles, used) ==
  Lowest({b \in OurBundles(bundles, used) : InfoOf(b[1], b[2]) = {}})

\* WithdrawalBundleVote::resolve, -1 for Abstain and -2 for Alarm.
first_matching(pending, worth_backing) ==
  LET I == {i \in DOMAIN pending : pending[i].m6id \in worth_backing}
  IN  IF I = {} THEN -1 ELSE Min(I) - 1

resolve(policy, pending, acked, ours) ==
  LET explicit == first_matching(pending, acked)
  IN  CASE explicit # -1 -> explicit
        [] explicit = -1 /\ policy = "None" -> -1
        [] explicit = -1 /\ policy = "Alarm" -> -2
        [] explicit = -1 /\ policy = "Known" -> first_matching(pending, ours)
        [] explicit = -1 /\ policy = "All" -> first_matching(pending, M6id)

select_bundle_votes(p, used) ==
  LET of(pairs, s) == {m \in M6id : <<s, m>> \in pairs}
      slot(i) == CHOOSE s \in used : Cardinality({t \in used : t <= s}) = i
  IN  [i \in 1..Cardinality(used) |->
         resolve(p.bundle_policy, db0.pending_m6ids[slot(i)], of(p.bundle_acks, slot(i)),
                 of(OurBundles(p.bundles, used), slot(i)))]

\* M4AckBundles::from_votes
from_votes(votes) ==
  LET wide == \E i \in DOMAIN votes : votes[i] > AlarmOneByte - 1
      abstain == IF wide THEN AbstainTwoBytes ELSE AbstainOneByte
      alarm == IF wide THEN AlarmTwoBytes ELSE AlarmOneByte
  IN  [type |-> "M4", version |-> IF wide THEN "TwoBytes" ELSE "OneByte",
       upvotes |-> [i \in DOMAIN votes |-> CASE votes[i] = -1 -> abstain
                                             [] votes[i] = -2 -> alarm
                                             [] OTHER -> votes[i]]]

\* Mutant of m2s_may_activate_unused_slot: no ack activates.
m2s_may_activate_unused_slot_Never(acks, used, height) == FALSE

\* An ack that may activate a free slot would change how many votes an M4 has.
m2s_may_activate_unused_slot(acks, used, height) ==
  \E id \in acks \cap DOMAIN db0.proposal_id_to_sidechain :
    LET p == db0.proposal_id_to_sidechain[id]
    IN  /\ id[1] \notin used
        /\ p.vote_count + 1 > UnusedSlotActivationThreshold
        /\ SatSub(height, p.proposal_height) <= UnusedSlotProposalMaxAge

M1s(ids) == SetToSeq({[type |-> "M1", slot |-> id[1], desc |-> id[2]] : id \in ids})
M2s(ids) == SetToSeq({[type |-> "M2", slot |-> id[1], desc |-> id[2]] : id \in ids})
M3s(bs) == SetToSeq({[type |-> "M3", slot |-> b[1], m6id |-> b[2]] : b \in bs})

-----------------------------------------------------------------------------
(* suffix_txs_for_proposals: the transactions                              *)

Over(info) == info.vote_count > WithdrawalBundleInclusionThreshold

PayoutTx(slot, m6id, ins, value) ==
  [ins |-> ins, other |-> FALSE, shifted |-> FALSE, payout |-> m6id, m8 |-> {},
   outs |-> << [slot |-> slot, value |-> value - BundleValue[m6id], addr |-> FALSE] >>]

\* What the suffix spends of a slot: its ctip and its unconsolidated outputs.
UnconsOf(st, slot) == {o \in DOMAIN st.uncons : st.uncons[o].slot = slot}
TreasuryIns(st, slot) ==
  UnconsOf(st, slot) \cup IF slot \in DOMAIN st.db.ctip THEN {st.db.ctip[slot].outpoint} ELSE {}
TreasuryIn(st, slot) ==
  MapThenSumSet(LAMBDA o : st.uncons[o].value, UnconsOf(st, slot))
    + IF slot \in DOMAIN st.db.ctip THEN st.db.ctip[slot].value ELSE 0

\* Mutant of AppendPayout: deposits of the same block do not count.
AppendPayout_CtipOnly(st, b) ==
  IF b[1] \notin DOMAIN st.db.ctip \/ st.db.ctip[b[1]].value < BundleValue[b[2]]
  THEN st
  ELSE LET tx == PayoutTx(b[1], b[2], TreasuryIns(st, b[1]), TreasuryIn(st, b[1]))
       IN  [st EXCEPT !.suffix = Append(@, tx), !.uncons = Delete(@, UnconsOf(st, b[1]))]

\* A bundle is skipped if its slot has no treasury, or not enough in it.
AppendPayout(st, b) ==
  IF b[1] \notin DOMAIN st.db.ctip \/ TreasuryIn(st, b[1]) < BundleValue[b[2]]
  THEN st
  ELSE LET tx == PayoutTx(b[1], b[2], TreasuryIns(st, b[1]), TreasuryIn(st, b[1]))
           txid == FreshTxid(st)
           out == [outpoint |-> <<txid, 1>>, value |-> tx.outs[1].value]
       IN  [st EXCEPT !.suffix = Append(@, tx),
                      !.db.ctip = Put(@, b[1], out),
                      !.db.ctip_outpoint_to_value_seq =
                         Put(@, out.outpoint, [slot |-> b[1], value |-> out.value, seq |-> 0]),
                      !.uncons = Delete(@, UnconsOf(st, b[1]))]

\* Mutant of Consolidation: deposits are left unconsolidated.
Consolidation_None(st) == <<>>

\* One transaction consolidates what is left, of all slots.
Consolidation(st) ==
  LET slots == {st.uncons[o].slot : o \in DOMAIN st.uncons}
  IN  IF slots = {} THEN <<>>
      ELSE << [ins |-> UNION {TreasuryIns(st, s) : s \in slots}, other |-> FALSE,
               shifted |-> FALSE, payout |-> CHOOSE m \in M6id : TRUE, m8 |-> {},
               outs |-> SetToSeq({[slot |-> s, value |-> TreasuryIn(st, s), addr |-> FALSE] :
                                    s \in slots})] >>

suffix_txs_for_proposals(bundles, st) ==
  LET paid == FoldLeft(LAMBDA acc, b : AppendPayout(acc, b),
                       [db |-> st.db, uncons |-> st.uncons, suffix |-> <<>>], bundles)
  IN  paid.suffix \o Consolidation(paid)

-----------------------------------------------------------------------------
(* initial_block_template and finalize_block_template, read by read        *)

NoTemplate == [msgs |-> <<>>]

ProposeAndAck ==
  /\ pc = "idle"
  /\ \E p \in Policy, pending \in PendingBySlot :
       LET m1 == select_sidechain_proposal(p.queued)
           acks == select_sidechain_acks(p.acks, pending, used_slots, p.ack_policy)
           active == next_height >= ActivationHeight
       IN  \E proposal \in IF m1 = {} THEN {{}} ELSE {{id} : id \in m1} :
             /\ template' = [policy |-> p, parent |-> chain, used |-> used_slots,
                             acks |-> acks,
                             msgs |-> IF active THEN M1s(proposal) \o M2s(acks) ELSE <<>>]
             /\ pc' = IF active THEN "votes" ELSE "check"
  /\ moves' = 0
  /\ UNCHANGED chain

\* Every template error ends here, before a template is served.
Fail == pc' = "failed" /\ UNCHANGED template

\* The M3 and the M4.  A slot that is no longer in use has no pending bundles
\* to read.  An M4 is left out if it votes on nothing.
BundlesAndVotes ==
  /\ pc = "votes"
  /\ IF ~(template.used \subseteq DOMAIN db0.pending_m6ids) THEN Fail
     ELSE LET p == template.policy
              m3 == select_bundle_proposal(p.bundles, template.used)
              votes == select_bundle_votes(p, template.used)
              m4 == IF /\ \E i \in DOMAIN votes : votes[i] # -1
                       /\ ~m2s_may_activate_unused_slot(template.acks, template.used,
                                                        Len(template.parent))
                    THEN << from_votes(votes) >> ELSE <<>>
          IN  \E bundle \in IF m3 = {} THEN {{}} ELSE {{b} : b \in m3} :
                /\ template' = [template EXCEPT !.msgs = @ \o M3s(bundle) \o m4]
                /\ pc' = "check"
  /\ UNCHANGED <<chain, moves>>

PayableIn(db, slot, m6id) ==
  /\ slot \in DOMAIN db.pending_m6ids
  /\ \E i \in IndexesOf(db.pending_m6ids[slot], m6id) : Over(db.pending_m6ids[slot][i])

\* Our bundles that have the votes at the tip.
Approved(bundles) == {b \in OurBundles(bundles, used_slots) : PayableIn(db0, b[1], b[2])}

\* The coinbase is tried on the parent, which has to be the tip still; mempool
\* payouts that it leaves unpayable are excluded.
CheckCoinbase ==
  /\ pc = "check"
  /\ LET after == PartialConnect(db0, next_height, [msgs |-> template.msgs, txs |-> <<>>])
     IN  IF chain # template.parent \/ ~after.ok THEN Fail
         ELSE /\ template' =
                   [policy |-> template.policy, msgs |-> template.msgs,
                    excluded |-> {b \in Slot \X M6id : ~PayableIn(after.db, b[1], b[2])}]
              /\ pc' = "fill"
  /\ UNCHANGED <<chain, moves>>

\* The mempool's payouts spend the ctip.  One of them can be in a block.
MempoolPayouts ==
  {PayoutTx(b[1], b[2], {db0.ctip[b[1]].outpoint}, db0.ctip[b[1]].value) :
     b \in {c \in (Slot \X M6id) \ template.excluded :
              c[1] \in DOMAIN db0.ctip /\ db0.ctip[c[1]].value >= BundleValue[c[2]]}}

MempoolChoices ==
  {s \in SeqOf(Deposit \cup MempoolPayouts, MaxPrefix) :
     \A i, j \in DOMAIN s : i # j => s[i].ins = {} \/ s[i].ins # s[j].ins}

\* The messages and the mempool transactions chosen are tried on the tip.
FillTemplate ==
  /\ pc = "fill"
  /\ \E prefix \in MempoolChoices :
       LET after == PartialConnect(db0, next_height, [msgs |-> template.msgs, txs |-> prefix])
       IN  IF ~after.ok THEN Fail
           ELSE /\ template' = [policy |-> template.policy, msgs |-> template.msgs,
                                txs |-> prefix, on |-> chain,
                                after |-> [db |-> after.db, uncons |-> after.uncons]]
                /\ pc' = "suffix"
  /\ UNCHANGED <<chain, moves>>

\* Our bundles that the suffix pays: approved, also after what precedes it.
ToPay(bundles, after) == {b \in Approved(bundles) : PayableIn(after.db, b[1], b[2])}

AppendSuffix ==
  /\ pc = "suffix"
  /\ \E order \in SetToSeqs(ToPay(template.policy.bundles, template.after)) :
       template' = [policy |-> template.policy, msgs |-> template.msgs,
                    prefix |-> template.txs, on |-> template.on, after |-> template.after,
                    suffix |-> suffix_txs_for_proposals(order, template.after)]
  /\ pc' = "served"
  /\ UNCHANGED <<chain, moves>>

Served == [msgs |-> template.msgs, txs |-> template.prefix \o template.suffix]

\* A miner finds the block, or the template is dropped.
Mined ==
  /\ pc = "served"
  /\ chain' = IF chain = template.on /\ Len(chain) < MaxChain
                THEN Extend(chain, Served) ELSE chain
  /\ pc' = "idle" /\ template' = NoTemplate /\ moves' = 0

Dropped ==
  /\ pc \in {"failed", "served"}
  /\ pc' = "idle" /\ template' = NoTemplate /\ moves' = 0
  /\ UNCHANGED chain

-----------------------------------------------------------------------------
(* The chain                                                               *)

Move == moves' = (IF pc = "idle" THEN 0 ELSE moves + 1) /\ moves' <= MaxMoves

ConnectOther ==
  /\ Len(chain) < MaxChain
  /\ \E b \in OtherBlock :
       ConnectsOn(db0, next_height, b) /\ chain' = Extend(chain, b)
  /\ Move
  /\ UNCHANGED <<pc, template>>

DisconnectTip ==
  /\ Len(chain) > Len(Past)
  /\ chain' = Front(chain)
  /\ Move
  /\ UNCHANGED <<pc, template>>

Init ==
  /\ chain = FoldLeft(Extend, <<>>, Past)
  /\ pc = "idle" /\ template = NoTemplate /\ moves = 0

Next ==
  \/ ProposeAndAck \/ BundlesAndVotes \/ CheckCoinbase \/ FillTemplate \/ AppendSuffix
  \/ Mined \/ Dropped \/ ConnectOther \/ DisconnectTip

Spec == Init /\ [][Next]_vars

-----------------------------------------------------------------------------
(* Properties                                                              *)

\* The databases that the blocks mined from templates and those of others leave
\* behind are consistent.
TypeOK ==
  /\ Len(chain) \in 0..MaxChain /\ DbsInv(db0)
  /\ pc \in {"idle", "votes", "check", "fill", "suffix", "served", "failed"}
  /\ moves \in 0..MaxMoves

\* The validator accepts every block that is mined from a template on the tip
\* that finalize_block_template tried it on, wherever the chain moved while
\* the template was built: the messages, the mempool's transactions and the
\* suffix fit together.
TemplateConnects ==
  pc = "served" => ConnectsOn(DbOf(template.on), Len(template.on), Served)

\* Building a template fails only if the chain moved meanwhile: no setting of
\* the operator, no pending proposal or bundle and no mempool keeps the node
\* from producing blocks.
StableBuildSucceeds == pc = "failed" => moves > 0

\* On a tip that stays, every bundle of ours that the tip and the block so far
\* have approved is paid if the treasury can pay it: neither a bundle that
\* cannot be paid, nor another slot without treasury, nor deposits in the same
\* block keep it from being paid.
ApprovedBundlesPaid ==
  pc = "served" /\ moves = 0 =>
    \A b \in template.policy.bundles :
      /\ PayableIn(db0, b[1], b[2]) /\ PayableIn(template.after.db, b[1], b[2])
      /\ b[1] \in DOMAIN template.after.db.ctip
      /\ TreasuryIn(template.after, b[1]) >= BundleValue[b[2]]
      => \E i \in DOMAIN template.suffix :
           /\ template.suffix[i].payout = b[2] /\ template.suffix[i].outs[1].slot = b[1]
           /\ template.suffix[i].outs[1].value < TreasuryIn(template.after, b[1])
=============================================================================
