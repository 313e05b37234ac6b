---------------------------- MODULE DbsInvariant ----------------------------
(***************************************************************************)
(* What holds of the databases between any two diffs, and when a diff fits *)
(* the databases.  A diff that fits keeps the invariant and can be undone. *)
(***************************************************************************)
EXTENDS BlockDiff

\* The keys of slot_sequence_to_treasury_utxo if outputs are numbered from 0.
TreasuryKeys(db) ==
  UNION {{<<s, n>> : n \in 0..(db.treasury_utxo_count[s] - 1)} : s \in Slot}

\* The last treasury output of a slot, as a ctip.
LastTreasuryUtxo(db, s) ==
  LET utxo == db.slot_sequence_to_treasury_utxo[<<s, db.treasury_utxo_count[s] - 1>>]
  IN  [outpoint |-> utxo.outpoint, value |-> utxo.total_value]

\* The four treasury databases tell the same story: the outputs of a slot are
\* numbered without gaps, ctip is the last of them, every output that was ever
\* ctip is in ctip_outpoint_to_value_seq with its number, and each entry
\* remembers the value before it.
TreasuryOK(db) ==
  LET utxo(k) == db.slot_sequence_to_treasury_utxo[k]
      keys == TreasuryKeys(db)
  IN  /\ DOMAIN db.slot_sequence_to_treasury_utxo = keys
      /\ DOMAIN db.ctip = {s \in Slot : db.treasury_utxo_count[s] > 0}
      /\ \A s \in DOMAIN db.ctip : db.ctip[s] = LastTreasuryUtxo(db, s)
      /\ DOMAIN db.ctip_outpoint_to_value_seq = {utxo(k).outpoint : k \in keys}
      /\ \A k \in keys :
           /\ db.ctip_outpoint_to_value_seq[utxo(k).outpoint]
                = [slot |-> k[1], value |-> utxo(k).total_value, seq |-> k[2]]
           /\ utxo(k).previous_total_value
                = IF k[2] = 0 THEN 0 ELSE utxo(<<k[1], k[2] - 1>>).total_value

\* A slot has pending bundles if and only if it is active, no list has a
\* bundle twice, and no proposal has an activation height.
LifecycleOK(db) ==
  /\ DOMAIN db.pending_m6ids = DOMAIN db.sidechain
  /\ \A s \in DOMAIN db.pending_m6ids : \A i, j \in DOMAIN db.pending_m6ids[s] :
       db.pending_m6ids[s][i].m6id = db.pending_m6ids[s][j].m6id => i = j
  /\ \A id \in DOMAIN db.proposal_id_to_sidechain :
       db.proposal_id_to_sidechain[id].activation_height = 0

DbsInv(db) == DbsOK(db) /\ LifecycleOK(db) /\ TreasuryOK(db)

-----------------------------------------------------------------------------
(***************************************************************************)
(* When a diff fits the databases.                                         *)
(***************************************************************************)
NewSidechainProposalFits(db, d) ==
  /\ d.id \in ProposalId \ DOMAIN db.proposal_id_to_sidechain
  /\ d.sidechain \in Sidechain
  /\ d.sidechain.activation_height = 0

AckSidechainProposalFits(db, d) ==
  /\ d.id \in DOMAIN db.proposal_id_to_sidechain
  /\ \/ d.effect = "NoActivation"
     \/ d.effect = "SlotActivation" /\ d.id[1] \notin DOMAIN db.sidechain
     \/ /\ d.effect = "ReplaceActive" /\ d.id[1] \in DOMAIN db.sidechain
        /\ d.replaced = {db.sidechain[d.id[1]]}

ProposeBundleFits(db, d) ==
  /\ d.slot \in DOMAIN db.pending_m6ids
  /\ d.m6id \in M6id \ PendingIds(db.pending_m6ids[d.slot])

PositiveIds(pending) ==
  {pending[i].m6id : i \in {j \in DOMAIN pending : pending[j].vote_count > 0}}

AckBundlesFits(db, d) ==
  /\ DOMAIN d.actions \subseteq DOMAIN db.pending_m6ids
  /\ \A s \in DOMAIN d.actions :
       LET a == d.actions[s]
           pending == db.pending_m6ids[s]
       IN  \/ a.kind = "Alarm" /\ a.positive_votes_proposals = PositiveIds(pending)
           \/ /\ a.kind = "Upvote" /\ a.m6id \in PendingIds(pending)
              /\ a.downvoted_others = PositiveIds(pending) \ {a.m6id}

FailedProposalsFits(db, d) ==
  /\ DOMAIN d.failed \subseteq DOMAIN db.proposal_id_to_sidechain
  /\ d.failed = Restrict(db.proposal_id_to_sidechain, DOMAIN d.failed)

FailedM6idsFits(db, d) ==
  /\ DOMAIN d.failed \subseteq DOMAIN db.pending_m6ids
  /\ \A s \in DOMAIN d.failed :
       /\ DOMAIN d.failed[s] \subseteq DOMAIN db.pending_m6ids[s]
       /\ d.failed[s] = Restrict(db.pending_m6ids[s], DOMAIN d.failed[s])

\* Every new treasury output is one the databases have not seen.
NewCtipsFit(db, new) ==
  /\ IsMap(new, Slot, Ctip)
  /\ \A s \in DOMAIN new :
       new[s].outpoint \notin DOMAIN db.ctip_outpoint_to_value_seq
  /\ \A s, t \in DOMAIN new : new[s].outpoint = new[t].outpoint => s = t

M6Fits(db, d) ==
  /\ NewCtipsFit(db, [s \in {d.slot} |-> d.new_ctip])
  /\ d.slot \in DOMAIN db.pending_m6ids
  /\ d.index \in IndexesOf(db.pending_m6ids[d.slot], d.m6id)
  /\ d.info = db.pending_m6ids[d.slot][d.index]

Fits(db, d) ==
  \/ d.type = "NewSidechainProposal" /\ NewSidechainProposalFits(db, d)
  \/ d.type = "AckSidechainProposal" /\ AckSidechainProposalFits(db, d)
  \/ d.type = "ProposeBundle" /\ ProposeBundleFits(db, d)
  \/ d.type = "AckBundles" /\ AckBundlesFits(db, d)
  \/ d.type = "FailedProposals" /\ FailedProposalsFits(db, d)
  \/ d.type = "FailedM6ids" /\ FailedM6idsFits(db, d)
  \/ d.type = "M5" /\ NewCtipsFit(db, d.new_ctips)
  \/ d.type = "M6" /\ M6Fits(db, d)
=============================================================================
