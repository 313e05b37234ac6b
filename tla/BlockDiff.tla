----------------------------- MODULE BlockDiff ------------------------------
(***************************************************************************)
(* Block diffs (lib/validator/dbs/diff.rs).  Connecting a block applies a  *)
(* sequence of diffs to the databases and stores it; disconnecting the     *)
(* block undoes them, last one first.                                      *)
(*                                                                         *)
(* diff::Block nests its parts (the coinbase messages in order, the failed *)
(* proposals, the failed bundles, the transactions in order).  Both apply  *)
(* and undo walk them in this order, or its reverse, so a block's diff is  *)
(* the one sequence of all of them.                                        *)
(***************************************************************************)
EXTENDS SidechainDbs

(***************************************************************************)
(* A diff is a record whose `type` is one of these; its other fields:      *)
(*   NewSidechainProposal  id, sidechain                                   *)
(*   AckSidechainProposal  id, effect ("NoActivation", "SlotActivation",   *)
(*                         "ReplaceActive"), replaced (the sidechain that  *)
(*                         ReplaceActive carries, as a set of at most one) *)
(*   ProposeBundle         slot, m6id                                      *)
(*   AckBundles            actions: slot -> "Alarm" with                   *)
(*                         positive_votes_proposals, or "Upvote" with m6id *)
(*                         and downvoted_others                            *)
(*   FailedProposals       failed: id -> sidechain                         *)
(*   FailedM6ids           failed: slot -> index -> bundle                 *)
(*   M5                    new_ctips: slot -> ctip                         *)
(*   M6                    slot, new_ctip, m6id, index, info               *)
(***************************************************************************)
DiffType == {"NewSidechainProposal", "AckSidechainProposal", "ProposeBundle",
             "AckBundles", "FailedProposals", "FailedM6ids", "M5", "M6"}

-----------------------------------------------------------------------------
(***************************************************************************)
(* diff::NewSidechainProposal                                              *)
(***************************************************************************)
ApplyNewSidechainProposal(db, d) ==
  [db EXCEPT !.proposal_id_to_sidechain = Put(@, d.id, d.sidechain)]

UndoNewSidechainProposal(db, d) ==
  [db EXCEPT !.proposal_id_to_sidechain = Delete(@, {d.id})]

(***************************************************************************)
(* diff::AckSidechainProposal: an ack that activates moves the proposal    *)
(* into its slot.                                                          *)
(***************************************************************************)
ApplyAckSidechainProposal(db, d, height) ==
  LET acked == [db.proposal_id_to_sidechain[d.id] EXCEPT !.vote_count = @ + 1]
      active == [acked EXCEPT !.activation_height = height]
  IN  IF d.effect = "NoActivation"
      THEN [db EXCEPT !.proposal_id_to_sidechain = Put(@, d.id, acked)]
      ELSE [put_sidechain(db, d.id[1], active)
              EXCEPT !.proposal_id_to_sidechain = Delete(@, {d.id})]

\* The proposal as undo finds it: still a proposal, or active in its slot.
AckedSidechain(db, d) ==
  IF d.effect = "NoActivation"
  THEN db.proposal_id_to_sidechain[d.id]
  ELSE [db.sidechain[d.id[1]] EXCEPT !.activation_height = 0]

\* Mutant of RestoreSlot: a replaced sidechain is not put back.
RestoreSlot_DropsReplaced(db, d) ==
  IF d.effect = "NoActivation" THEN db ELSE delete_sidechain(db, d.id[1])

\* The slot as it was before an ack that activated.
RestoreSlot(db, d) ==
  CASE d.effect = "NoActivation" -> db
    [] d.effect = "SlotActivation" -> delete_sidechain(db, d.id[1])
    [] d.effect = "ReplaceActive" ->
         put_sidechain(db, d.id[1], CHOOSE r \in d.replaced : TRUE)

\* Mutant of UndoAckSidechainProposal: the vote stays.
UndoAckSidechainProposal_KeepsVote(db, d) ==
  [RestoreSlot(db, d) EXCEPT !.proposal_id_to_sidechain =
     Put(@, d.id, AckedSidechain(db, d))]

UndoAckSidechainProposal(db, d) ==
  LET unacked == [AckedSidechain(db, d) EXCEPT !.vote_count = @ - 1]
  IN  [RestoreSlot(db, d) EXCEPT !.proposal_id_to_sidechain = Put(@, d.id, unacked)]

(***************************************************************************)
(* diff::ProposeBundle                                                     *)
(***************************************************************************)
ApplyProposeBundle(db, d, height) ==
  put_pending_m6id(db, d.slot, d.m6id, height)

\* Mutant of UndoProposeBundle: the bundle stays pending.
UndoProposeBundle_KeepsBundle(db, d) == db

UndoProposeBundle(db, d) == delete_pending_withdrawal(db, d.slot, d.m6id)

(***************************************************************************)
(* diff::AckBundles: one action per sidechain.  Applying it lowers votes   *)
(* no further than zero, undoing it raises exactly the bundles recorded.   *)
(***************************************************************************)
AckVotes(b, a) ==
  CASE a.kind = "Alarm" -> SatSub(b.vote_count, 1)
    [] a.kind = "Upvote" /\ b.m6id = a.m6id -> b.vote_count + 1
    [] a.kind = "Upvote" /\ b.m6id # a.m6id ->
         IF b.m6id \in a.downvoted_others THEN SatSub(b.vote_count, 1)
                                          ELSE b.vote_count

\* Mutant of UnackVotes: only the lowered votes are restored.
UnackVotes_KeepsUpvote(b, a) ==
  IF \/ a.kind = "Alarm" /\ b.m6id \in a.positive_votes_proposals
     \/ a.kind = "Upvote" /\ b.m6id \in a.downvoted_others
  THEN b.vote_count + 1 ELSE b.vote_count

UnackVotes(b, a) ==
  CASE a.kind = "Alarm" ->
         IF b.m6id \in a.positive_votes_proposals THEN b.vote_count + 1
                                                  ELSE b.vote_count
    [] a.kind = "Upvote" /\ b.m6id = a.m6id -> b.vote_count - 1
    [] a.kind = "Upvote" /\ b.m6id # a.m6id ->
         IF b.m6id \in a.downvoted_others THEN b.vote_count + 1
                                          ELSE b.vote_count

Acked(pending, a) ==
  [i \in DOMAIN pending |->
     [pending[i] EXCEPT !.vote_count = AckVotes(pending[i], a)]]

Unacked(pending, a) ==
  [i \in DOMAIN pending |->
     [pending[i] EXCEPT !.vote_count = UnackVotes(pending[i], a)]]

ApplyAckBundles(db, d) ==
  [db EXCEPT !.pending_m6ids =
     [s \in DOMAIN @ |-> IF s \in DOMAIN d.actions
                         THEN Acked(@[s], d.actions[s]) ELSE @[s]]]

UndoAckBundles(db, d) ==
  [db EXCEPT !.pending_m6ids =
     [s \in DOMAIN @ |-> IF s \in DOMAIN d.actions
                         THEN Unacked(@[s], d.actions[s]) ELSE @[s]]]

(***************************************************************************)
(* diff::FailedProposals                                                   *)
(***************************************************************************)
ApplyFailedProposals(db, d) ==
  [db EXCEPT !.proposal_id_to_sidechain = Delete(@, DOMAIN d.failed)]

\* Mutant of UndoFailedProposals: the proposals are not put back.
UndoFailedProposals_Forgets(db, d) == db

UndoFailedProposals(db, d) ==
  [db EXCEPT !.proposal_id_to_sidechain = PutAll(@, d.failed)]

(***************************************************************************)
(* diff::FailedM6ids: removes the bundles at the recorded indexes and puts *)
(* them back there.                                                        *)
(***************************************************************************)
ApplyFailedM6ids(db, d) ==
  [db EXCEPT !.pending_m6ids =
     [s \in DOMAIN @ |-> IF s \in DOMAIN d.failed
                         THEN RemoveIndexes(@[s], DOMAIN d.failed[s])
                         ELSE @[s]]]

UndoFailedM6ids(db, d) ==
  [db EXCEPT !.pending_m6ids =
     [s \in DOMAIN @ |-> IF s \in DOMAIN d.failed
                         THEN InsertIndexes(@[s], d.failed[s])
                         ELSE @[s]]]

(***************************************************************************)
(* diff::M5 and diff::M6                                                   *)
(***************************************************************************)
ApplyM5(db, d) == put_ctip(db, d.new_ctips)

\* Mutant of UndoM5: the previous output does not become the ctip again.
UndoM5_DropsPrevious(db, d) ==
  [delete_ctip(db, DOMAIN d.new_ctips) EXCEPT
     !.ctip = Delete(db.ctip, DOMAIN d.new_ctips)]

UndoM5(db, d) == delete_ctip(db, DOMAIN d.new_ctips)

ApplyM6(db, d) ==
  delete_pending_withdrawal(put_ctip(db, [s \in {d.slot} |-> d.new_ctip]),
                            d.slot, d.m6id)

UndoM6(db, d) ==
  LET restored == delete_ctip(db, {d.slot})
  IN  with_pending_withdrawals(restored, d.slot,
        InsertIndexes(restored.pending_m6ids[d.slot],
                      [i \in {d.index} |-> d.info]))

-----------------------------------------------------------------------------
(***************************************************************************)
(* Dispatch over the kinds of diff.                                        *)
(***************************************************************************)
Apply(db, d, height) ==
  CASE d.type = "NewSidechainProposal" -> ApplyNewSidechainProposal(db, d)
    [] d.type = "AckSidechainProposal" -> ApplyAckSidechainProposal(db, d, height)
    [] d.type = "ProposeBundle" -> ApplyProposeBundle(db, d, height)
    [] d.type = "AckBundles" -> ApplyAckBundles(db, d)
    [] d.type = "FailedProposals" -> ApplyFailedProposals(db, d)
    [] d.type = "FailedM6ids" -> ApplyFailedM6ids(db, d)
    [] d.type = "M5" -> ApplyM5(db, d)
    [] d.type = "M6" -> ApplyM6(db, d)

Undo(db, d) ==
  CASE d.type = "NewSidechainProposal" -> UndoNewSidechainProposal(db, d)
    [] d.type = "AckSidechainProposal" -> UndoAckSidechainProposal(db, d)
    [] d.type = "ProposeBundle" -> UndoProposeBundle(db, d)
    [] d.type = "AckBundles" -> UndoAckBundles(db, d)
    [] d.type = "FailedProposals" -> UndoFailedProposals(db, d)
    [] d.type = "FailedM6ids" -> UndoFailedM6ids(db, d)
    [] d.type = "M5" -> UndoM5(db, d)
    [] d.type = "M6" -> UndoM6(db, d)

\* UndoError: a vote count that undo would take below zero, or a key that
\* undo expects and does not find.
UndoFails(db, d) ==
  \/ /\ d.type = "AckSidechainProposal"
     /\ \/ d.effect = "NoActivation" /\ d.id \notin DOMAIN db.proposal_id_to_sidechain
        \/ d.effect # "NoActivation" /\ d.id[1] \notin DOMAIN db.sidechain
        \/ AckedSidechain(db, d).vote_count = 0
  \/ /\ d.type = "AckBundles"
     /\ \E s \in DOMAIN d.actions :
          \/ s \notin DOMAIN db.pending_m6ids
          \/ /\ d.actions[s].kind = "Upvote"
             /\ \A i \in DOMAIN db.pending_m6ids[s] :
                  db.pending_m6ids[s][i].m6id = d.actions[s].m6id
                    => db.pending_m6ids[s][i].vote_count = 0
  \/ d.type = "ProposeBundle" /\ d.slot \notin DOMAIN db.pending_m6ids
  \/ d.type = "FailedM6ids" /\ ~(DOMAIN d.failed \subseteq DOMAIN db.pending_m6ids)
  \/ /\ d.type = "M5"
     /\ \E s \in DOMAIN d.new_ctips :
          s \notin DOMAIN db.ctip \/ db.treasury_utxo_count[s] = 0
  \/ /\ d.type = "M6"
     /\ \/ d.slot \notin DOMAIN db.ctip \/ db.treasury_utxo_count[d.slot] = 0
        \/ d.slot \notin DOMAIN db.pending_m6ids
=============================================================================
