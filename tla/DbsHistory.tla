----------------------------- MODULE DbsHistory -----------------------------
(***************************************************************************)
(* What the databases say about the blocks that led to them: how many      *)
(* votes a proposal or a bundle can have at a given height, and in which   *)
(* order bundles were proposed.                                            *)
(***************************************************************************)
EXTENDS BlockHandler

(***************************************************************************)
(* The pending bundles t of one sidechain at height h.                     *)
(***************************************************************************)

\* Oldest first, at most one per block, none from a later block.
Chronological(t, h) ==
  /\ \A i \in DOMAIN t : t[i].proposal_height <= h
  /\ \A i, j \in DOMAIN t :
       i < j => t[i].proposal_height < t[j].proposal_height

\* An upvote of one bundle lowers all others, so the votes of a bundle and a
\* later rival, the smaller count taken twice, grow by one per block at most.
RivalsBounded(older, later, h) ==
  LET v == older.vote_count
      w == later.vote_count
  IN  \/ 2 * v + w + older.proposal_height <= h + 4
      \/ v + 2 * w + older.proposal_height <= h + 4

\* One vote per block at most, on top of the one a bundle starts with.
VotesBounded(t, h) ==
  /\ \A i \in DOMAIN t : t[i].vote_count + t[i].proposal_height <= h + 2
  /\ \A i, j \in DOMAIN t : i < j => RivalsBounded(t[i], t[j], h)

NoneTooOld(t, h) ==
  \A i \in DOMAIN t : h - t[i].proposal_height <= WithdrawalBundleMaxAge

(***************************************************************************)
(* The databases at height h.                                              *)
(***************************************************************************)
ProposalsBounded(db, h) ==
  \A id \in DOMAIN db.proposal_id_to_sidechain :
    LET p == db.proposal_id_to_sidechain[id]
    IN  p.vote_count + p.proposal_height <= h

Earned(db, h) ==
  \A s \in DOMAIN db.sidechain :
    LET sc == db.sidechain[s]
        age == sc.activation_height - sc.proposal_height
    IN  /\ sc.activation_height <= h
        /\ sc.vote_count <= age
        /\ \/ /\ sc.vote_count > UnusedSlotActivationThreshold
              /\ age <= UnusedSlotProposalMaxAge
           \/ /\ sc.vote_count > WithdrawalBundleInclusionThreshold
              /\ age <= WithdrawalBundleMaxAge

PendingOK(db, h) ==
  \A s \in DOMAIN db.pending_m6ids : /\ Chronological(db.pending_m6ids[s], h)
                                    /\ VotesBounded(db.pending_m6ids[s], h)

\* At any point of the block at height h, and after it.
HistoryOK(db, h) == ProposalsBounded(db, h) /\ Earned(db, h) /\ PendingOK(db, h)

\* Once handle_failed_m6ids has removed the bundles that are too old.
FreshOK(db, h) ==
  \A s \in DOMAIN db.pending_m6ids : NoneTooOld(db.pending_m6ids[s], h)

-----------------------------------------------------------------------------
\* While the coinbase messages of the block at height h are handled, the
\* messages not yet seen have not added to the bounds of the parent block.
OpenProposals(db, seen, h) ==
  \A id \in DOMAIN db.proposal_id_to_sidechain :
    LET p == db.proposal_id_to_sidechain[id]
    IN  <<"M2", id[1]>> \notin seen /\ p.proposal_height # h
          => p.vote_count + p.proposal_height < h

OpenBundles(db, seen, h) ==
  \A s \in DOMAIN db.pending_m6ids :
    /\ <<"M3">> \notin seen => Chronological(db.pending_m6ids[s], h - 1)
    /\ <<"M4">> \notin seen => VotesBounded(db.pending_m6ids[s], h - 1)

-----------------------------------------------------------------------------
\* The slots an M4 diff names.
AckedSlots(diff) == IF diff.type = "AckBundles" THEN DOMAIN diff.actions ELSE {}

\* The treasury outputs that are ctips.
Ctips(db) == {db.ctip[s].outpoint : s \in DOMAIN db.ctip}
=============================================================================
