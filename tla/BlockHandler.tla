---------------------------- MODULE BlockHandler ----------------------------
(***************************************************************************)
(* The BIP 300/301 message handlers of BlockHandler                        *)
(* (lib/validator/task/mod.rs).  Handlers read the databases and return a  *)
(* diff; they write nothing.  A handler that may return "no diff" gives a  *)
(* sequence of at most one diff.  Handlers that may reject the block have  *)
(* a predicate ...Rejected; `p => q` there says that without p the message *)
(* is rejected at once.                                                    *)
(***************************************************************************)
EXTENDS BlockDiff, FiniteSetsExt

CONSTANTS
  WithdrawalBundleMaxAge, WithdrawalBundleInclusionThreshold,
  UnusedSlotProposalMaxAge, UnusedSlotActivationThreshold,
  U16Max,             \* largest vote count of a bundle (a u16)
  LeadingBy50Margin,  \* 50 in the code
  BundleValue         \* what the payouts and fee of a bundle add up to

ASSUME ThresholdsAssumption ==
  /\ WithdrawalBundleMaxAge \in Nat /\ UnusedSlotProposalMaxAge \in Nat
  /\ WithdrawalBundleInclusionThreshold \in Nat
  /\ UnusedSlotActivationThreshold \in Nat
  /\ U16Max \in Nat /\ LeadingBy50Margin \in Nat \ {0}

ASSUME BundleValueAssumption == BundleValue \in [M6id -> Nat \ {0}]

-----------------------------------------------------------------------------
\* Mutant of MessageKey: a second M4 with other votes is let through.
MessageKey_ManyM4(m) ==
  CASE m.type \in {"M2", "M7"} -> <<m.type, m.slot>>
    [] m.type = "M4" -> <<m.type, m.version>>
    [] OTHER -> <<m.type>>

\* CoinbaseMessages::push: one M1, one M3, one M4, and one M2 and one M7 per
\* slot.
MessageKey(m) == IF m.type \in {"M2", "M7"} THEN <<m.type, m.slot>> ELSE <<m.type>>

(***************************************************************************)
(* M1 and M2: sidechain proposals.                                         *)
(***************************************************************************)

\* M1: a proposal whose id is pending already is ignored.
handle_m1_propose_sidechain(db, height, slot, desc) ==
  IF <<slot, desc>> \in DOMAIN db.proposal_id_to_sidechain
  THEN <<>>
  ELSE << [type |-> "NewSidechainProposal", id |-> <<slot, desc>>,
           sidechain |-> [desc |-> desc, vote_count |-> 0,
                          proposal_height |-> height,
                          activation_height |-> 0]] >>

SlotIsUsed(db, slot) == slot \in DOMAIN db.sidechain

\* The vote threshold and the age limit a proposal for this slot is under.
ActivationThreshold(db, slot) ==
  IF SlotIsUsed(db, slot) THEN WithdrawalBundleInclusionThreshold
                          ELSE UnusedSlotActivationThreshold

ProposalMaxAge(db, slot) ==
  IF SlotIsUsed(db, slot) THEN WithdrawalBundleMaxAge
                          ELSE UnusedSlotProposalMaxAge

\* Mutant of handle_m2_ack_sidechain: a proposal activates when it reaches the
\* threshold.
handle_m2_ack_sidechain_AtThreshold(db, height, slot, desc) ==
  LET id == <<slot, desc>>
      acked == db.proposal_id_to_sidechain[id]
      activates == acked.vote_count + 1 >= ActivationThreshold(db, slot)
  IN  IF \/ id \notin DOMAIN db.proposal_id_to_sidechain
         \/ acked.proposal_height = height
      THEN <<>>
      ELSE << [type |-> "AckSidechainProposal", id |-> id,
               effect |-> IF activates /\ ~SlotIsUsed(db, slot)
                          THEN "SlotActivation" ELSE "NoActivation",
               replaced |-> {}] >>

\* M2: an ack of an unknown proposal, or in the block that proposes it, is
\* ignored.
handle_m2_ack_sidechain(db, height, slot, desc) ==
  LET id == <<slot, desc>>
      acked == db.proposal_id_to_sidechain[id]
      activates == /\ acked.vote_count + 1 > ActivationThreshold(db, slot)
                   /\ SatSub(height, acked.proposal_height)
                        <= ProposalMaxAge(db, slot)
  IN  IF \/ id \notin DOMAIN db.proposal_id_to_sidechain
         \/ acked.proposal_height = height
      THEN <<>>
      ELSE << [type |-> "AckSidechainProposal", id |-> id,
               effect |-> CASE ~activates -> "NoActivation"
                            [] activates /\ SlotIsUsed(db, slot) -> "ReplaceActive"
                            [] activates /\ ~SlotIsUsed(db, slot) -> "SlotActivation",
               replaced |-> IF activates /\ SlotIsUsed(db, slot)
                            THEN {db.sidechain[slot]} ELSE {}] >>

\* Mutant of ProposalFailed: always with the threshold of a used slot.
ProposalFailed_UsedThreshold(db, height, id) ==
  LET proposal == db.proposal_id_to_sidechain[id]
      max_age == ProposalMaxAge(db, id[1])
      max_fails == SatSub(max_age, WithdrawalBundleInclusionThreshold)
      age == SatSub(height, proposal.proposal_height)
      fails == SatSub(age, proposal.vote_count)
  IN  age > max_age \/ (age > max_fails /\ fails >= max_fails)

\* A proposal fails when it is too old, or has missed so many blocks that
\* the votes left cannot take it over the threshold.
ProposalFailed(db, height, id) ==
  LET proposal == db.proposal_id_to_sidechain[id]
      max_age == ProposalMaxAge(db, id[1])
      max_fails == SatSub(max_age, ActivationThreshold(db, id[1]))
      age == SatSub(height, proposal.proposal_height)
      fails == SatSub(age, proposal.vote_count)
  IN  age > max_age \/ (age > max_fails /\ fails >= max_fails)

handle_failed_sidechain_proposals(db, height) ==
  [type |-> "FailedProposals",
   failed |-> Restrict(db.proposal_id_to_sidechain,
                       {id \in DOMAIN db.proposal_id_to_sidechain :
                          ProposalFailed(db, height, id)})]

-----------------------------------------------------------------------------
(***************************************************************************)
(* M3 and M4: withdrawal bundles.                                          *)
(***************************************************************************)
M3Rejected(db, slot, m6id) ==
  slot \in DOMAIN db.sidechain => m6id \in PendingIds(db.pending_m6ids[slot])

handle_m3_propose_bundle(slot, m6id) ==
  [type |-> "ProposeBundle", slot |-> slot, m6id |-> m6id]

AbstainTwoBytes == 65535
AlarmTwoBytes == 65534
AbstainOneByte == 255
AlarmOneByte == 254

\* The active slots, in the order in which M4 votes list them.
ActiveSlots(db) == DOMAIN db.sidechain

VoteIndex(db, slot) == Cardinality({s \in ActiveSlots(db) : s <= slot})

\* Mutant of downvoted_others_for_upvote: an upvote lowers nothing.
downvoted_others_for_upvote_None(pending, m6id) == {}

downvoted_others_for_upvote(pending, m6id) ==
  {pending[i].m6id : i \in {j \in DOMAIN pending :
                              pending[j].m6id # m6id /\ pending[j].vote_count > 0}}

positive_votes_proposals_for_alarm(pending) ==
  {pending[i].m6id : i \in {j \in DOMAIN pending : pending[j].vote_count > 0}}

Upvote(pending, m6id) ==
  [kind |-> "Upvote", m6id |-> m6id,
   downvoted_others |-> downvoted_others_for_upvote(pending, m6id)]

Alarm(pending) ==
  [kind |-> "Alarm",
   positive_votes_proposals |-> positive_votes_proposals_for_alarm(pending)]

\* Whether an alarm, or an upvote of the bundle at index i, has any effect.
AlarmCounts(pending) == positive_votes_proposals_for_alarm(pending) # {}

UpvoteCounts(pending, i) == i \in DOMAIN pending /\ pending[i].vote_count < U16Max

\* An explicit vote list: one vote per active slot, each abstaining, alarming
\* or the (zero-based) index of a pending bundle.
M4VotesRejected(db, upvotes) ==
  Len(upvotes) = Cardinality(ActiveSlots(db)) =>
    \E s \in ActiveSlots(db) :
      LET vote == upvotes[VoteIndex(db, s)]
      IN  /\ vote \notin {AbstainTwoBytes, AlarmTwoBytes}
          /\ vote >= Len(db.pending_m6ids[s])

handle_m4_votes(db, upvotes) ==
  LET vote(s) == upvotes[VoteIndex(db, s)]
      pending(s) == db.pending_m6ids[s]
      voted == {s \in ActiveSlots(db) :
                  CASE vote(s) = AbstainTwoBytes -> FALSE
                    [] vote(s) = AlarmTwoBytes -> AlarmCounts(pending(s))
                    [] OTHER -> UpvoteCounts(pending(s), vote(s) + 1)}
  IN  [s \in voted |-> IF vote(s) = AlarmTwoBytes
                       THEN Alarm(pending(s))
                       ELSE Upvote(pending(s), pending(s)[vote(s) + 1].m6id)]

\* The bundle at index i leads every rival, and an absent rival counts zero.
LeadsBy50(pending, i) ==
  /\ pending[i].vote_count >= LeadingBy50Margin
  /\ \A j \in DOMAIN pending \ {i} :
       SatSub(pending[i].vote_count, pending[j].vote_count) >= LeadingBy50Margin

handle_m4_leading_by_50(db) ==
  LET pending(s) == db.pending_m6ids[s]
      leaders(s) == {i \in DOMAIN pending(s) :
                       LeadsBy50(pending(s), i) /\ UpvoteCounts(pending(s), i)}
  IN  [s \in {t \in ActiveSlots(db) : leaders(t) # {}} |->
         Upvote(pending(s), pending(s)[CHOOSE i \in leaders(s) : TRUE].m6id)]

\* The parent's M4 actions, taken against the bundles pending now.
RepeatRejected(db, prev) == ~(DOMAIN prev \subseteq DOMAIN db.pending_m6ids)

handle_m4_repeat_previous(db, prev) ==
  LET pending(s) == db.pending_m6ids[s]
      repeated == {s \in DOMAIN prev \cap DOMAIN db.pending_m6ids :
                     IF prev[s].kind = "Alarm"
                     THEN AlarmCounts(pending(s))
                     ELSE \E i \in IndexesOf(pending(s), prev[s].m6id) :
                            UpvoteCounts(pending(s), i)}
  IN  [s \in repeated |-> IF prev[s].kind = "Alarm"
                          THEN Alarm(pending(s))
                          ELSE Upvote(pending(s), prev[s].m6id)]

\* One-byte votes are widened, two-byte votes must need the second byte.
Widened(upvotes) ==
  [i \in DOMAIN upvotes |-> CASE upvotes[i] = AbstainOneByte -> AbstainTwoBytes
                              [] upvotes[i] = AlarmOneByte -> AlarmTwoBytes
                              [] OTHER -> upvotes[i]]

M4Rejected(db, prev, m4) ==
  CASE m4.version = "LeadingBy50" -> FALSE
    [] m4.version = "RepeatPrevious" -> RepeatRejected(db, prev)
    [] m4.version = "OneByte" -> M4VotesRejected(db, Widened(m4.upvotes))
    [] m4.version = "TwoBytes" ->
         \/ \A i \in DOMAIN m4.upvotes : m4.upvotes[i] <= 253
         \/ M4VotesRejected(db, m4.upvotes)

\* An M4 without effect stores no diff.
handle_m4_ack_bundles(db, prev, m4) ==
  LET actions ==
        CASE m4.version = "LeadingBy50" -> handle_m4_leading_by_50(db)
          [] m4.version = "RepeatPrevious" -> handle_m4_repeat_previous(db, prev)
          [] m4.version = "OneByte" -> handle_m4_votes(db, Widened(m4.upvotes))
          [] m4.version = "TwoBytes" -> handle_m4_votes(db, m4.upvotes)
  IN  IF DOMAIN actions = {} THEN <<>>
      ELSE << [type |-> "AckBundles", actions |-> actions] >>

\* Bundles older than the maximal age, at their indexes.
handle_failed_m6ids(db, height) ==
  LET old(s) == {i \in DOMAIN db.pending_m6ids[s] :
                   SatSub(height, db.pending_m6ids[s][i].proposal_height)
                     > WithdrawalBundleMaxAge}
  IN  [type |-> "FailedM6ids",
       failed |-> [s \in {t \in ActiveSlots(db) : old(t) # {}} |->
                     Restrict(db.pending_m6ids[s], old(s))]]
=============================================================================
