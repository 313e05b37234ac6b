-------------------------- MODULE DbsHistoryProofs --------------------------
(***************************************************************************)
(* What each diff and each message of a block does to the history predicates*)
(* of DbsHistory, and what a transaction does to the treasury outputs.     *)
(***************************************************************************)
EXTENDS DbsHistory, BlockDiffProofs

-----------------------------------------------------------------------------
(***************************************************************************)
(* Lists of pending bundles.                                               *)
(***************************************************************************)

\* The numbers of a bundle in a list.
LEMMA BundleNumbers ==
  ASSUME NEW t \in Seq(Bundle)
  PROVE  /\ DOMAIN t = 1..Len(t) /\ Len(t) \in Nat /\ DOMAIN t \subseteq Nat
         /\ \A i \in DOMAIN t : /\ t[i] \in Bundle
                                /\ t[i].vote_count \in Nat
                                /\ t[i].proposal_height \in Nat
<1>1. DOMAIN t = 1..Len(t) /\ Len(t) \in Nat /\ \A i \in DOMAIN t : t[i] \in Bundle
  OBVIOUS
<1> QED
  BY <1>1 DEF Bundle

\* Rivals within the bound stay within it at a later height.
LEMMA RivalsLater ==
  ASSUME NEW a \in Bundle, NEW b \in Bundle, NEW g \in Int, NEW h \in Int, g <= h,
         RivalsBounded(a, b, g)
  PROVE  RivalsBounded(a, b, h)
<1> DEFINE v == a.vote_count
           w == b.vote_count
           o == a.proposal_height
<1>1. v \in Nat /\ w \in Nat /\ o \in Nat
  BY DEF Bundle
<1>2. 2 * v + w + o <= g + 4 \/ v + 2 * w + o <= g + 4
  BY DEF RivalsBounded
<1> HIDE DEF v, w, o
<1>3. 2 * v + w + o <= h + 4 \/ v + 2 * w + o <= h + 4
  BY <1>1, <1>2
<1> QED
  BY <1>3 DEF RivalsBounded, v, w, o

\* What holds at a height holds at a later one.
LEMMA LaterHeight ==
  ASSUME NEW t \in Seq(Bundle), NEW g \in Int, NEW h \in Int, g <= h
  PROVE  /\ Chronological(t, g) => Chronological(t, h)
         /\ VotesBounded(t, g) => VotesBounded(t, h)
<1>1. DOMAIN t \subseteq Nat /\ \A i \in DOMAIN t : t[i].vote_count \in Nat /\ t[i].proposal_height \in Nat
  BY BundleNumbers
<1>2. Chronological(t, g) => Chronological(t, h)
  BY <1>1 DEF Chronological
<1>3. ASSUME VotesBounded(t, g)
      PROVE  VotesBounded(t, h)
  <2>1. \A i \in DOMAIN t : t[i].vote_count + t[i].proposal_height <= h + 2
    BY <1>1, <1>3 DEF VotesBounded
  <2>2. ASSUME NEW i \in DOMAIN t, NEW j \in DOMAIN t, i < j
        PROVE  RivalsBounded(t[i], t[j], h)
    <3>1. RivalsBounded(t[i], t[j], g)
      BY <1>3, <2>2 DEF VotesBounded
    <3>2. t[i] \in Bundle /\ t[j] \in Bundle
      OBVIOUS
    <3> QED BY <3>1, <3>2, RivalsLater
  <2> QED BY <2>1, <2>2 DEF VotesBounded
<1> QED
  BY <1>2, <1>3

\* Removing failed or paid bundles keeps the order and the bounds of the rest.
LEMMA RemoveKeepsHistory ==
  ASSUME NEW t \in Seq(Bundle), NEW F, NEW h \in Int
  PROVE  /\ Chronological(t, h) => Chronological(RemoveIndexes(t, F), h)
         /\ VotesBounded(t, h) => VotesBounded(RemoveIndexes(t, F), h)
         /\ NoneTooOld(t, h) => NoneTooOld(RemoveIndexes(t, F), h)
<1> DEFINE keep == DOMAIN t \ F
           s == RemoveIndexes(t, F)
           g == [k \in DOMAIN s |-> Nth(keep, k)]
<1>1. keep \in SUBSET Int /\ IsFiniteSet(keep) /\ Cardinality(keep) \in Nat
  BY KeptIndexes
<1>2. /\ s \in Seq(Bundle) /\ Len(s) = Cardinality(keep)
      /\ \A k \in 1..Len(s) : Nth(keep, k) \in keep /\ s[k] = t[Nth(keep, k)]
  BY RemoveIndexesProperties, Zenon
<1>3. DOMAIN s = 1..Cardinality(keep)
  <2> HIDE DEF s, keep
  <2> QED BY <1>1, <1>2
<1>4. \A k, l \in 1..Cardinality(keep) : k < l => Nth(keep, k) < Nth(keep, l)
  <2> HIDE DEF keep
  <2> QED BY <1>1, NthIncreasing
<1>5. /\ \A k \in DOMAIN s : g[k] \in DOMAIN t /\ s[k] = t[g[k]]
      /\ \A k, l \in DOMAIN s : k < l => g[k] < g[l]
  <2>1. \A k \in DOMAIN s : g[k] = Nth(keep, k)
    OBVIOUS
  <2>2. keep \subseteq DOMAIN t
    OBVIOUS
  <2> HIDE DEF s, keep, g
  <2>3. Len(s) = Cardinality(keep)
    BY <1>2
  <2>4. \A k \in DOMAIN s : g[k] \in DOMAIN t /\ s[k] = t[g[k]]
    BY <1>2, <1>3, <2>1, <2>2, <2>3
  <2>5. \A k, l \in DOMAIN s : k < l => g[k] < g[l]
    BY <1>3, <1>4, <2>1
  <2> QED BY <2>4, <2>5
<1> HIDE DEF s, keep, g
<1>6. Chronological(t, h) => Chronological(s, h)
  BY <1>5 DEF Chronological
<1>7. VotesBounded(t, h) => VotesBounded(s, h)
  BY <1>5 DEF VotesBounded
<1>8. NoneTooOld(t, h) => NoneTooOld(s, h)
  BY <1>5 DEF NoneTooOld
<1> QED
  BY <1>6, <1>7, <1>8 DEF s

\* A bundle proposed at height h + 1 goes to the end of the list, and its one
\* vote keeps the bounds, whether the block has had its M4 (g = h + 1) or not.
LEMMA AppendKeepsHistory ==
  ASSUME NEW t \in Seq(Bundle), NEW h \in Int, NEW g \in {h, h + 1},
         NEW b \in Bundle, b.vote_count = 1, b.proposal_height = h + 1
  PROVE  /\ Chronological(t, h) => Chronological(Append(t, b), h + 1)
         /\ VotesBounded(t, g) => VotesBounded(Append(t, b), g)
<1> DEFINE s == Append(t, b)
           n == Len(t)
<1>1. /\ n \in Nat /\ DOMAIN t = 1..n /\ DOMAIN s = 1..(n + 1)
      /\ \A i \in 1..n : s[i] = t[i]
      /\ s[n + 1] = b
  OBVIOUS
<1>2. \A i \in DOMAIN t : t[i].vote_count \in Nat /\ t[i].proposal_height \in Nat
  BY BundleNumbers
<1> HIDE DEF s, n
<1>3. \A i \in DOMAIN s : i \in DOMAIN t \/ i = n + 1
  BY <1>1
<1>4. \A i, j \in DOMAIN s : i < j => i \in DOMAIN t
  BY <1>1
<1>5. ASSUME Chronological(t, h)
      PROVE  Chronological(s, h + 1)
  <2>1. \A i \in DOMAIN s : s[i].proposal_height <= h + 1
    BY <1>1, <1>2, <1>3, <1>5 DEF Chronological
  <2>2. \A i, j \in DOMAIN s : i < j => s[i].proposal_height < s[j].proposal_height
    BY <1>1, <1>2, <1>3, <1>4, <1>5 DEF Chronological
  <2> QED BY <2>1, <2>2 DEF Chronological
<1>6. ASSUME VotesBounded(t, g)
      PROVE  VotesBounded(s, g)
  <2>1. \A i \in DOMAIN s : s[i].vote_count + s[i].proposal_height <= g + 2
    BY <1>1, <1>2, <1>3, <1>6 DEF VotesBounded
  <2>2. ASSUME NEW i \in DOMAIN s, NEW j \in DOMAIN s, i < j
        PROVE  RivalsBounded(s[i], s[j], g)
    <3>1. CASE j \in DOMAIN t
      BY <1>1, <1>4, <1>6, <2>2, <3>1 DEF VotesBounded
    <3>2. CASE j = n + 1
      <4>1. i \in DOMAIN t /\ s[i] = t[i] /\ s[j].vote_count = 1
        BY <1>1, <1>4, <2>2, <3>2
      <4>2. t[i].vote_count + t[i].proposal_height <= g + 2
        BY <1>6, <4>1 DEF VotesBounded
      <4>3. t[i].vote_count \in Nat /\ t[i].proposal_height \in Nat /\ g \in Int
        BY <1>2, <4>1
      <4>4. s[i].vote_count + 2 * s[j].vote_count + s[i].proposal_height <= g + 4
        BY <4>1, <4>2, <4>3
      <4> QED BY <4>4 DEF RivalsBounded
    <3> QED BY <1>3, <3>1, <3>2
  <2> QED BY <2>1, <2>2 DEF VotesBounded
<1> QED
  BY <1>5, <1>6 DEF s

\* What an M4 does to the votes of a bundle: the upvoted one gains a vote, and
\* every other bundle loses one if it has any.
LEMMA AckedVotes ==
  ASSUME NEW t \in Seq(Bundle), DistinctIds(t), NEW a, ActionFits(t, a),
         NEW i \in DOMAIN t
  PROVE  LET v == t[i].vote_count
             b == Acked(t, a)[i]
         IN  /\ b.proposal_height = t[i].proposal_height
             /\ \/ b.vote_count = SatSub(v, 1)
                \/ a.kind = "Upvote" /\ t[i].m6id = a.m6id /\ b.vote_count = v + 1
<1>1. t[i] \in Bundle /\ t[i].vote_count \in Nat
  BY BundleNumbers
<1>2. t[i].m6id \in PositiveIds(t) <=> t[i].vote_count > 0
  BY PositiveIdsExact
<1>3. Acked(t, a)[i] = [t[i] EXCEPT !.vote_count = AckVotes(t[i], a)]
  BY DEF Acked
<1>4. /\ Acked(t, a)[i].proposal_height = t[i].proposal_height
      /\ Acked(t, a)[i].vote_count = AckVotes(t[i], a)
  BY <1>1, <1>3 DEF Bundle
<1>5. \/ AckVotes(t[i], a) = SatSub(t[i].vote_count, 1)
      \/ a.kind = "Upvote" /\ t[i].m6id = a.m6id /\ AckVotes(t[i], a) = t[i].vote_count + 1
  <2>1. CASE a.kind = "Alarm"
    BY <2>1 DEF AckVotes
  <2>2. CASE a.kind = "Upvote" /\ t[i].m6id = a.m6id
    BY <2>2 DEF AckVotes
  <2>3. CASE a.kind = "Upvote" /\ t[i].m6id # a.m6id
    <3>1. AckVotes(t[i], a) = IF t[i].m6id \in a.downvoted_others
                              THEN SatSub(t[i].vote_count, 1) ELSE t[i].vote_count
      BY <2>3 DEF AckVotes
    <3>2. t[i].m6id \in a.downvoted_others <=> t[i].vote_count > 0
      BY <1>2, <2>3 DEF ActionFits
    <3>3. ~(t[i].vote_count > 0) => SatSub(t[i].vote_count, 1) = t[i].vote_count
      BY <1>1 DEF SatSub
    <3> QED BY <3>1, <3>2, <3>3
  <2> QED BY <2>1, <2>2, <2>3 DEF ActionFits
<1> QED
  BY <1>4, <1>5

\* Two rivals after an M4, which upvotes at most one of them: their bound grows
\* by one.
LEMMA RivalsAcked ==
  ASSUME NEW a \in Bundle, NEW b \in Bundle, NEW x \in Bundle, NEW y \in Bundle,
         NEW h \in Int, RivalsBounded(a, b, h),
         x.proposal_height = a.proposal_height,
         \/ x.vote_count = SatSub(a.vote_count, 1) /\ y.vote_count = SatSub(b.vote_count, 1)
         \/ x.vote_count = a.vote_count + 1 /\ y.vote_count = SatSub(b.vote_count, 1)
         \/ x.vote_count = SatSub(a.vote_count, 1) /\ y.vote_count = b.vote_count + 1
  PROVE  RivalsBounded(x, y, h + 1)
<1> DEFINE v == a.vote_count
           w == b.vote_count
           o == a.proposal_height
           p == x.vote_count
           q == y.vote_count
<1>1. v \in Nat /\ w \in Nat /\ o \in Nat /\ p \in Nat /\ q \in Nat
  BY DEF Bundle
<1>2. 2 * v + w + o <= h + 4 \/ v + 2 * w + o <= h + 4
  BY DEF RivalsBounded
<1>3. \/ p = SatSub(v, 1) /\ q = SatSub(w, 1)
      \/ p = v + 1 /\ q = SatSub(w, 1)
      \/ p = SatSub(v, 1) /\ q = w + 1
  OBVIOUS
<1> HIDE DEF v, w, o, p, q
<1>4. /\ SatSub(v, 1) = IF v = 0 THEN 0 ELSE v - 1
      /\ SatSub(w, 1) = IF w = 0 THEN 0 ELSE w - 1
  BY <1>1 DEF SatSub
<1>5. 2 * p + q + o <= h + 5 \/ p + 2 * q + o <= h + 5
  BY <1>1, <1>2, <1>3, <1>4
<1> QED
  BY <1>5 DEF RivalsBounded, v, w, o, p, q

\* An M4 adds one to the bounds.
LEMMA AckKeepsHistory ==
  ASSUME NEW t \in Seq(Bundle), DistinctIds(t), NEW a, ActionFits(t, a),
         NEW h \in Int
  PROVE  /\ Chronological(t, h) => Chronological(Acked(t, a), h)
         /\ VotesBounded(t, h) => VotesBounded(Acked(t, a), h + 1)
<1> DEFINE s == Acked(t, a)
<1>1. DOMAIN s = DOMAIN t /\ s \in Seq(Bundle)
  BY UnackedUndoesAcked, Zenon DEF Acked
<1>2. \A i \in DOMAIN t :
         /\ s[i].proposal_height = t[i].proposal_height
         /\ \/ s[i].vote_count = SatSub(t[i].vote_count, 1)
            \/ /\ a.kind = "Upvote" /\ t[i].m6id = a.m6id
               /\ s[i].vote_count = t[i].vote_count + 1
  BY AckedVotes
<1> HIDE DEF s
<1>3. \A i \in DOMAIN t : /\ t[i] \in Bundle /\ s[i] \in Bundle
                           /\ t[i].vote_count \in Nat /\ t[i].proposal_height \in Nat
  BY <1>1, BundleNumbers
<1>4. Chronological(t, h) => Chronological(s, h)
  BY <1>1, <1>2 DEF Chronological
<1>5. ASSUME VotesBounded(t, h)
      PROVE  VotesBounded(s, h + 1)
  <2>1. ASSUME NEW i \in DOMAIN s
        PROVE  s[i].vote_count + s[i].proposal_height <= h + 1 + 2
    <3>1. t[i].vote_count + t[i].proposal_height <= h + 2
      BY <1>1, <1>5 DEF VotesBounded
    <3> QED BY <1>1, <1>2, <1>3, <3>1 DEF SatSub
  <2>2. ASSUME NEW i \in DOMAIN s, NEW j \in DOMAIN s, i < j
        PROVE  RivalsBounded(s[i], s[j], h + 1)
    <3>1. RivalsBounded(t[i], t[j], h)
      BY <1>1, <1>5, <2>2 DEF VotesBounded
    <3>2. i # j
      BY <1>1, <2>2, BundleNumbers
    <3>3. t[i].m6id # t[j].m6id
      BY <1>1, <3>2 DEF DistinctIds
    <3>4. \/ /\ s[i].vote_count = SatSub(t[i].vote_count, 1)
             /\ s[j].vote_count = SatSub(t[j].vote_count, 1)
          \/ /\ s[i].vote_count = t[i].vote_count + 1
             /\ s[j].vote_count = SatSub(t[j].vote_count, 1)
          \/ /\ s[i].vote_count = SatSub(t[i].vote_count, 1)
             /\ s[j].vote_count = t[j].vote_count + 1
      BY <1>1, <1>2, <3>3
    <3> QED BY <1>1, <1>2, <1>3, <3>1, <3>4, RivalsAcked
  <2> QED BY <2>1, <2>2 DEF VotesBounded
<1> QED
  BY <1>4, <1>5 DEF s

-----------------------------------------------------------------------------
(***************************************************************************)
(* What each diff writes.                                                  *)
(***************************************************************************)

\* The ctips and the treasury outputs known are the same.
SameTreasury(db, e) ==
  /\ e.ctip = db.ctip
  /\ e.ctip_outpoint_to_value_seq = db.ctip_outpoint_to_value_seq

\* diff::NewSidechainProposal writes one proposal.
LEMMA NewSidechainProposalWrites ==
  ASSUME NEW db, DbsOK(db), NEW d, NEW e, e = ApplyNewSidechainProposal(db, d)
  PROVE  /\ e.proposal_id_to_sidechain
              = Put(db.proposal_id_to_sidechain, d.id, d.sidechain)
         /\ e.sidechain = db.sidechain /\ e.pending_m6ids = db.pending_m6ids
         /\ SameTreasury(db, e)
BY DEF ApplyNewSidechainProposal, DbsOK, SameTreasury

\* diff::FailedProposals deletes proposals.
LEMMA FailedProposalsWrites ==
  ASSUME NEW db, DbsOK(db), NEW d, NEW e, e = ApplyFailedProposals(db, d)
  PROVE  /\ e.proposal_id_to_sidechain
              = Delete(db.proposal_id_to_sidechain, DOMAIN d.failed)
         /\ e.sidechain = db.sidechain /\ e.pending_m6ids = db.pending_m6ids
         /\ SameTreasury(db, e)
BY DEF ApplyFailedProposals, DbsOK, SameTreasury

\* The proposal with one more vote, and as an active sidechain.
AckedProposal(db, d) ==
  [db.proposal_id_to_sidechain[d.id] EXCEPT !.vote_count = @ + 1]

ActivatedProposal(db, d, height) ==
  [AckedProposal(db, d) EXCEPT !.activation_height = height]

\* diff::AckSidechainProposal without activation writes the proposal back with
\* one more vote.
LEMMA AckWrites ==
  ASSUME NEW db, DbsOK(db), NEW d, d.effect = "NoActivation", NEW height, NEW e,
         e = ApplyAckSidechainProposal(db, d, height)
  PROVE  /\ e.proposal_id_to_sidechain
              = Put(db.proposal_id_to_sidechain, d.id, AckedProposal(db, d))
         /\ e.sidechain = db.sidechain
         /\ e.pending_m6ids = db.pending_m6ids
         /\ SameTreasury(db, e)
<1>1. e = [db EXCEPT !.proposal_id_to_sidechain = Put(@, d.id, AckedProposal(db, d))]
  BY DEF ApplyAckSidechainProposal, AckedProposal
<1> QED
  BY <1>1 DEF DbsOK, SameTreasury

\* An active slot has a list of pending bundles, empty at first.
WithList(f, slot) == IF slot \in DOMAIN f THEN f ELSE Put(f, slot, <<>>)

\* diff::AckSidechainProposal with activation moves the proposal into its slot.
LEMMA ActivationWrites ==
  ASSUME NEW db, DbsOK(db), NEW d, d.effect # "NoActivation", NEW height, NEW e,
         e = ApplyAckSidechainProposal(db, d, height)
  PROVE  /\ e.proposal_id_to_sidechain
              = Delete(db.proposal_id_to_sidechain, {d.id})
         /\ e.sidechain = Put(db.sidechain, d.id[1], ActivatedProposal(db, d, height))
         /\ e.pending_m6ids = WithList(db.pending_m6ids, d.id[1])
         /\ SameTreasury(db, e)
<1>1. e = [put_sidechain(db, d.id[1], ActivatedProposal(db, d, height))
             EXCEPT !.proposal_id_to_sidechain = Delete(@, {d.id})]
  BY DEF ApplyAckSidechainProposal, AckedProposal, ActivatedProposal
<1> QED
  BY <1>1 DEF DbsOK, SameTreasury, put_sidechain, WithList

\* diff::ProposeBundle appends a bundle to the list of its slot.
LEMMA ProposeBundleWrites ==
  ASSUME NEW db, DbsOK(db), NEW d, ProposeBundleFits(db, d), NEW height, NEW e,
         e = ApplyProposeBundle(db, d, height)
  PROVE  LET b == [m6id |-> d.m6id, vote_count |-> 1, proposal_height |-> height]
         IN  /\ e.pending_m6ids
                  = Put(db.pending_m6ids, d.slot, Append(db.pending_m6ids[d.slot], b))
             /\ e.proposal_id_to_sidechain = db.proposal_id_to_sidechain
             /\ e.sidechain = db.sidechain
             /\ SameTreasury(db, e)
<1> DEFINE b == [m6id |-> d.m6id, vote_count |-> 1, proposal_height |-> height]
           u == Append(db.pending_m6ids[d.slot], b)
<1>1. e = with_pending_withdrawals(db, d.slot, u)
  BY DEF ApplyProposeBundle, put_pending_m6id, ProposeBundleFits
<1> HIDE DEF u
<1>2. /\ e.pending_m6ids = Put(db.pending_m6ids, d.slot, u)
      /\ e.proposal_id_to_sidechain = db.proposal_id_to_sidechain
      /\ e.sidechain = db.sidechain
      /\ SameTreasury(db, e)
  BY <1>1 DEF with_pending_withdrawals, DbsOK, SameTreasury
<1> QED
  BY <1>2 DEF u

\* diff::AckBundles changes votes in the lists of the slots it names.
LEMMA AckBundlesWrites ==
  ASSUME NEW db, DbsOK(db), NEW d, NEW e, e = ApplyAckBundles(db, d)
  PROVE  /\ e.pending_m6ids
              = [s \in DOMAIN db.pending_m6ids |->
                   IF s \in DOMAIN d.actions
                   THEN Acked(db.pending_m6ids[s], d.actions[s])
                   ELSE db.pending_m6ids[s]]
         /\ e.proposal_id_to_sidechain = db.proposal_id_to_sidechain
         /\ e.sidechain = db.sidechain
         /\ SameTreasury(db, e)
BY DEF ApplyAckBundles, DbsOK, SameTreasury

\* diff::FailedM6ids removes entries from the lists of the slots it names.
LEMMA FailedM6idsWrites ==
  ASSUME NEW db, DbsOK(db), NEW d, NEW e, e = ApplyFailedM6ids(db, d)
  PROVE  /\ e.pending_m6ids
              = [s \in DOMAIN db.pending_m6ids |->
                   IF s \in DOMAIN d.failed
                   THEN RemoveIndexes(db.pending_m6ids[s], DOMAIN d.failed[s])
                   ELSE db.pending_m6ids[s]]
         /\ e.proposal_id_to_sidechain = db.proposal_id_to_sidechain
         /\ e.sidechain = db.sidechain
         /\ SameTreasury(db, e)
BY DEF ApplyFailedM6ids, DbsOK, SameTreasury

\* diff::M6 replaces the ctip of its slot and removes the bundle paid.
LEMMA M6Writes ==
  ASSUME NEW db, DbsOK(db), NEW d, NEW e, e = ApplyM6(db, d)
  PROVE  LET new == [s \in {d.slot} |-> d.new_ctip]
             t == db.pending_m6ids[d.slot]
         IN  /\ e.pending_m6ids
                  = Put(db.pending_m6ids, d.slot, RemoveIndexes(t, IndexesOf(t, d.m6id)))
             /\ e.proposal_id_to_sidechain = db.proposal_id_to_sidechain
             /\ e.sidechain = db.sidechain
             /\ e.ctip = PutAll(db.ctip, new)
             /\ e.ctip_outpoint_to_value_seq
                  = PutAll(db.ctip_outpoint_to_value_seq, NewValueSeqs(db, new))
<1> DEFINE new == [s \in {d.slot} |-> d.new_ctip]
           t == db.pending_m6ids[d.slot]
           rem == RemoveIndexes(t, IndexesOf(t, d.m6id))
           x == put_ctip(db, new)
<1> HIDE DEF new, rem, x
<1>1. /\ x.proposal_id_to_sidechain = db.proposal_id_to_sidechain
      /\ x.sidechain = db.sidechain
      /\ x.pending_m6ids = db.pending_m6ids
      /\ x.ctip = PutAll(db.ctip, new)
      /\ x.ctip_outpoint_to_value_seq
           = PutAll(db.ctip_outpoint_to_value_seq, NewValueSeqs(db, new))
  BY PutCtipFields DEF x
<1>2. e = [x EXCEPT !.pending_m6ids = Put(@, d.slot, rem)]
  BY <1>1 DEF ApplyM6, delete_pending_withdrawal, with_pending_withdrawals, x, new, rem
<1>3. DOMAIN x = DOMAIN db
  BY PutCtipShape, Zenon DEF x, DbsOK
<1>4. e.pending_m6ids = Put(x.pending_m6ids, d.slot, rem)
      /\ e.proposal_id_to_sidechain = x.proposal_id_to_sidechain
      /\ e.sidechain = x.sidechain /\ e.ctip = x.ctip
      /\ e.ctip_outpoint_to_value_seq = x.ctip_outpoint_to_value_seq
  BY <1>2, <1>3 DEF DbsOK
<1> QED
  BY <1>1, <1>4 DEF new, rem

\* A diff that writes no proposal, no sidechain or no pending list keeps what is
\* said about them.
LEMMA HistoryFrame ==
  ASSUME NEW db, NEW e, NEW h
  PROVE  /\ e.proposal_id_to_sidechain = db.proposal_id_to_sidechain =>
              (ProposalsBounded(db, h) => ProposalsBounded(e, h))
         /\ e.sidechain = db.sidechain => (Earned(db, h) => Earned(e, h))
         /\ e.pending_m6ids = db.pending_m6ids =>
              (PendingOK(db, h) => PendingOK(e, h))
BY DEF ProposalsBounded, Earned, PendingOK

\* handle_m1_propose_sidechain: a new proposal has no votes.
LEMMA NewProposalKeepsHistory ==
  ASSUME NEW db, DbsOK(db), NEW h \in Nat, HistoryOK(db, h), NEW d, NEW e,
         d.sidechain.vote_count = 0, d.sidechain.proposal_height = h,
         e = ApplyNewSidechainProposal(db, d)
  PROVE  HistoryOK(e, h)
<1>1. /\ e.proposal_id_to_sidechain
           = Put(db.proposal_id_to_sidechain, d.id, d.sidechain)
      /\ e.sidechain = db.sidechain /\ e.pending_m6ids = db.pending_m6ids
  BY NewSidechainProposalWrites
<1>2. ProposalsBounded(e, h)
  BY <1>1 DEF HistoryOK, ProposalsBounded, Put
<1> QED
  BY <1>1, <1>2, HistoryFrame DEF HistoryOK

\* handle_failed_sidechain_proposals
LEMMA FailedProposalsKeepHistory ==
  ASSUME NEW db, DbsOK(db), NEW h, HistoryOK(db, h), NEW d, NEW e,
         e = ApplyFailedProposals(db, d)
  PROVE  HistoryOK(e, h)
<1>1. /\ e.proposal_id_to_sidechain
           = Delete(db.proposal_id_to_sidechain, DOMAIN d.failed)
      /\ e.sidechain = db.sidechain /\ e.pending_m6ids = db.pending_m6ids
  BY FailedProposalsWrites
<1>2. ProposalsBounded(e, h)
  BY <1>1 DEF HistoryOK, ProposalsBounded, Delete, Restrict
<1> QED
  BY <1>1, <1>2, HistoryFrame DEF HistoryOK

\* Why handle_m2_ack_sidechain may activate a proposal.
MayActivate(db, p, h) ==
  \E slot \in Slot :
    /\ p.vote_count + 1 > ActivationThreshold(db, slot)
    /\ SatSub(h, p.proposal_height) <= ProposalMaxAge(db, slot)

\* handle_m2_ack_sidechain: the proposal was within the bounds of the parent
\* block, so that it has one vote more is within those of this block, and an
\* activation is earned.
LEMMA AckProposalKeepsHistory ==
  ASSUME NEW db, DbsOK(db), NEW h \in Nat, HistoryOK(db, h), NEW d, NEW e,
         d.id \in DOMAIN db.proposal_id_to_sidechain,
         LET p == db.proposal_id_to_sidechain[d.id]
         IN  /\ p.vote_count + p.proposal_height <= h - 1
             /\ d.effect # "NoActivation" => MayActivate(db, p, h),
         e = ApplyAckSidechainProposal(db, d, h)
  PROVE  HistoryOK(e, h)
<1> DEFINE p == db.proposal_id_to_sidechain[d.id]
           acked == AckedProposal(db, d)
           active == ActivatedProposal(db, d, h)
           slot == d.id[1]
<1>1. p \in Sidechain /\ p.vote_count \in Nat /\ p.proposal_height \in Nat
  BY DEF DbsOK, IsMap, Sidechain
<1>2. /\ acked.vote_count = p.vote_count + 1
      /\ acked.proposal_height = p.proposal_height
      /\ active.vote_count = p.vote_count + 1
      /\ active.proposal_height = p.proposal_height /\ active.activation_height = h
  BY <1>1 DEF Sidechain, AckedProposal, ActivatedProposal
<1>a. /\ p.vote_count + p.proposal_height <= h - 1
      /\ d.effect # "NoActivation" => MayActivate(db, p, h)
  OBVIOUS
<1> HIDE DEF acked, active, slot, p
<1>3. CASE d.effect = "NoActivation"
  <2>1. /\ e.proposal_id_to_sidechain
             = Put(db.proposal_id_to_sidechain, d.id, acked)
        /\ e.sidechain = db.sidechain /\ e.pending_m6ids = db.pending_m6ids
    BY <1>3, AckWrites DEF acked
  <2>2. acked.vote_count + acked.proposal_height <= h
    BY <1>1, <1>2, <1>a
  <2>3. ProposalsBounded(e, h)
    BY <2>1, <2>2 DEF HistoryOK, ProposalsBounded, Put
  <2> QED
    BY <2>1, <2>3, HistoryFrame DEF HistoryOK
<1>4. CASE d.effect # "NoActivation"
  <2>1. /\ e.proposal_id_to_sidechain = Delete(db.proposal_id_to_sidechain, {d.id})
        /\ e.sidechain = Put(db.sidechain, slot, active)
        /\ e.pending_m6ids = WithList(db.pending_m6ids, slot)
    BY ONLY DbsOK(db), e = ApplyAckSidechainProposal(db, d, h), <1>4, ActivationWrites,
       ZenonT(60) DEF active, slot
  <2>2. ProposalsBounded(e, h)
    BY <2>1 DEF HistoryOK, ProposalsBounded, Delete, Restrict
  <2>3. LET age == active.activation_height - active.proposal_height
        IN  /\ active.activation_height <= h
            /\ active.vote_count <= age
            /\ \/ /\ active.vote_count > UnusedSlotActivationThreshold
                  /\ age <= UnusedSlotProposalMaxAge
               \/ /\ active.vote_count > WithdrawalBundleInclusionThreshold
                  /\ age <= WithdrawalBundleMaxAge
    <3>1. SatSub(h, p.proposal_height) = h - p.proposal_height
      BY <1>1, <1>a DEF SatSub
    <3>2. \/ /\ p.vote_count + 1 > UnusedSlotActivationThreshold
             /\ h - p.proposal_height <= UnusedSlotProposalMaxAge
          \/ /\ p.vote_count + 1 > WithdrawalBundleInclusionThreshold
             /\ h - p.proposal_height <= WithdrawalBundleMaxAge
      BY <1>4, <1>a, <3>1 DEF MayActivate, ActivationThreshold, ProposalMaxAge
    <3>3. h <= h /\ p.vote_count + 1 <= h - p.proposal_height
      BY <1>1, <1>a
    <3> QED BY <1>2, <3>2, <3>3
  <2>4. Earned(e, h)
    <3> SUFFICES ASSUME NEW s \in DOMAIN e.sidechain
                 PROVE  LET sc == e.sidechain[s]
                            age == sc.activation_height - sc.proposal_height
                        IN  /\ sc.activation_height <= h
                            /\ sc.vote_count <= age
                            /\ \/ /\ sc.vote_count > UnusedSlotActivationThreshold
                                  /\ age <= UnusedSlotProposalMaxAge
                               \/ /\ sc.vote_count > WithdrawalBundleInclusionThreshold
                                  /\ age <= WithdrawalBundleMaxAge
      BY DEF Earned
    <3>1. CASE s = slot
      <4>1. e.sidechain[s] = active
        BY <2>1, <3>1 DEF Put
      <4> QED BY <2>3, <4>1
    <3>2. CASE s # slot
      <4>1. s \in DOMAIN db.sidechain /\ e.sidechain[s] = db.sidechain[s]
        BY <2>1, <3>2 DEF Put
      <4> QED BY <4>1 DEF HistoryOK, Earned
    <3> QED BY <3>1, <3>2
  <2>5. PendingOK(e, h)
    <3>1. Chronological(<<>>, h) /\ VotesBounded(<<>>, h)
      BY DEF Chronological, VotesBounded
    <3>2. \A s \in DOMAIN e.pending_m6ids :
             \/ s \in DOMAIN db.pending_m6ids /\ e.pending_m6ids[s] = db.pending_m6ids[s]
             \/ e.pending_m6ids[s] = <<>>
      BY <2>1 DEF Put, WithList
    <3> QED BY <3>1, <3>2 DEF PendingOK, HistoryOK
  <2> QED BY <2>2, <2>4, <2>5 DEF HistoryOK
<1> QED
  BY <1>3, <1>4

-----------------------------------------------------------------------------
\* The pending list of a slot.
LEMMA PendingList ==
  ASSUME NEW db, DbsInv(db), NEW s \in DOMAIN db.pending_m6ids
  PROVE  db.pending_m6ids[s] \in Seq(Bundle) /\ DistinctIds(db.pending_m6ids[s])
BY DEF DbsInv, DbsOK, IsMap, LifecycleOK, DistinctIds

\* handle_m3_propose_bundle: the block has proposed no other bundle.
LEMMA ProposeBundleKeepsHistory ==
  ASSUME NEW db, DbsInv(db), NEW h \in Nat, HistoryOK(db, h), NEW d,
         ProposeBundleFits(db, d), Chronological(db.pending_m6ids[d.slot], h - 1),
         NEW e, e = ApplyProposeBundle(db, d, h)
  PROVE  /\ HistoryOK(e, h)
         /\ (\A s \in DOMAIN db.pending_m6ids : VotesBounded(db.pending_m6ids[s], h - 1))
              => \A s \in DOMAIN e.pending_m6ids : VotesBounded(e.pending_m6ids[s], h - 1)
<1> DEFINE b == [m6id |-> d.m6id, vote_count |-> 1, proposal_height |-> h]
           t == db.pending_m6ids[d.slot]
           u == Append(t, b)
<1>1. b \in Bundle /\ b.vote_count = 1 /\ b.proposal_height = h
  BY DEF Bundle, ProposeBundleFits
<1>2. d.slot \in DOMAIN db.pending_m6ids /\ t \in Seq(Bundle)
  BY PendingList DEF ProposeBundleFits
<1>3. /\ e.pending_m6ids = Put(db.pending_m6ids, d.slot, u)
      /\ e.proposal_id_to_sidechain = db.proposal_id_to_sidechain
      /\ e.sidechain = db.sidechain
  BY ProposeBundleWrites DEF DbsInv
<1> DEFINE g == h - 1
<1>4. g \in Int /\ h = g + 1 /\ Chronological(t, g)
  OBVIOUS
<1>5. Chronological(t, h) /\ VotesBounded(t, h)
  BY <1>2 DEF HistoryOK, PendingOK
<1> HIDE DEF b, t, g
<1>6. /\ Chronological(u, g + 1)
      /\ VotesBounded(t, g + 1) => VotesBounded(u, g + 1)
      /\ VotesBounded(t, g) => VotesBounded(u, g)
  <2>1. g \in {g, g + 1} /\ g + 1 \in {g, g + 1}
    OBVIOUS
  <2>2. b.proposal_height = g + 1
    BY <1>1, <1>4
  <2> QED BY <1>1, <1>2, <1>4, <2>1, <2>2, AppendKeepsHistory
<1>7. Chronological(u, h) /\ VotesBounded(u, h)
  BY <1>4, <1>5, <1>6
<1> HIDE DEF u
<1>8. \A s \in DOMAIN e.pending_m6ids :
         \/ s \in DOMAIN db.pending_m6ids /\ e.pending_m6ids[s] = db.pending_m6ids[s]
         \/ e.pending_m6ids[s] = u
  BY <1>3 DEF Put
<1>9. PendingOK(e, h)
  BY <1>7, <1>8 DEF PendingOK, HistoryOK
<1>10. ASSUME \A s \in DOMAIN db.pending_m6ids : VotesBounded(db.pending_m6ids[s], g)
       PROVE  \A s \in DOMAIN e.pending_m6ids : VotesBounded(e.pending_m6ids[s], g)
  <2>1. VotesBounded(u, g)
    BY <1>2, <1>6, <1>10 DEF t
  <2> QED BY <1>8, <1>10, <2>1
<1>11. HistoryOK(e, h)
  BY <1>3, <1>9, HistoryFrame DEF HistoryOK
<1> QED
  BY <1>10, <1>11 DEF g

\* handle_m4_ack_bundles: the block has had no other M4.
LEMMA AckBundlesKeepsHistory ==
  ASSUME NEW db, DbsInv(db), NEW h \in Nat, HistoryOK(db, h), NEW d,
         AckBundlesFits(db, d),
         \A s \in DOMAIN db.pending_m6ids : VotesBounded(db.pending_m6ids[s], h - 1),
         NEW e, e = ApplyAckBundles(db, d)
  PROVE  /\ HistoryOK(e, h)
         /\ DOMAIN e.pending_m6ids = DOMAIN db.pending_m6ids
         /\ \A s \in DOMAIN e.pending_m6ids :
              Chronological(db.pending_m6ids[s], h - 1)
                => Chronological(e.pending_m6ids[s], h - 1)
<1> DEFINE g == h - 1
<1>1. g \in Int /\ h = g + 1 /\ h \in Int /\ g <= h
  OBVIOUS
<1>2. /\ e.pending_m6ids
           = [s \in DOMAIN db.pending_m6ids |->
                IF s \in DOMAIN d.actions
                THEN Acked(db.pending_m6ids[s], d.actions[s])
                ELSE db.pending_m6ids[s]]
      /\ e.proposal_id_to_sidechain = db.proposal_id_to_sidechain
      /\ e.sidechain = db.sidechain
  BY AckBundlesWrites DEF DbsInv
<1>3. \A s \in DOMAIN d.actions : s \in DOMAIN db.pending_m6ids
                                  /\ ActionFits(db.pending_m6ids[s], d.actions[s])
  BY DEF AckBundlesFits, ActionFits
<1>4. \A s \in DOMAIN db.pending_m6ids : VotesBounded(db.pending_m6ids[s], g)
  OBVIOUS
<1> HIDE DEF g
<1>5. ASSUME NEW s \in DOMAIN db.pending_m6ids
      PROVE  /\ Chronological(e.pending_m6ids[s], h)
             /\ VotesBounded(e.pending_m6ids[s], h)
             /\ Chronological(db.pending_m6ids[s], g) => Chronological(e.pending_m6ids[s], g)
  <2> DEFINE t == db.pending_m6ids[s]
  <2>1. t \in Seq(Bundle) /\ DistinctIds(t) /\ VotesBounded(t, g) /\ Chronological(t, h)
    BY <1>4, PendingList DEF HistoryOK, PendingOK
  <2>2. CASE s \in DOMAIN d.actions
    <3>1. e.pending_m6ids[s] = Acked(t, d.actions[s]) /\ ActionFits(t, d.actions[s])
      BY <1>2, <1>3, <2>2
    <3> HIDE DEF t
    <3>2. /\ Chronological(t, h) => Chronological(Acked(t, d.actions[s]), h)
          /\ Chronological(t, g) => Chronological(Acked(t, d.actions[s]), g)
          /\ VotesBounded(t, g) => VotesBounded(Acked(t, d.actions[s]), g + 1)
      BY <1>1, <2>1, <3>1, AckKeepsHistory
    <3> QED BY <1>1, <2>1, <3>1, <3>2 DEF t
  <2>3. CASE s \notin DOMAIN d.actions
    <3>1. e.pending_m6ids[s] = t
      BY <1>2, <2>3
    <3> HIDE DEF t
    <3>2. VotesBounded(t, h)
      BY <1>1, <2>1, LaterHeight
    <3> QED BY <2>1, <3>1, <3>2 DEF t
  <2> QED BY <2>2, <2>3
<1>6. DOMAIN e.pending_m6ids = DOMAIN db.pending_m6ids
  BY <1>2
<1>7. PendingOK(e, h)
  BY <1>5, <1>6 DEF PendingOK
<1>8. HistoryOK(e, h)
  BY <1>2, <1>7, HistoryFrame DEF HistoryOK
<1> QED
  BY <1>5, <1>6, <1>8 DEF g

-----------------------------------------------------------------------------
\* handle_failed_m6ids: the bundles that are too old are gone afterwards.
LEMMA FailedBundlesKeepHistory ==
  ASSUME NEW db, DbsInv(db), NEW h \in Nat, HistoryOK(db, h),
         NEW e, e = ApplyFailedM6ids(db, handle_failed_m6ids(db, h))
  PROVE  HistoryOK(e, h) /\ FreshOK(e, h)
<1> DEFINE d == handle_failed_m6ids(db, h)
           old(s) == {i \in DOMAIN db.pending_m6ids[s] :
                        SatSub(h, db.pending_m6ids[s][i].proposal_height)
                          > WithdrawalBundleMaxAge}
<1>1. /\ e.pending_m6ids
           = [s \in DOMAIN db.pending_m6ids |->
                IF s \in DOMAIN d.failed
                THEN RemoveIndexes(db.pending_m6ids[s], DOMAIN d.failed[s])
                ELSE db.pending_m6ids[s]]
      /\ e.proposal_id_to_sidechain = db.proposal_id_to_sidechain
      /\ e.sidechain = db.sidechain
  BY FailedM6idsWrites DEF DbsInv
<1>2. /\ \A s \in DOMAIN d.failed : DOMAIN d.failed[s] = old(s)
      /\ \A s \in DOMAIN db.pending_m6ids : s \notin DOMAIN d.failed => old(s) = {}
  <2>1. d.failed = [s \in {t \in ActiveSlots(db) : old(t) # {}} |->
                      Restrict(db.pending_m6ids[s], old(s))]
    BY DEF handle_failed_m6ids
  <2>2. ActiveSlots(db) = DOMAIN db.pending_m6ids
    BY DEF ActiveSlots, DbsInv, LifecycleOK
  <2> HIDE DEF d
  <2>3. \A s \in DOMAIN d.failed : d.failed[s] = Restrict(db.pending_m6ids[s], old(s))
    BY <2>1
  <2>4. \A s : DOMAIN Restrict(db.pending_m6ids[s], old(s)) = old(s)
    BY DEF Restrict
  <2> HIDE DEF old
  <2>5. DOMAIN d.failed = {t \in ActiveSlots(db) : old(t) # {}}
    BY <2>1
  <2> QED BY <2>2, <2>3, <2>4, <2>5
<1> HIDE DEF d
<1>3. ASSUME NEW s \in DOMAIN db.pending_m6ids
      PROVE  /\ Chronological(e.pending_m6ids[s], h)
             /\ VotesBounded(e.pending_m6ids[s], h)
             /\ NoneTooOld(e.pending_m6ids[s], h)
  <2> DEFINE t == db.pending_m6ids[s]
  <2>1. t \in Seq(Bundle) /\ VotesBounded(t, h) /\ Chronological(t, h)
    BY PendingList DEF HistoryOK, PendingOK
  <2>2. \A i \in DOMAIN t : t[i].proposal_height \in Nat /\ t[i].proposal_height <= h
    BY <2>1, BundleNumbers DEF Chronological
  <2>3. \A i \in DOMAIN t : i \notin old(s) =>
           h - t[i].proposal_height <= WithdrawalBundleMaxAge
    <3>1. WithdrawalBundleMaxAge \in Nat
      BY ThresholdsAssumption
    <3> QED BY <2>2, <3>1 DEF SatSub
  <2> DEFINE F == old(s)
  <2>4. CASE s \in DOMAIN d.failed
    <3>1. e.pending_m6ids[s] = RemoveIndexes(t, F)
      BY <1>1, <1>2, <2>4, Zenon
    <3> HIDE DEF t, F
    <3>2. /\ Chronological(RemoveIndexes(t, F), h)
          /\ VotesBounded(RemoveIndexes(t, F), h)
      BY <2>1, RemoveKeepsHistory
    <3>3. \A k \in 1..Len(RemoveIndexes(t, F)) :
             /\ Nth(DOMAIN t \ F, k) \in DOMAIN t \ F
             /\ RemoveIndexes(t, F)[k] = t[Nth(DOMAIN t \ F, k)]
      BY <2>1, RemoveIndexesProperties, Zenon
    <3>4. DOMAIN RemoveIndexes(t, F) = 1..Len(RemoveIndexes(t, F))
      BY <2>1, RemoveIndexesProperties, BundleNumbers
    <3>5. \A i \in DOMAIN t : i \notin F => h - t[i].proposal_height <= WithdrawalBundleMaxAge
      BY <2>3 DEF t, F
    <3>6. NoneTooOld(RemoveIndexes(t, F), h)
      BY <3>3, <3>4, <3>5 DEF NoneTooOld
    <3> QED BY <3>1, <3>2, <3>6
  <2>5. CASE s \notin DOMAIN d.failed
    <3>1. e.pending_m6ids[s] = t /\ old(s) = {}
      BY <1>1, <1>2, <2>5
    <3>2. NoneTooOld(t, h)
      BY <2>3, <3>1 DEF NoneTooOld
    <3> QED BY <2>1, <3>1, <3>2
  <2> QED BY <2>4, <2>5
<1>4. DOMAIN e.pending_m6ids = DOMAIN db.pending_m6ids
  BY <1>1
<1>5. PendingOK(e, h) /\ FreshOK(e, h)
  BY <1>3, <1>4 DEF PendingOK, FreshOK
<1> QED
  BY <1>1, <1>5, HistoryFrame DEF HistoryOK

\* A deposit changes nothing but the treasury.
LEMMA M5KeepsHistory ==
  ASSUME NEW db, DbsOK(db), NEW h, NEW d, NEW e, e = ApplyM5(db, d)
  PROVE  /\ HistoryOK(db, h) => HistoryOK(e, h)
         /\ FreshOK(db, h) => FreshOK(e, h)
<1>1. /\ e.proposal_id_to_sidechain = db.proposal_id_to_sidechain
      /\ e.sidechain = db.sidechain /\ e.pending_m6ids = db.pending_m6ids
  BY PutCtipFields DEF ApplyM5
<1> QED
  BY <1>1, HistoryFrame DEF HistoryOK, FreshOK

\* A withdrawal removes the bundle it pays.
LEMMA M6KeepsHistory ==
  ASSUME NEW db, DbsInv(db), NEW h \in Int, NEW d, d.slot \in DOMAIN db.pending_m6ids,
         NEW e, e = ApplyM6(db, d)
  PROVE  /\ HistoryOK(db, h) => HistoryOK(e, h)
         /\ FreshOK(db, h) => FreshOK(e, h)
<1> DEFINE t == db.pending_m6ids[d.slot]
           F == IndexesOf(t, d.m6id)
           u == RemoveIndexes(t, F)
<1>1. /\ e.proposal_id_to_sidechain = db.proposal_id_to_sidechain
      /\ e.sidechain = db.sidechain
      /\ e.pending_m6ids = Put(db.pending_m6ids, d.slot, u)
  BY M6Writes, Zenon DEF DbsInv
<1>2. t \in Seq(Bundle)
  BY PendingList
<1> HIDE DEF t, F
<1>3. /\ Chronological(t, h) => Chronological(u, h)
      /\ VotesBounded(t, h) => VotesBounded(u, h)
      /\ NoneTooOld(t, h) => NoneTooOld(u, h)
  BY <1>2, RemoveKeepsHistory
<1> HIDE DEF u
<1>4. \A s \in DOMAIN e.pending_m6ids :
         \/ s \in DOMAIN db.pending_m6ids /\ e.pending_m6ids[s] = db.pending_m6ids[s]
         \/ e.pending_m6ids[s] = u
  BY <1>1 DEF Put
<1>5. PendingOK(db, h) => PendingOK(e, h)
  BY <1>3, <1>4 DEF PendingOK, t
<1>6. FreshOK(db, h) => FreshOK(e, h)
  BY <1>3, <1>4 DEF FreshOK, t
<1> QED
  BY <1>1, <1>5, <1>6, HistoryFrame DEF HistoryOK

\* What holds of the databases at a height holds at a later one.
LEMMA LaterHistory ==
  ASSUME NEW db, DbsInv(db), NEW g \in Int, NEW h \in Int, g <= h, HistoryOK(db, g)
  PROVE  HistoryOK(db, h)
<1>1. \A id \in DOMAIN db.proposal_id_to_sidechain :
         /\ db.proposal_id_to_sidechain[id].vote_count \in Nat
         /\ db.proposal_id_to_sidechain[id].proposal_height \in Nat
  BY DEF DbsInv, DbsOK, IsMap, Sidechain
<1>2. \A s \in DOMAIN db.sidechain : db.sidechain[s].activation_height \in Nat
  BY DEF DbsInv, DbsOK, IsMap, Sidechain
<1>3. ProposalsBounded(db, h)
  BY <1>1 DEF HistoryOK, ProposalsBounded
<1>4. Earned(db, h)
  <2>1. \A s \in DOMAIN db.sidechain : db.sidechain[s].activation_height <= h
    BY <1>2 DEF HistoryOK, Earned
  <2> QED BY <2>1 DEF HistoryOK, Earned
<1>5. PendingOK(db, h)
  BY PendingList, LaterHeight DEF HistoryOK, PendingOK
<1> QED
  BY <1>3, <1>4, <1>5 DEF HistoryOK

-----------------------------------------------------------------------------
(***************************************************************************)
(* The coinbase messages.                                                  *)
(***************************************************************************)

\* The block at height h, when the messages in `seen` were handled.
BlockOK(db, seen, h) ==
  HistoryOK(db, h) /\ OpenProposals(db, seen, h) /\ OpenBundles(db, seen, h)

\* The diffs of bundles leave the proposals, the slots and the treasury alone.
LEMMA BundleDiffsFrame ==
  ASSUME NEW db, DbsOK(db), NEW d, NEW height, NEW e,
         \/ ProposeBundleFits(db, d) /\ e = ApplyProposeBundle(db, d, height)
         \/ e = ApplyAckBundles(db, d)
         \/ e = ApplyFailedM6ids(db, d)
  PROVE  /\ e.proposal_id_to_sidechain = db.proposal_id_to_sidechain
         /\ e.sidechain = db.sidechain
         /\ SameTreasury(db, e)
<1>1. CASE ProposeBundleFits(db, d) /\ e = ApplyProposeBundle(db, d, height)
  <2> DEFINE b == [m6id |-> d.m6id, vote_count |-> 1, proposal_height |-> height]
             u == Append(db.pending_m6ids[d.slot], b)
  <2>1. e = with_pending_withdrawals(db, d.slot, u)
    BY <1>1 DEF ApplyProposeBundle, put_pending_m6id, ProposeBundleFits
  <2> HIDE DEF u
  <2> QED BY <2>1 DEF with_pending_withdrawals, DbsOK, SameTreasury
<1>2. CASE e = ApplyAckBundles(db, d)
  BY <1>2 DEF ApplyAckBundles, DbsOK, SameTreasury
<1>3. CASE e = ApplyFailedM6ids(db, d)
  BY <1>3 DEF ApplyFailedM6ids, DbsOK, SameTreasury
<1> QED
  BY <1>1, <1>2, <1>3

\* A message that changes nothing.
LEMMA SeenKeepsOpen ==
  ASSUME NEW db, NEW e, NEW seen, NEW more, seen \subseteq more, NEW h
  PROVE  /\ e.proposal_id_to_sidechain = db.proposal_id_to_sidechain =>
              (OpenProposals(db, seen, h) => OpenProposals(e, more, h))
         /\ e.pending_m6ids = db.pending_m6ids =>
              (OpenBundles(db, seen, h) => OpenBundles(e, more, h))
BY DEF OpenProposals, OpenBundles

\* handle_m1_propose_sidechain: a new proposal has no votes.
LEMMA M1KeepsBlockOK ==
  ASSUME NEW db, DbsInv(db), NEW h \in Nat, NEW seen, NEW more, seen \subseteq more,
         BlockOK(db, seen, h), NEW slot \in Slot, NEW desc \in Description, NEW e,
         e = AppliedAny(db, handle_m1_propose_sidechain(db, h, slot, desc), h)
  PROVE  BlockOK(e, more, h)
<1> DEFINE p == [desc |-> desc, vote_count |-> 0, proposal_height |-> h,
                 activation_height |-> 0]
           d == [type |-> "NewSidechainProposal", id |-> <<slot, desc>>, sidechain |-> p]
<1>1. CASE <<slot, desc>> \in DOMAIN db.proposal_id_to_sidechain
  <2>1. e = db
    BY <1>1 DEF AppliedAny, handle_m1_propose_sidechain
  <2> QED BY <2>1, SeenKeepsOpen DEF BlockOK
<1>2. CASE <<slot, desc>> \notin DOMAIN db.proposal_id_to_sidechain
  <2>1. e = ApplyNewSidechainProposal(db, d)
    BY <1>2 DEF AppliedAny, handle_m1_propose_sidechain, Apply
  <2>2. d.sidechain = p /\ p.vote_count = 0 /\ p.proposal_height = h
    OBVIOUS
  <2>3. DbsOK(db) /\ HistoryOK(db, h)
    BY DEF DbsInv, BlockOK
  <2> HIDE DEF p, d
  <2>4. HistoryOK(e, h)
    BY <2>1, <2>2, <2>3, NewProposalKeepsHistory
  <2>5. /\ e.proposal_id_to_sidechain = Put(db.proposal_id_to_sidechain, d.id, p)
        /\ e.pending_m6ids = db.pending_m6ids
    BY <2>1, <2>2, <2>3, NewSidechainProposalWrites
  <2>6. OpenProposals(e, more, h)
    BY <2>2, <2>5 DEF BlockOK, OpenProposals, Put
  <2> QED
    BY <2>4, <2>5, <2>6, SeenKeepsOpen DEF BlockOK
<1> QED
  BY <1>1, <1>2

\* handle_m2_ack_sidechain: only one ack per slot and block counts, and none
\* in the block of the proposal.
LEMMA M2KeepsBlockOK ==
  ASSUME NEW db, DbsInv(db), NEW h \in Nat, NEW seen, NEW more, seen \subseteq more,
         BlockOK(db, seen, h), NEW slot \in Slot, NEW desc \in Description,
         <<"M2", slot>> \notin seen, <<"M2", slot>> \in more, NEW e,
         e = AppliedAny(db, handle_m2_ack_sidechain(db, h, slot, desc), h)
  PROVE  BlockOK(e, more, h)
<1> DEFINE id == <<slot, desc>>
           p == db.proposal_id_to_sidechain[id]
           activates == /\ p.vote_count + 1 > ActivationThreshold(db, slot)
                        /\ SatSub(h, p.proposal_height) <= ProposalMaxAge(db, slot)
           effect == CASE ~activates -> "NoActivation"
                       [] activates /\ SlotIsUsed(db, slot) -> "ReplaceActive"
                       [] activates /\ ~SlotIsUsed(db, slot) -> "SlotActivation"
           replaced == IF activates /\ SlotIsUsed(db, slot)
                       THEN {db.sidechain[slot]} ELSE {}
           d == [type |-> "AckSidechainProposal", id |-> id, effect |-> effect,
                 replaced |-> replaced]
<1>1. CASE id \notin DOMAIN db.proposal_id_to_sidechain \/ p.proposal_height = h
  <2>1. e = db
    BY <1>1 DEF AppliedAny, handle_m2_ack_sidechain
  <2> QED BY <2>1, SeenKeepsOpen DEF BlockOK
<1>2. CASE id \in DOMAIN db.proposal_id_to_sidechain /\ p.proposal_height # h
  <2>1. handle_m2_ack_sidechain(db, h, slot, desc) = <<d>>
    BY <1>2, Zenon DEF handle_m2_ack_sidechain
  <2>2. d.effect # "NoActivation" => activates
    OBVIOUS
  <2>3. d.id = id /\ d.id[1] = slot /\ d.type = "AckSidechainProposal"
    OBVIOUS
  <2> HIDE DEF d
  <2>4. e = ApplyAckSidechainProposal(db, d, h)
    BY <2>1, <2>3 DEF AppliedAny, Apply
  <2>5. p \in Sidechain /\ p.vote_count \in Nat /\ p.proposal_height \in Nat
    BY <1>2 DEF DbsInv, DbsOK, IsMap, Sidechain
  <2>6. p.vote_count + p.proposal_height < h
    BY <1>2, <2>3 DEF BlockOK, OpenProposals
  <2>7. p.vote_count + p.proposal_height <= h - 1
    <3> HIDE DEF p
    <3> QED BY <2>5, <2>6
  <2>8. d.effect # "NoActivation" => MayActivate(db, p, h)
    BY <2>2 DEF MayActivate
  <2>9. DbsOK(db) /\ HistoryOK(db, h)
    BY DEF DbsInv, BlockOK
  <2>10. d.id \in DOMAIN db.proposal_id_to_sidechain
         /\ p = db.proposal_id_to_sidechain[d.id]
    BY <1>2, <2>3
  <2> HIDE DEF id, p
  <2>11. HistoryOK(e, h)
    BY <2>4, <2>7, <2>8, <2>9, <2>10, AckProposalKeepsHistory, ZenonT(30)
  <2>12. CASE d.effect = "NoActivation"
    <3>1. /\ e.proposal_id_to_sidechain
               = Put(db.proposal_id_to_sidechain, d.id, AckedProposal(db, d))
          /\ e.pending_m6ids = db.pending_m6ids
      BY <2>4, <2>9, <2>12, AckWrites
    <3>2. OpenProposals(e, more, h)
      BY <2>3, <3>1 DEF BlockOK, OpenProposals, Put
    <3> QED
      BY <2>11, <3>1, <3>2, SeenKeepsOpen DEF BlockOK
  <2>13. CASE d.effect # "NoActivation"
    <3>1. /\ e.proposal_id_to_sidechain = Delete(db.proposal_id_to_sidechain, {d.id})
          /\ e.pending_m6ids = WithList(db.pending_m6ids, d.id[1])
      BY ONLY <2>4, <2>9, <2>13, ActivationWrites, ZenonT(60)
    <3>2. OpenProposals(e, more, h)
      BY <3>1 DEF BlockOK, OpenProposals, Delete, Restrict
    <3>3. Chronological(<<>>, h - 1) /\ VotesBounded(<<>>, h - 1)
      BY DEF Chronological, VotesBounded
    <3>4. \A s \in DOMAIN e.pending_m6ids :
             \/ s \in DOMAIN db.pending_m6ids /\ e.pending_m6ids[s] = db.pending_m6ids[s]
             \/ e.pending_m6ids[s] = <<>>
      BY <3>1 DEF Put, WithList
    <3>5. OpenBundles(e, more, h)
      BY <3>3, <3>4 DEF BlockOK, OpenBundles
    <3> QED BY <2>11, <3>2, <3>5 DEF BlockOK
  <2> QED BY <2>12, <2>13
<1> QED
  BY <1>1, <1>2

\* handle_m3_propose_bundle: one bundle per block.
LEMMA M3KeepsBlockOK ==
  ASSUME NEW db, DbsInv(db), NEW h \in Nat, NEW seen, NEW more, seen \subseteq more,
         BlockOK(db, seen, h), NEW slot \in Slot, NEW m6id \in M6id,
         ~M3Rejected(db, slot, m6id),
         <<"M3">> \notin seen, <<"M3">> \in more, NEW e,
         e = AppliedAny(db, << handle_m3_propose_bundle(slot, m6id) >>, h)
  PROVE  BlockOK(e, more, h)
<1> DEFINE d == handle_m3_propose_bundle(slot, m6id)
<1>1. d.type = "ProposeBundle"
  BY DEF handle_m3_propose_bundle
<1>2. Fits(db, d)
  BY M3Fits
<1> HIDE DEF d
<1>3. ProposeBundleFits(db, d)
  BY <1>1, <1>2 DEF Fits
<1>4. e = ApplyProposeBundle(db, d, h)
  BY <1>1 DEF AppliedAny, Apply, d
<1>5. d.slot \in DOMAIN db.pending_m6ids
  BY <1>3 DEF ProposeBundleFits
<1>6. Chronological(db.pending_m6ids[d.slot], h - 1)
  BY <1>5 DEF BlockOK, OpenBundles
<1>7. HistoryOK(db, h)
  BY DEF BlockOK
<1>8. /\ HistoryOK(e, h)
      /\ (\A s \in DOMAIN db.pending_m6ids : VotesBounded(db.pending_m6ids[s], h - 1))
           => \A s \in DOMAIN e.pending_m6ids : VotesBounded(e.pending_m6ids[s], h - 1)
  BY <1>3, <1>4, <1>6, <1>7, ProposeBundleKeepsHistory, Zenon
<1>9. OpenBundles(e, more, h)
  BY <1>8 DEF BlockOK, OpenBundles
<1>10. e.proposal_id_to_sidechain = db.proposal_id_to_sidechain
  <2>1. DbsOK(db)
    BY DEF DbsInv
  <2> QED BY <1>3, <1>4, <2>1, BundleDiffsFrame
<1> QED
  BY <1>8, <1>9, <1>10, SeenKeepsOpen DEF BlockOK

\* handle_m4_ack_bundles: one M4 per block.
LEMMA M4KeepsBlockOK ==
  ASSUME NEW db, DbsInv(db), NEW h \in Nat, NEW seen, NEW more, seen \subseteq more,
         BlockOK(db, seen, h), NEW prev, NEW m4,
         m4.version \in {"LeadingBy50", "RepeatPrevious", "OneByte", "TwoBytes"},
         <<"M4">> \notin seen, <<"M4">> \in more, NEW e,
         e = AppliedAny(db, handle_m4_ack_bundles(db, prev, m4), h)
  PROVE  BlockOK(e, more, h)
<1> DEFINE diffs == handle_m4_ack_bundles(db, prev, m4)
           d == diffs[1]
<1>1. CASE diffs = <<>>
  <2>1. e = db
    BY <1>1 DEF AppliedAny
  <2> QED BY <2>1, SeenKeepsOpen DEF BlockOK
<1>2. CASE diffs # <<>>
  <2>1. d.type = "AckBundles"
    BY <1>2 DEF handle_m4_ack_bundles
  <2>2. Fits(db, d)
    BY <1>2, M4Fits DEF AllFit
  <2>3. e = Apply(db, d, h)
    BY <1>2 DEF AppliedAny
  <2> HIDE DEF d
  <2>4. AckBundlesFits(db, d)
    BY <2>1, <2>2 DEF Fits
  <2>5. e = ApplyAckBundles(db, d)
    BY <2>1, <2>3 DEF Apply
  <2>6. \A s \in DOMAIN db.pending_m6ids : VotesBounded(db.pending_m6ids[s], h - 1)
    BY DEF BlockOK, OpenBundles
  <2>7. /\ HistoryOK(e, h)
        /\ DOMAIN e.pending_m6ids = DOMAIN db.pending_m6ids
        /\ \A s \in DOMAIN e.pending_m6ids :
             Chronological(db.pending_m6ids[s], h - 1)
               => Chronological(e.pending_m6ids[s], h - 1)
    BY <2>4, <2>5, <2>6, AckBundlesKeepsHistory DEF BlockOK
  <2>8. OpenBundles(e, more, h)
    BY <2>7 DEF BlockOK, OpenBundles
  <2>9. e.proposal_id_to_sidechain = db.proposal_id_to_sidechain
    <3>1. DbsOK(db)
      BY DEF DbsInv
    <3> QED BY <2>5, <3>1, BundleDiffsFrame
  <2> QED
    BY <2>7, <2>8, <2>9, SeenKeepsOpen DEF BlockOK
<1> QED
  BY <1>1, <1>2

\* handle_transaction: a deposit or a withdrawal.
LEMMA TransactionKeepsHistory ==
  ASSUME NEW db, DbsInv(db), NEW h \in Nat, HistoryOK(db, h), FreshOK(db, h),
         NEW uncons, NEW tx, NEW txid, NEW e,
         AllFit(db, handle_m5_m6(db, uncons, tx, txid)),
         e = AppliedAny(db, handle_m5_m6(db, uncons, tx, txid), h)
  PROVE  HistoryOK(e, h) /\ FreshOK(e, h)
<1> DEFINE diffs == handle_m5_m6(db, uncons, tx, txid)
           d == diffs[1]
<1>1. CASE diffs = <<>>
  BY <1>1 DEF AppliedAny
<1>2. CASE diffs # <<>>
  <2>1. d.type = "M5" \/ d.type = "M6"
    BY <1>2 DEF handle_m5_m6, M5Diff, M6Diff
  <2>2. e = Apply(db, d, h) /\ Fits(db, d)
    BY <1>2 DEF AppliedAny, AllFit
  <2> HIDE DEF d
  <2>3. CASE d.type = "M5"
    <3>1. e = ApplyM5(db, d) /\ DbsOK(db)
      BY <2>2, <2>3 DEF Apply, DbsInv
    <3> QED BY <3>1, M5KeepsHistory
  <2>4. CASE d.type = "M6"
    <3>1. e = ApplyM6(db, d)
      BY <2>2, <2>4 DEF Apply
    <3>2. d.slot \in DOMAIN db.pending_m6ids
      BY <2>2, <2>4 DEF Fits, M6Fits
    <3> QED BY <3>1, <3>2, M6KeepsHistory
  <2> QED BY <2>1, <2>3, <2>4
<1> QED
  BY <1>1, <1>2

-----------------------------------------------------------------------------
(***************************************************************************)
(* What follows from the bounds.                                           *)
(***************************************************************************)

\* While a block is connected no slot loses its list of pending bundles, and
\* an M4 diff names slots that have one.
LEMMA FittingDiffKeepsSlots ==
  ASSUME NEW db, DbsInv(db), NEW d, Fits(db, d), NEW h, NEW e, e = Apply(db, d, h)
  PROVE  /\ DOMAIN db.pending_m6ids \subseteq DOMAIN e.pending_m6ids
         /\ AckedSlots(d) \subseteq DOMAIN db.pending_m6ids
<1>0. DbsOK(db)
  BY DEF DbsInv
<1>1. AckedSlots(d) \subseteq DOMAIN db.pending_m6ids
  BY DEF AckedSlots, Fits, AckBundlesFits
<1>2. CASE d.type = "NewSidechainProposal"
  BY <1>0, <1>1, <1>2, NewSidechainProposalWrites DEF Apply
<1>3. CASE d.type = "AckSidechainProposal"
  <2>1. e = ApplyAckSidechainProposal(db, d, h)
    BY <1>3 DEF Apply
  <2>2. CASE d.effect = "NoActivation"
    BY <1>0, <1>1, <2>1, <2>2, AckWrites
  <2>3. CASE d.effect # "NoActivation"
    <3>1. e.pending_m6ids = WithList(db.pending_m6ids, d.id[1])
      BY ONLY <1>0, <2>1, <2>3, ActivationWrites, ZenonT(60)
    <3> QED BY <1>1, <3>1 DEF WithList, Put
  <2> QED BY <2>2, <2>3
<1>4. CASE d.type = "ProposeBundle"
  <2>1. e = ApplyProposeBundle(db, d, h) /\ ProposeBundleFits(db, d)
    BY <1>4 DEF Apply, Fits
  <2> DEFINE u == Append(db.pending_m6ids[d.slot],
                         [m6id |-> d.m6id, vote_count |-> 1, proposal_height |-> h])
  <2>2. e.pending_m6ids = Put(db.pending_m6ids, d.slot, u)
    BY <1>0, <2>1, ProposeBundleWrites
  <2> HIDE DEF u
  <2> QED BY <1>1, <2>2 DEF Put
<1>5. CASE d.type = "AckBundles"
  <2>1. e = ApplyAckBundles(db, d)
    BY <1>5 DEF Apply
  <2> QED BY <1>0, <1>1, <2>1 DEF ApplyAckBundles, DbsOK
<1>6. CASE d.type = "FailedProposals"
  BY <1>0, <1>1, <1>6, FailedProposalsWrites DEF Apply
<1>7. CASE d.type = "FailedM6ids"
  <2>1. e = ApplyFailedM6ids(db, d)
    BY <1>7 DEF Apply
  <2> QED BY <1>0, <1>1, <2>1 DEF ApplyFailedM6ids, DbsOK
<1>8. CASE d.type = "M5"
  <2>1. e = put_ctip(db, d.new_ctips)
    BY <1>8 DEF Apply, ApplyM5
  <2> QED BY <1>0, <1>1, <2>1, PutCtipFields
<1>9. CASE d.type = "M6"
  <2>1. e = ApplyM6(db, d)
    BY <1>9 DEF Apply
  <2> DEFINE u == RemoveIndexes(db.pending_m6ids[d.slot],
                                IndexesOf(db.pending_m6ids[d.slot], d.m6id))
  <2>2. e.pending_m6ids = Put(db.pending_m6ids, d.slot, u)
    BY <1>0, <2>1, M6Writes, Zenon
  <2> HIDE DEF u
  <2> QED BY <1>1, <2>2 DEF Put
<1> QED
  BY <1>2, <1>3, <1>4, <1>5, <1>6, <1>7, <1>8, <1>9 DEF Fits

\* Two bundles above the threshold together need more blocks than either is
\* kept for.
LEMMA RivalsNotBothPayable ==
  ASSUME NEW a \in Bundle, NEW b \in Bundle, NEW h \in Int, RivalsBounded(a, b, h),
         h - a.proposal_height <= WithdrawalBundleMaxAge,
         3 * WithdrawalBundleInclusionThreshold > WithdrawalBundleMaxAge + 1
  PROVE  \/ a.vote_count <= WithdrawalBundleInclusionThreshold
         \/ b.vote_count <= WithdrawalBundleInclusionThreshold
<1> DEFINE v == a.vote_count
           w == b.vote_count
           p == a.proposal_height
<1>1. v \in Nat /\ w \in Nat /\ p \in Nat
  BY DEF Bundle
<1>2. WithdrawalBundleInclusionThreshold \in Nat /\ WithdrawalBundleMaxAge \in Nat
  BY ThresholdsAssumption
<1>3. 2 * v + w + p <= h + 4 \/ v + 2 * w + p <= h + 4
  BY DEF RivalsBounded
<1>4. h - p <= WithdrawalBundleMaxAge
  OBVIOUS
<1> HIDE DEF v, w, p
<1>5. v <= WithdrawalBundleInclusionThreshold \/ w <= WithdrawalBundleInclusionThreshold
  BY <1>1, <1>2, <1>3, <1>4
<1> QED
  BY <1>5 DEF v, w

\* The arithmetic of handle_failed_sidechain_proposals: with v votes, proposed
\* at p, at height h, maximal age m and threshold t.
LEMMA HopelessNumbers ==
  ASSUME NEW v \in Nat, NEW p \in Nat, NEW h \in Int, v + p <= h,
         NEW m \in Nat, NEW t \in Nat,
         \/ SatSub(h, p) > m
         \/ SatSub(SatSub(h, p), v) >= SatSub(m, t)
  PROVE  m - (h - p) <= 0 \/ v + (m - (h - p)) <= t
<1>1. SatSub(h, p) = h - p
  BY DEF SatSub
<1>2. SatSub(h - p, v) = h - p - v
  BY DEF SatSub
<1>3. CASE h - p > m
  BY <1>3
<1>4. CASE h - p - v >= SatSub(m, t)
  BY <1>4 DEF SatSub
<1> QED
  BY <1>1, <1>2, <1>3, <1>4

\* The same of a proposal.
LEMMA HopelessProposal ==
  ASSUME NEW p \in Sidechain, NEW h \in Int, p.vote_count + p.proposal_height <= h,
         NEW m \in Nat, NEW t \in Nat,
         \/ SatSub(h, p.proposal_height) > m
         \/ SatSub(SatSub(h, p.proposal_height), p.vote_count) >= SatSub(m, t)
  PROVE  LET left == m - (h - p.proposal_height)
         IN  left <= 0 \/ p.vote_count + left <= t
<1> DEFINE v == p.vote_count
           q == p.proposal_height
<1>1. v \in Nat /\ q \in Nat
  BY DEF Sidechain
<1>2. /\ v + q <= h
      /\ \/ SatSub(h, q) > m
         \/ SatSub(SatSub(h, q), v) >= SatSub(m, t)
  OBVIOUS
<1> HIDE DEF v, q
<1>3. m - (h - q) <= 0 \/ v + (m - (h - q)) <= t
  BY <1>1, <1>2, HopelessNumbers
<1> QED
  BY <1>3 DEF v, q

-----------------------------------------------------------------------------
(***************************************************************************)
(* A transaction and the treasury outputs.                                 *)
(***************************************************************************)

\* The slots whose ctip a transaction replaces, the output it makes for a slot,
\* and the ctips it makes.
Replaced(db, tx) == {s \in TxSlots(db, tx) : ReplacesCtip(db, tx, s)}

OutpointFor(db, tx, txid, s) == NewCtip(db, tx, txid, s).outpoint

NewCtips(db, tx, txid) == [s \in Replaced(db, tx) |-> NewCtip(db, tx, txid, s)]

\* The outputs that put_ctip is given.
NewOutpoints(new) == {new[s].outpoint : s \in DOMAIN new}

\* The ctips `new` are put in the place of the old ones, and known.
CtipsPut(db, e, new) ==
  /\ DOMAIN e.ctip = DOMAIN db.ctip \cup DOMAIN new
  /\ \A s \in DOMAIN new : e.ctip[s] = new[s]
  /\ \A s \in DOMAIN db.ctip \ DOMAIN new : e.ctip[s] = db.ctip[s]
  /\ DOMAIN e.ctip_outpoint_to_value_seq
       = DOMAIN db.ctip_outpoint_to_value_seq \cup NewOutpoints(new)

\* put_ctip makes the new outputs the ctips of their slots and remembers them.
LEMMA PutCtipOutputs ==
  ASSUME NEW db, NEW e, NEW new, e.ctip = PutAll(db.ctip, new),
         e.ctip_outpoint_to_value_seq
           = PutAll(db.ctip_outpoint_to_value_seq, NewValueSeqs(db, new))
  PROVE  CtipsPut(db, e, new)
<1>1. DOMAIN NewValueSeqs(db, new) = NewOutpoints(new)
  BY DEF NewValueSeqs, NewOutpoints
<1> QED
  BY <1>1 DEF PutAll, CtipsPut

\* What handle_m5_m6 does to ctip and ctip_outpoint_to_value_seq, whether the
\* transaction deposits, consolidates or withdraws.
LEMMA TransactionCtips ==
  ASSUME NEW db, DbsInv(db), NEW uncons, NEW tx, NEW txid, NEW req,
         ~M5M6Rejected(db, uncons, tx, req), NEW h, NEW e,
         e = AppliedAny(db, handle_m5_m6(db, uncons, tx, txid), h)
  PROVE  CtipsPut(db, e, NewCtips(db, tx, txid))
<1> DEFINE R == Replaced(db, tx)
           new == NewCtips(db, tx, txid)
           diffs == handle_m5_m6(db, uncons, tx, txid)
<1>0. DbsOK(db)
  BY DEF DbsInv
<1>1. CASE TxSlots(db, tx) = {}
  <2>1. diffs = <<>> /\ R = {}
    BY <1>1 DEF handle_m5_m6, Replaced
  <2>2. e = db
    BY <2>1 DEF AppliedAny
  <2>3. DOMAIN new = {} /\ NewOutpoints(new) = {}
    BY <2>1 DEF NewCtips, NewOutpoints
  <2> QED BY <2>2, <2>3 DEF CtipsPut
<1>3. CASE TxSlots(db, tx) # {} /\ \E s \in TxSlots(db, tx) : IsM6(db, uncons, tx, s)
  <2> DEFINE s == CHOOSE s \in TxSlots(db, tx) : IsM6(db, uncons, tx, s)
             d == M6Diff(db, uncons, tx, txid, s)
             one == [t \in {d.slot} |-> d.new_ctip]
  <2>1. s \in TxSlots(db, tx) /\ IsM6(db, uncons, tx, s)
    BY <1>3
  <2>2. diffs = <<d>>
    BY <1>3 DEF handle_m5_m6
  <2> HIDE DEF s
  <2>3. TxSlots(db, tx) = {s} /\ ConsolidatedInputs(db, tx, s) # {}
    BY <2>1 DEF M5M6Rejected, M6Rejected
  <2>4. R = {s}
    BY <2>3 DEF Replaced, ReplacesCtip
  <2>5. d.type = "M6" /\ d.slot = s /\ d.new_ctip = NewCtip(db, tx, txid, s)
    BY DEF M6Diff
  <2>6. one = new
    BY <2>4, <2>5 DEF NewCtips
  <2> HIDE DEF d
  <2>7. e = ApplyM6(db, d)
    BY <2>2, <2>5 DEF AppliedAny, Apply
  <2>8. /\ e.ctip = PutAll(db.ctip, one)
        /\ e.ctip_outpoint_to_value_seq
             = PutAll(db.ctip_outpoint_to_value_seq, NewValueSeqs(db, one))
    BY ONLY <1>0, <2>7, M6Writes DEF one
  <2> HIDE DEF one, new
  <2>9. CtipsPut(db, e, one)
    BY <2>8, PutCtipOutputs
  <2> QED BY <2>6, <2>9 DEF new
<1>4. CASE TxSlots(db, tx) # {} /\ ~\E s \in TxSlots(db, tx) : IsM6(db, uncons, tx, s)
  <2> DEFINE d == M5Diff(db, tx, txid)
  <2>1. diffs = <<d>>
    BY <1>4 DEF handle_m5_m6
  <2>2. d.type = "M5" /\ d.new_ctips = new
    BY DEF M5Diff, Replaced, NewCtips
  <2> HIDE DEF d, new
  <2>3. e = put_ctip(db, new)
    BY <2>1, <2>2 DEF AppliedAny, Apply, ApplyM5
  <2>4. /\ e.ctip = PutAll(db.ctip, new)
        /\ e.ctip_outpoint_to_value_seq
             = PutAll(db.ctip_outpoint_to_value_seq, NewValueSeqs(db, new))
    BY ONLY <1>0, <2>3, PutCtipFields
  <2> QED BY <2>4, PutCtipOutputs DEF new
<1> QED
  BY <1>1, <1>3, <1>4

\* ctip_outpoint_to_value_seq knows every ctip, under its slot.
LEMMA CtipIsKnown ==
  ASSUME NEW db, DbsInv(db), NEW s \in DOMAIN db.ctip
  PROVE  /\ s \in Slot
         /\ db.ctip[s].outpoint \in DOMAIN db.ctip_outpoint_to_value_seq
         /\ db.ctip_outpoint_to_value_seq[db.ctip[s].outpoint].slot = s
<1> DEFINE n == db.treasury_utxo_count[s]
           k == <<s, n - 1>>
<1>1. /\ DOMAIN db.ctip = {t \in Slot : db.treasury_utxo_count[t] > 0}
      /\ db.ctip[s] = LastTreasuryUtxo(db, s)
  BY DEF DbsInv, TreasuryOK
<1>2. s \in Slot /\ n \in Nat /\ n > 0
  BY <1>1 DEF DbsInv, DbsOK
<1>3. n - 1 \in 0..(n - 1)
  <2> HIDE DEF n
  <2> QED BY <1>2
<1>4. k \in TreasuryKeys(db)
  BY <1>2, <1>3 DEF TreasuryKeys
<1>5. db.ctip[s].outpoint = db.slot_sequence_to_treasury_utxo[k].outpoint
  BY <1>1 DEF LastTreasuryUtxo
<1>6. k[1] = s
  OBVIOUS
<1> HIDE DEF k
<1> DEFINE o == db.slot_sequence_to_treasury_utxo[k].outpoint
<1>7. o \in DOMAIN db.ctip_outpoint_to_value_seq
  BY <1>4 DEF DbsInv, TreasuryOK
<1>8. db.ctip_outpoint_to_value_seq[o].slot = k[1]
  <2>1. db.ctip_outpoint_to_value_seq[o]
          = [slot |-> k[1], value |-> db.slot_sequence_to_treasury_utxo[k].total_value,
             seq |-> k[2]]
    BY <1>4, Zenon DEF DbsInv, TreasuryOK
  <2> QED BY <2>1
<1> QED
  BY <1>2, <1>5, <1>6, <1>7, <1>8

\* fill_ctips: the transaction spends a ctip if and only if it replaces it.
LEMMA SpentCtips ==
  ASSUME NEW db, DbsInv(db), NEW uncons, NEW tx, ~FillCtipsRejected(db, uncons, tx),
         tx.ins \subseteq Ctips(db) \cup DOMAIN uncons,
         DOMAIN uncons \cap DOMAIN db.ctip_outpoint_to_value_seq = {},
         NEW s \in DOMAIN db.ctip
  PROVE  db.ctip[s].outpoint \in tx.ins <=> s \in Replaced(db, tx)
<1> DEFINE V == db.ctip_outpoint_to_value_seq
<1>1. \A t \in DOMAIN db.ctip : /\ t \in Slot /\ db.ctip[t].outpoint \in DOMAIN V
                               /\ V[db.ctip[t].outpoint].slot = t
  BY CtipIsKnown
<1>2. ASSUME db.ctip[s].outpoint \in tx.ins
      PROVE  s \in Replaced(db, tx)
  <2>1. ConsolidatedInputs(db, tx, s) # {}
    BY <1>1, <1>2 DEF ConsolidatedInputs
  <2>2. TreasuryOutputs(db, tx, s) # {}
    BY <1>1, <2>1 DEF FillCtipsRejected
  <2> QED BY <1>1, <2>1, <2>2 DEF Replaced, TxSlots, ReplacesCtip
<1>3. ASSUME s \in Replaced(db, tx)
      PROVE  db.ctip[s].outpoint \in tx.ins
  <2>1. ConsolidatedInputs(db, tx, s) # {}
    BY <1>3 DEF Replaced, ReplacesCtip
  <2>2. PICK o \in tx.ins \cap DOMAIN V : V[o].slot = s
    BY <2>1 DEF ConsolidatedInputs
  <2>3. PICK t \in DOMAIN db.ctip : o = db.ctip[t].outpoint
    BY <2>2 DEF Ctips
  <2>4. t = s
    BY <1>1, <2>2, <2>3
  <2> QED BY <2>2, <2>3, <2>4
<1> QED
  BY <1>2, <1>3

\* The outputs waiting to be consolidated after a transaction: those it does
\* not spend, and its own that do not replace a ctip.
LEMMA WaitingOutputs ==
  ASSUME NEW db, NEW uncons, IsMap(uncons, Outpoint, [slot : Slot, value : Nat]),
         NEW tx, NEW txid,
         DOMAIN uncons \cap DOMAIN db.ctip_outpoint_to_value_seq = {}
  PROVE  DOMAIN UnconsAfter(db, uncons, tx, txid)
           = (DOMAIN uncons \ tx.ins)
             \cup {OutpointFor(db, tx, txid, s) :
                     s \in TxSlots(db, tx) \ Replaced(db, tx)}
<1> DEFINE spent == UNION {UnconsolidatedInputs(db, uncons, tx, s) : s \in Slot}
           waiting == {s \in TxSlots(db, tx) : ~ReplacesCtip(db, tx, s)}
           outs == {NewCtip(db, tx, txid, s).outpoint : s \in waiting}
           W == TxSlots(db, tx) \ Replaced(db, tx)
<1>1. \A o \in DOMAIN uncons : uncons[o].slot \in Slot
  BY DEF IsMap
<1>2. spent = tx.ins \cap DOMAIN uncons
  BY <1>1 DEF UnconsolidatedInputs
<1>3. waiting = W
  BY DEF Replaced
<1>4. outs = {OutpointFor(db, tx, txid, s) : s \in W}
  BY <1>3 DEF OutpointFor
<1>5. DOMAIN UnconsAfter(db, uncons, tx, txid) = (DOMAIN uncons \ spent) \cup outs
  <2> DEFINE slotOf(o) == CHOOSE s \in waiting : NewCtip(db, tx, txid, s).outpoint = o
             g == [o \in outs |-> [slot |-> slotOf(o),
                                   value |-> NewCtip(db, tx, txid, slotOf(o)).value]]
  <2>1. UnconsAfter(db, uncons, tx, txid) = PutAll(Delete(uncons, spent), g)
    BY DEF UnconsAfter
  <2>2. DOMAIN g = outs
    OBVIOUS
  <2> HIDE DEF g, spent, outs
  <2> QED BY <2>1, <2>2 DEF PutAll, Delete, Restrict
<1> HIDE DEF spent, outs, W
<1> QED
  BY <1>2, <1>4, <1>5 DEF W

\* After a transaction the unspent treasury outputs are again the ctips and the
\* outputs waiting, and none of those waiting was ever a ctip.
LEMMA UnspentAfterTransaction ==
  ASSUME NEW db, DbsInv(db), NEW uncons,
         IsMap(uncons, Outpoint, [slot : Slot, value : Nat]),
         NEW tx, tx.outs \in Seq(TxOut), NEW txid, FreshFor(db, txid),
         \A o \in DOMAIN uncons : o[1] # txid,
         ~FillCtipsRejected(db, uncons, tx),
         tx.ins \subseteq Ctips(db) \cup DOMAIN uncons,
         DOMAIN uncons \cap DOMAIN db.ctip_outpoint_to_value_seq = {},
         NEW e, CtipsPut(db, e, NewCtips(db, tx, txid))
  PROVE  /\ ((Ctips(db) \cup DOMAIN uncons) \ tx.ins)
              \cup {OutpointFor(db, tx, txid, s) : s \in TxSlots(db, tx)}
              = Ctips(e) \cup DOMAIN UnconsAfter(db, uncons, tx, txid)
         /\ DOMAIN UnconsAfter(db, uncons, tx, txid)
              \cap DOMAIN e.ctip_outpoint_to_value_seq = {}
<1> DEFINE R == Replaced(db, tx)
           T == TxSlots(db, tx)
           out(s) == OutpointFor(db, tx, txid, s)
           D == DOMAIN uncons
           V == DOMAIN db.ctip_outpoint_to_value_seq
           C == Ctips(db)
           D1 == DOMAIN UnconsAfter(db, uncons, tx, txid)
           V1 == DOMAIN e.ctip_outpoint_to_value_seq
           old == {db.ctip[s].outpoint : s \in DOMAIN db.ctip \ R}
<1>1. R \subseteq T
  BY DEF Replaced
<1>2. D1 = (D \ tx.ins) \cup {out(s) : s \in T \ R}
  BY WaitingOutputs, Zenon
<1>3. /\ DOMAIN e.ctip = DOMAIN db.ctip \cup R
      /\ \A s \in R : e.ctip[s].outpoint = out(s)
      /\ \A s \in DOMAIN db.ctip \ R : e.ctip[s].outpoint = db.ctip[s].outpoint
      /\ V1 = V \cup {out(s) : s \in R}
  <2> DEFINE new == NewCtips(db, tx, txid)
  <2>1. DOMAIN new = R /\ \A s \in R : new[s].outpoint = out(s)
    BY DEF NewCtips, OutpointFor
  <2>2. NewOutpoints(new) = {out(s) : s \in R}
    BY <2>1 DEF NewOutpoints
  <2> HIDE DEF new
  <2> QED BY <2>1, <2>2 DEF CtipsPut, new
<1>4. \A s \in DOMAIN db.ctip : db.ctip[s].outpoint \in tx.ins <=> s \in R
  BY SpentCtips
<1>5. \A s \in DOMAIN db.ctip : db.ctip[s].outpoint \in V
  BY CtipIsKnown
<1>6. \A s \in T : out(s)[1] = txid /\ tx.outs[out(s)[2]].slot = s
  BY ONLY tx.outs \in Seq(TxOut), FreshFor(db, txid), NewCtipType
     DEF FreshFor, OutpointFor, T, out
<1>7. \A o \in D \cup V : o[1] # txid
  BY DEF FreshFor
<1>8. Ctips(e) = old \cup {out(s) : s \in R}
  <2> HIDE DEF R, out
  <2> QED BY <1>3 DEF Ctips
<1>9. C \ tx.ins = old
  <2> HIDE DEF R, out
  <2> QED BY <1>4 DEF Ctips
<1>10. D \cap V = {}
  OBVIOUS
<1> HIDE DEF R, T, out, D, V, C, D1, V1, old
<1>11. {out(s) : s \in T} = {out(s) : s \in R} \cup {out(s) : s \in T \ R}
  BY <1>1
<1>12. ((C \cup D) \ tx.ins) \cup {out(s) : s \in T} = Ctips(e) \cup D1
  BY <1>2, <1>8, <1>9, <1>11
<1>13. D1 \cap V1 = {}
  <2>1. ASSUME NEW s \in T, NEW t \in T, out(s) = out(t)
        PROVE  s = t
    BY <1>6, <2>1
  <2>2. \A s \in T : out(s) \notin D \cup V
    BY <1>6, <1>7
  <2> QED BY <1>1, <1>2, <1>3, <1>10, <2>1, <2>2
<1> QED
  BY <1>12, <1>13 DEF R, T, out, D, V, C, D1, V1

\* Only M5 and M6 move treasury outputs.
LEMMA OtherDiffsKeepTreasury ==
  ASSUME NEW db, DbsOK(db), NEW d, Fits(db, d), NEW h, NEW e, e = Apply(db, d, h),
         d.type # "M5", d.type # "M6"
  PROVE  SameTreasury(db, e)
<1>1. CASE d.type = "NewSidechainProposal"
  BY <1>1, NewSidechainProposalWrites DEF Apply
<1>2. CASE d.type = "AckSidechainProposal"
  <2>1. e = ApplyAckSidechainProposal(db, d, h)
    BY <1>2 DEF Apply
  <2>2. CASE d.effect = "NoActivation"
    BY <2>1, <2>2, AckWrites
  <2>3. CASE d.effect # "NoActivation"
    BY ONLY DbsOK(db), <2>1, <2>3, ActivationWrites, ZenonT(60)
  <2> QED BY <2>2, <2>3
<1>3. CASE d.type = "ProposeBundle"
  <2>1. e = ApplyProposeBundle(db, d, h) /\ ProposeBundleFits(db, d)
    BY <1>3 DEF Apply, Fits
  <2> QED BY <2>1, BundleDiffsFrame
<1>4. CASE d.type = "AckBundles"
  <2>1. e = ApplyAckBundles(db, d)
    BY <1>4 DEF Apply
  <2> QED BY <2>1, BundleDiffsFrame
<1>5. CASE d.type = "FailedProposals"
  BY <1>5, FailedProposalsWrites DEF Apply
<1>6. CASE d.type = "FailedM6ids"
  <2>1. e = ApplyFailedM6ids(db, d)
    BY <1>6 DEF Apply
  <2> QED BY <2>1, BundleDiffsFrame
<1> QED
  BY <1>1, <1>2, <1>3, <1>4, <1>5, <1>6 DEF Fits
=============================================================================
