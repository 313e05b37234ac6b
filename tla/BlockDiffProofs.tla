-------------------------- MODULE BlockDiffProofs ---------------------------
(***************************************************************************)
(* Lemmas about the databases and the diffs of a block.                    *)
(*                                                                         *)
(* First what a put or a delete does to a database, which later write takes*)
(* it back, and how removing bundles from a pending list and putting them  *)
(* back at their indexes cancel out.  Then: every diff that fits the       *)
(* databases keeps them consistent, and undoing it in the databases it leads*)
(* to succeeds and restores the ones before.  Last: the diffs that the     *)
(* handlers return fit the databases they were computed from.              *)
(***************************************************************************)
EXTENDS TransactionHandler, DbsInvariant, FiniteSetTheorems, TLAPS

-----------------------------------------------------------------------------
(***************************************************************************)
(* Contents of one database.                                               *)
(***************************************************************************)

\* A put keeps the key and value types of a database.
LEMMA PutType ==
  ASSUME NEW K, NEW V, NEW f, IsMap(f, K, V), NEW k \in K, NEW v \in V
  PROVE  /\ IsMap(Put(f, k, v), K, V)
         /\ DOMAIN Put(f, k, v) = DOMAIN f \cup {k}
  BY DEF IsMap, Put

\* A delete keeps the key and value types of a database.
LEMMA DeleteType ==
  ASSUME NEW K, NEW V, NEW f, IsMap(f, K, V), NEW D
  PROVE  /\ IsMap(Delete(f, D), K, V)
         /\ DOMAIN Delete(f, D) = DOMAIN f \ D
  BY DEF IsMap, Delete, Restrict

\* Putting many keys keeps the key and value types of a database.
LEMMA PutAllType ==
  ASSUME NEW K, NEW V, NEW f, IsMap(f, K, V), NEW g, IsMap(g, K, V)
  PROVE  /\ IsMap(PutAll(f, g), K, V)
         /\ DOMAIN PutAll(f, g) = DOMAIN f \cup DOMAIN g
  BY DEF IsMap, PutAll

\* Deleting a new key undoes its put.
LEMMA DeleteUndoesPut ==
  ASSUME NEW K, NEW V, NEW f, IsMap(f, K, V), NEW k, NEW v, k \notin DOMAIN f
  PROVE  Delete(Put(f, k, v), {k}) = f
  BY DEF IsMap, Delete, Restrict, Put

\* Putting the old value back undoes an overwrite.
LEMMA PutUndoesPut ==
  ASSUME NEW K, NEW V, NEW f, IsMap(f, K, V), NEW k \in DOMAIN f, NEW v
  PROVE  Put(Put(f, k, v), k, f[k]) = f
  BY DEF IsMap, Put

\* Putting the old value back undoes a delete.
LEMMA PutUndoesDelete ==
  ASSUME NEW K, NEW V, NEW f, IsMap(f, K, V), NEW k \in DOMAIN f
  PROVE  Put(Delete(f, {k}), k, f[k]) = f
  BY DEF IsMap, Put, Delete, Restrict

\* Putting the old values back undoes the delete of many keys.
LEMMA PutAllUndoesDelete ==
  ASSUME NEW K, NEW V, NEW f, IsMap(f, K, V), NEW D \in SUBSET DOMAIN f
  PROVE  PutAll(Delete(f, D), Restrict(f, D)) = f
  BY DEF IsMap, PutAll, Delete, Restrict

\* Deleting new keys undoes their put.
LEMMA DeleteUndoesPutAll ==
  ASSUME NEW K, NEW V, NEW f, IsMap(f, K, V), NEW g,
         DOMAIN f \cap DOMAIN g = {}
  PROVE  Delete(PutAll(f, g), DOMAIN g) = f
  BY DEF IsMap, PutAll, Delete, Restrict

-----------------------------------------------------------------------------
\* The cardinality of an initial interval of the naturals.
LEMMA UpTo ==
  ASSUME NEW n \in Nat
  PROVE  IsFiniteSet(1..n) /\ Cardinality(1..n) = n
<1>1. IsFiniteSet(1..n) /\ Cardinality(1..n) = IF 1 > n THEN 0 ELSE n - 1 + 1
  BY FS_Interval, 1 \in Int, n \in Int
<1> QED
  BY <1>1

\* The cardinalities of disjoint finite sets add up.
LEMMA DisjointUnion ==
  ASSUME NEW S, NEW T, IsFiniteSet(S), IsFiniteSet(T), S \cap T = {}
  PROVE  Cardinality(S \cup T) = Cardinality(S) + Cardinality(T)
<1>1. Cardinality(S \cup T) = Cardinality(S) + Cardinality(T) - Cardinality(S \cap T)
  BY FS_Union
<1>2. Cardinality(S \cap T) = 0
  BY FS_EmptySet
<1>3. Cardinality(S) \in Nat /\ Cardinality(T) \in Nat
  BY FS_CardinalityType
<1> QED
  BY <1>1, <1>2, <1>3

(***************************************************************************)
(* Places in a finite set of integers.  An index is the element of the set *)
(* at its own rank, and every number up to the size of the set is a rank.  *)
(***************************************************************************)
Rank(S, i) == Cardinality({j \in S : j <= i})

\* Ranks are numbers between one and the size of the set.
LEMMA RankType ==
  ASSUME NEW S \in SUBSET Int, IsFiniteSet(S), NEW i \in S
  PROVE  Rank(S, i) \in 1..Cardinality(S)
<1> DEFINE below == {j \in S : j <= i}
<1>1. /\ IsFiniteSet(below) /\ Cardinality(below) <= Cardinality(S)
  BY FS_Subset
<1>2. /\ Cardinality(S) \in Nat /\ Cardinality(below) \in Nat
  BY <1>1, FS_CardinalityType
<1>3. below # {}
  BY i <= i
<1>4. Cardinality(below) # 0
  BY <1>1, <1>3, FS_EmptySet
<1> QED
  BY <1>1, <1>2, <1>4 DEF Rank

\* A later element has a greater rank.
LEMMA RankIncreasing ==
  ASSUME NEW S \in SUBSET Int, IsFiniteSet(S), NEW i \in S, NEW j \in S, i < j
  PROVE  Rank(S, i) < Rank(S, j)
<1> DEFINE A == {x \in S : x <= i}
           B == {x \in S : x <= j}
<1>1. IsFiniteSet(A) /\ IsFiniteSet(B)
  BY FS_Subset
<1>2. A \in SUBSET B
  <2>1. ASSUME NEW x \in S, x <= i PROVE x <= j
    <3>1. x \in Int /\ i \in Int /\ j \in Int
      OBVIOUS
    <3> QED BY <2>1, <3>1
  <2> QED BY <2>1, Zenon
<1>3. A # B
  <2>1. i \in Int /\ j \in Int
    OBVIOUS
  <2>2. j \in B /\ j \notin A
    BY <2>1
  <2> QED BY <2>2
<1>4. Cardinality(A) <= Cardinality(B) /\ Cardinality(A) # Cardinality(B)
  BY <1>1, <1>2, <1>3, FS_Subset
<1>5. Cardinality(A) \in Nat /\ Cardinality(B) \in Nat
  BY <1>1, FS_CardinalityType
<1> QED
  BY <1>4, <1>5 DEF Rank

\* No two elements have the same rank.
LEMMA RankInjective ==
  ASSUME NEW S \in SUBSET Int, IsFiniteSet(S), NEW i \in S, NEW j \in S,
         Rank(S, i) = Rank(S, j)
  PROVE  i = j
<1>1. Rank(S, i) \in Int /\ Rank(S, j) \in Int
  BY RankType, FS_CardinalityType
<1>2. ~(i < j) /\ ~(j < i)
  BY <1>1, RankIncreasing
<1> QED
  BY <1>2

\* The element of a given rank exists, and Nth finds it.
LEMMA NthProperties ==
  ASSUME NEW S \in SUBSET Int, IsFiniteSet(S), NEW k \in 1..Cardinality(S)
  PROVE  Nth(S, k) \in S /\ Rank(S, Nth(S, k)) = k
<1> DEFINE T == 1..Cardinality(S)
           r == [i \in S |-> Rank(S, i)]
<1>1. Cardinality(S) \in Nat
  BY FS_CardinalityType
<1>2. IsFiniteSet(T) /\ Cardinality(T) = Cardinality(S)
  BY <1>1, FS_Interval
<1>3. r \in [S -> T]
  BY RankType
<1>4. \A i, j \in S : r[i] = r[j] => i = j
  BY RankInjective
<1>5. r \in Injection(S, T)
  <2> HIDE DEF r, T
  <2> QED BY <1>3, <1>4 DEF Injection, IsInjective
<1>6. r \in Surjection(S, T)
  <2> HIDE DEF r, T
  <2> QED BY <1>2, <1>5, FS_Injection
<1>7. \E i \in S : r[i] = k
  <2> HIDE DEF r
  <2> QED BY <1>6 DEF Surjection
<1>8. \E i \in S : Cardinality({j \in S : j <= i}) = k
  BY <1>7 DEF Rank
<1> QED
  BY <1>8 DEF Nth, Rank

\* Nth inverts Rank.
LEMMA NthOfRank ==
  ASSUME NEW S \in SUBSET Int, IsFiniteSet(S), NEW i \in S
  PROVE  Nth(S, Rank(S, i)) = i
<1>1. Rank(S, i) \in 1..Cardinality(S)
  BY RankType
<1>2. Nth(S, Rank(S, i)) \in S /\ Rank(S, Nth(S, Rank(S, i))) = Rank(S, i)
  BY <1>1, NthProperties
<1>3. PICK n \in S : n = Nth(S, Rank(S, i)) /\ Rank(S, n) = Rank(S, i)
  BY <1>2, Zenon
<1>4. n = i
  BY <1>3, RankInjective
<1> QED
  BY <1>3, <1>4

\* Nth is strictly increasing.
LEMMA NthIncreasing ==
  ASSUME NEW S \in SUBSET Int, IsFiniteSet(S),
         NEW k \in 1..Cardinality(S), NEW l \in 1..Cardinality(S), k < l
  PROVE  Nth(S, k) < Nth(S, l)
<1>1. /\ Nth(S, k) \in S /\ Rank(S, Nth(S, k)) = k
      /\ Nth(S, l) \in S /\ Rank(S, Nth(S, l)) = l
  BY NthProperties
<1>2. Cardinality(S) \in Nat
  BY FS_CardinalityType
<1>3. CASE Nth(S, l) < Nth(S, k)
  <2>1. l < k
    BY <1>1, <1>3, RankIncreasing, Zenon
  <2> QED BY <2>1, <1>2
<1>4. CASE Nth(S, l) = Nth(S, k)
  BY <1>1, <1>2, <1>4
<1>5. Nth(S, k) \in Int /\ Nth(S, l) \in Int
  BY <1>1, Zenon
<1> QED
  BY <1>3, <1>4, <1>5

-----------------------------------------------------------------------------
(***************************************************************************)
(* Deleting entries of an ordered list by their indexes and inserting them *)
(* back.                                                                   *)
(***************************************************************************)
\* The indexes a removal keeps form a finite set of integers.
LEMMA KeptIndexes ==
  ASSUME NEW t \in Seq(Bundle), NEW F
  PROVE  /\ DOMAIN t \ F \in SUBSET Int
         /\ IsFiniteSet(DOMAIN t \ F)
         /\ Cardinality(DOMAIN t \ F) \in Nat
<1>1. DOMAIN t = 1..Len(t) /\ Len(t) \in Nat
  OBVIOUS
<1>2. IsFiniteSet(1..Len(t))
  BY <1>1, FS_Interval
<1>3. DOMAIN t \ F \in SUBSET (1..Len(t))
  BY <1>1
<1>4. IsFiniteSet(DOMAIN t \ F)
  BY <1>2, <1>3, FS_Subset
<1> QED
  BY <1>3, <1>4, FS_CardinalityType

\* What a removal returns: the kept entries in their order.
LEMMA RemoveIndexesProperties ==
  ASSUME NEW t \in Seq(Bundle), NEW F
  PROVE  /\ RemoveIndexes(t, F) \in Seq(Bundle)
         /\ Len(RemoveIndexes(t, F)) = Cardinality(DOMAIN t \ F)
         /\ \A k \in 1..Len(RemoveIndexes(t, F)) :
               /\ Nth(DOMAIN t \ F, k) \in DOMAIN t \ F
               /\ RemoveIndexes(t, F)[k] = t[Nth(DOMAIN t \ F, k)]
<1> DEFINE keep == DOMAIN t \ F
<1>1. keep \in SUBSET Int /\ IsFiniteSet(keep) /\ Cardinality(keep) \in Nat
  BY KeptIndexes
<1>2. \A k \in 1..Cardinality(keep) : Nth(keep, k) \in keep
  BY <1>1, NthProperties
<1>3. \A i \in keep : t[i] \in Bundle
  OBVIOUS
<1>4. RemoveIndexes(t, F) = [k \in 1..Cardinality(keep) |-> t[Nth(keep, k)]]
  BY DEF RemoveIndexes
<1> HIDE DEF keep
<1>5. RemoveIndexes(t, F) \in [1..Cardinality(keep) -> Bundle]
  BY <1>2, <1>3, <1>4
<1>6. RemoveIndexes(t, F) \in Seq(Bundle) /\ Len(RemoveIndexes(t, F)) = Cardinality(keep)
  BY <1>1, <1>5
<1>7. \A k \in 1..Len(RemoveIndexes(t, F)) :
         Nth(keep, k) \in keep /\ RemoveIndexes(t, F)[k] = t[Nth(keep, k)]
  BY <1>2, <1>4, <1>6, Zenon
<1> QED
  BY <1>6, <1>7, Zenon DEF keep

\* In a list from which F was removed, a kept index i is found as many
\* places earlier as there are removed indexes before it.
LEMMA RankOfKept ==
  ASSUME NEW t \in Seq(Bundle), NEW F \in SUBSET DOMAIN t,
         NEW i \in DOMAIN t \ F
  PROVE  Rank(DOMAIN t \ F, i) = i - Cardinality({j \in F : j < i})
<1> DEFINE kept    == {j \in DOMAIN t \ F : j <= i}
           removed == {j \in F : j < i}
<1>1. DOMAIN t = 1..Len(t) /\ Len(t) \in Nat /\ i \in 1..Len(t)
  OBVIOUS
<1>2. kept \cup removed = 1..i
  BY <1>1
<1>3. kept \cap removed = {}
  OBVIOUS
<1>4. IsFiniteSet(1..i) /\ Cardinality(1..i) = i
  BY <1>1, UpTo
<1>5. IsFiniteSet(kept) /\ IsFiniteSet(removed)
  BY <1>2, <1>4, FS_Subset
<1>6. Cardinality(kept) \in Nat /\ Cardinality(removed) \in Nat
  BY <1>5, FS_CardinalityType
<1> HIDE DEF kept, removed
<1>7. i = Cardinality(kept) + Cardinality(removed)
  BY <1>2, <1>3, <1>4, <1>5, DisjointUnion
<1>8. Cardinality(kept) = i - Cardinality(removed)
  BY <1>1, <1>6, <1>7
<1> QED
  BY <1>8 DEF Rank, kept, removed

\* Inserting removed entries at their indexes restores the list
\* (diff::FailedM6ids and diff::M6 rely on it to undo a removal).
LEMMA InsertUndoesRemove ==
  ASSUME NEW t \in Seq(Bundle), NEW F \in SUBSET DOMAIN t
  PROVE  InsertIndexes(RemoveIndexes(t, F), [i \in F |-> t[i]]) = t
<1> DEFINE keep == DOMAIN t \ F
           s == RemoveIndexes(t, F)
           removed == [i \in F |-> t[i]]
<1>1. DOMAIN t = 1..Len(t) /\ Len(t) \in Nat /\ IsFiniteSet(1..Len(t))
      /\ Cardinality(1..Len(t)) = Len(t)
  <2>1. DOMAIN t = 1..Len(t) /\ Len(t) \in Nat
    OBVIOUS
  <2> QED BY <2>1, UpTo
<1>2. IsFiniteSet(F) /\ IsFiniteSet(keep) /\ keep \in SUBSET Int
  BY <1>1, FS_Subset
<1>3. Cardinality(F) \in Nat /\ Cardinality(keep) \in Nat
  BY <1>2, FS_CardinalityType
<1>4. Cardinality(keep) + Cardinality(F) = Len(t)
  <2>1. keep \cup F = 1..Len(t) /\ keep \cap F = {}
    BY <1>1
  <2> HIDE DEF keep
  <2> QED BY <1>1, <1>2, <2>1, DisjointUnion
<1>5. Len(s) = Cardinality(keep) /\ \A k \in 1..Len(s) : s[k] = t[Nth(keep, k)]
  BY RemoveIndexesProperties, Zenon
<1>6. ASSUME NEW i \in 1..Len(t), i \notin F
      PROVE  s[i - Cardinality({j \in F : j < i})] = t[i]
  <2>1. i \in keep
    BY <1>1, <1>6
  <2>2. Rank(keep, i) = i - Cardinality({j \in F : j < i})
    BY <2>1, RankOfKept
  <2>3. Rank(keep, i) \in 1..Len(s)
    BY <1>2, <1>5, <2>1, RankType
  <2>4. Nth(keep, Rank(keep, i)) = i
    BY <1>2, <2>1, NthOfRank
  <2> QED BY <1>5, <2>2, <2>3, <2>4, Zenon
<1>7. InsertIndexes(s, removed)
        = [i \in 1..Len(t) |-> IF i \in F THEN t[i]
                               ELSE s[i - Cardinality({j \in F : j < i})]]
  <2>1. DOMAIN removed = F /\ \A i \in F : removed[i] = t[i]
    OBVIOUS
  <2>2. Len(s) + Cardinality(F) = Len(t)
    BY <1>4, <1>5
  <2> HIDE DEF s, removed
  <2> QED BY <2>1, <2>2 DEF InsertIndexes
<1>8. InsertIndexes(s, removed) = [i \in 1..Len(t) |-> t[i]]
  <2> HIDE DEF s, removed
  <2> QED BY <1>6, <1>7
<1> QED
  BY <1>1, <1>8

\* Removing the last entry undoes an append (diff::ProposeBundle).
LEMMA RemoveUndoesAppend ==
  ASSUME NEW t \in Seq(Bundle), NEW u \in Seq(Bundle), NEW last,
         Len(u) = Len(t) + 1, last = {Len(t) + 1},
         \A k \in 1..Len(t) : u[k] = t[k]
  PROVE  RemoveIndexes(u, last) = t
<1> DEFINE keep == DOMAIN u \ last
           s == RemoveIndexes(u, last)
<1>1. Len(t) \in Nat /\ keep = 1..Len(t)
  OBVIOUS
<1>2. IsFiniteSet(1..Len(t)) /\ Cardinality(1..Len(t)) = Len(t)
      /\ 1..Len(t) \in SUBSET Int
  BY <1>1, UpTo
<1>3. ASSUME NEW k \in 1..Len(t) PROVE Nth(1..Len(t), k) = k
  <2>1. {j \in 1..Len(t) : j <= k} = 1..k
    BY <1>1
  <2>2. k \in Nat
    BY <1>1
  <2>3. Cardinality(1..k) = k
    BY <2>2, UpTo
  <2>4. Rank(1..Len(t), k) = k
    BY <2>1, <2>3, Zenon DEF Rank
  <2> QED BY <1>2, <2>4, NthOfRank
<1>4. s \in Seq(Bundle) /\ Len(s) = Cardinality(keep)
      /\ \A k \in 1..Len(s) : s[k] = u[Nth(keep, k)]
  BY ONLY u \in Seq(Bundle), RemoveIndexesProperties, Zenon
<1>5. Len(s) = Len(t) /\ \A k \in 1..Len(t) : s[k] = t[k]
  <2> HIDE DEF s, keep
  <2> QED BY <1>1, <1>2, <1>3, <1>4
<1> HIDE DEF s
<1>6. s = t
  <2>1. s \in [1..Len(s) -> Bundle] /\ t \in [1..Len(t) -> Bundle]
    BY <1>4
  <2>2. s = [k \in 1..Len(s) |-> s[k]] /\ t = [k \in 1..Len(t) |-> t[k]]
    BY <2>1
  <2> QED BY <1>5, <2>2
<1> QED
  BY <1>6 DEF s

-----------------------------------------------------------------------------
(***************************************************************************)
(* Changing one part of the databases.                                     *)
(***************************************************************************)

\* TreasuryOK is about the four treasury databases only.
LEMMA TreasuryFrame ==
  ASSUME NEW db, NEW e, TreasuryOK(db),
         e.ctip = db.ctip,
         e.ctip_outpoint_to_value_seq = db.ctip_outpoint_to_value_seq,
         e.slot_sequence_to_treasury_utxo = db.slot_sequence_to_treasury_utxo,
         e.treasury_utxo_count = db.treasury_utxo_count
  PROVE  TreasuryOK(e)
BY DEF TreasuryOK, TreasuryKeys, LastTreasuryUtxo

\* Databases with the same contents are equal.
LEMMA SameDbs ==
  ASSUME NEW db, NEW e, DbsOK(db), DbsOK(e),
         e.proposal_id_to_sidechain = db.proposal_id_to_sidechain,
         e.sidechain = db.sidechain, e.pending_m6ids = db.pending_m6ids,
         e.ctip = db.ctip,
         e.ctip_outpoint_to_value_seq = db.ctip_outpoint_to_value_seq,
         e.slot_sequence_to_treasury_utxo = db.slot_sequence_to_treasury_utxo,
         e.treasury_utxo_count = db.treasury_utxo_count
  PROVE  e = db
BY DEF DbsOK

\* New contents of proposal_id_to_sidechain.
LEMMA ChangeProposals ==
  ASSUME NEW db, DbsInv(db), NEW f, IsMap(f, ProposalId, Sidechain),
         \A id \in DOMAIN f : f[id].activation_height = 0
  PROVE  /\ DbsInv([db EXCEPT !.proposal_id_to_sidechain = f])
         /\ [db EXCEPT !.proposal_id_to_sidechain = f].proposal_id_to_sidechain = f
         /\ [[db EXCEPT !.proposal_id_to_sidechain = f]
               EXCEPT !.proposal_id_to_sidechain = db.proposal_id_to_sidechain] = db
<1> DEFINE e == [db EXCEPT !.proposal_id_to_sidechain = f]
<1>1. DbsOK(e)
  BY DEF DbsInv, DbsOK
<1>2. /\ e.proposal_id_to_sidechain = f
      /\ e.sidechain = db.sidechain /\ e.pending_m6ids = db.pending_m6ids
      /\ e.ctip = db.ctip
      /\ e.ctip_outpoint_to_value_seq = db.ctip_outpoint_to_value_seq
      /\ e.slot_sequence_to_treasury_utxo = db.slot_sequence_to_treasury_utxo
      /\ e.treasury_utxo_count = db.treasury_utxo_count
  BY DEF DbsInv, DbsOK
<1>3. [e EXCEPT !.proposal_id_to_sidechain = db.proposal_id_to_sidechain] = db
  BY Zenon DEF DbsInv, DbsOK
<1> HIDE DEF e
<1>4. LifecycleOK(e)
  BY <1>2 DEF DbsInv, LifecycleOK
<1>5. TreasuryOK(e)
  BY <1>2, TreasuryFrame DEF DbsInv
<1> QED
  BY <1>1, <1>2, <1>3, <1>4, <1>5 DEF DbsInv, e

\* The bundles of a list have different ids.
DistinctIds(t) == \A i, j \in DOMAIN t : t[i].m6id = t[j].m6id => i = j

\* New contents of pending_m6ids.
LEMMA ChangePending ==
  ASSUME NEW db, DbsInv(db), NEW f, IsMap(f, Slot, Seq(Bundle)),
         DOMAIN f = DOMAIN db.pending_m6ids,
         \A s \in DOMAIN f : DistinctIds(f[s])
  PROVE  /\ DbsInv([db EXCEPT !.pending_m6ids = f])
         /\ [db EXCEPT !.pending_m6ids = f].pending_m6ids = f
         /\ [[db EXCEPT !.pending_m6ids = f]
               EXCEPT !.pending_m6ids = db.pending_m6ids] = db
<1> DEFINE e == [db EXCEPT !.pending_m6ids = f]
<1>1. DbsOK(e)
  BY DEF DbsInv, DbsOK
<1>2. /\ e.proposal_id_to_sidechain = db.proposal_id_to_sidechain
      /\ e.sidechain = db.sidechain /\ e.pending_m6ids = f
      /\ e.ctip = db.ctip
      /\ e.ctip_outpoint_to_value_seq = db.ctip_outpoint_to_value_seq
      /\ e.slot_sequence_to_treasury_utxo = db.slot_sequence_to_treasury_utxo
      /\ e.treasury_utxo_count = db.treasury_utxo_count
  BY DEF DbsInv, DbsOK
<1>3. [e EXCEPT !.pending_m6ids = db.pending_m6ids] = db
  BY Zenon DEF DbsInv, DbsOK
<1> HIDE DEF e
<1>4. LifecycleOK(e)
  BY <1>2 DEF DbsInv, LifecycleOK, DistinctIds
<1>5. TreasuryOK(e)
  BY <1>2, TreasuryFrame DEF DbsInv
<1> QED
  BY <1>1, <1>2, <1>3, <1>4, <1>5 DEF DbsInv, e

-----------------------------------------------------------------------------
(***************************************************************************)
(* The diffs about sidechain proposals.                                    *)
(***************************************************************************)

\* diff::NewSidechainProposal
LEMMA NewSidechainProposalUndo ==
  ASSUME NEW db, NEW d, DbsInv(db), NewSidechainProposalFits(db, d)
  PROVE  /\ DbsInv(ApplyNewSidechainProposal(db, d))
         /\ UndoNewSidechainProposal(ApplyNewSidechainProposal(db, d), d) = db
<1> DEFINE f == db.proposal_id_to_sidechain
           g == Put(f, d.id, d.sidechain)
           e == [db EXCEPT !.proposal_id_to_sidechain = g]
<1>1. IsMap(f, ProposalId, Sidechain) /\ d.id \notin DOMAIN f
      /\ d.id \in ProposalId /\ d.sidechain \in Sidechain
      /\ d.sidechain.activation_height = 0
      /\ \A id \in DOMAIN f : f[id].activation_height = 0
  BY DEF DbsInv, DbsOK, LifecycleOK, NewSidechainProposalFits
<1> HIDE DEF f
<1>2. IsMap(g, ProposalId, Sidechain)
  BY <1>1, PutType, Zenon
<1>3. \A id \in DOMAIN g : g[id].activation_height = 0
  BY <1>1 DEF Put
<1>4. Delete(g, {d.id}) = f
  BY <1>1, DeleteUndoesPut
<1> HIDE DEF g
<1>5. DbsInv(e) /\ e.proposal_id_to_sidechain = g
      /\ [e EXCEPT !.proposal_id_to_sidechain = f] = db
  BY <1>2, <1>3, ChangeProposals, Zenon DEF f
<1>6. ApplyNewSidechainProposal(db, d) = e
  BY DEF ApplyNewSidechainProposal, f, g
<1>7. UndoNewSidechainProposal(e, d) = [e EXCEPT !.proposal_id_to_sidechain = f]
  BY <1>4, <1>5, Zenon DEF UndoNewSidechainProposal
<1> QED
  BY <1>5, <1>6, <1>7

\* diff::FailedProposals
LEMMA FailedProposalsUndo ==
  ASSUME NEW db, NEW d, DbsInv(db), FailedProposalsFits(db, d)
  PROVE  /\ DbsInv(ApplyFailedProposals(db, d))
         /\ UndoFailedProposals(ApplyFailedProposals(db, d), d) = db
<1> DEFINE f == db.proposal_id_to_sidechain
           g == Delete(f, DOMAIN d.failed)
           e == [db EXCEPT !.proposal_id_to_sidechain = g]
<1>1. IsMap(f, ProposalId, Sidechain) /\ DOMAIN d.failed \subseteq DOMAIN f
      /\ d.failed = Restrict(f, DOMAIN d.failed)
      /\ \A id \in DOMAIN f : f[id].activation_height = 0
  BY DEF DbsInv, DbsOK, LifecycleOK, FailedProposalsFits
<1> HIDE DEF f
<1>2. IsMap(g, ProposalId, Sidechain)
  BY <1>1, DeleteType, Zenon
<1>3. \A id \in DOMAIN g : g[id].activation_height = 0
  BY <1>1 DEF Delete, Restrict
<1>4. PutAll(g, d.failed) = f
  BY <1>1, PutAllUndoesDelete
<1> HIDE DEF g
<1>5. DbsInv(e) /\ e.proposal_id_to_sidechain = g
      /\ [e EXCEPT !.proposal_id_to_sidechain = f] = db
  BY <1>2, <1>3, ChangeProposals, Zenon DEF f
<1>6. ApplyFailedProposals(db, d) = e
  BY DEF ApplyFailedProposals, f, g
<1>7. UndoFailedProposals(e, d) = [e EXCEPT !.proposal_id_to_sidechain = f]
  BY <1>4, <1>5, Zenon DEF UndoFailedProposals
<1> QED
  BY <1>5, <1>6, <1>7

\* Taking a vote away undoes an ack.
LEMMA UnackUndoesAck ==
  ASSUME NEW sc \in Sidechain, sc.activation_height = 0, NEW height \in Nat
  PROVE  LET acked == [sc EXCEPT !.vote_count = @ + 1]
             active == [acked EXCEPT !.activation_height = height]
         IN  /\ acked \in Sidechain /\ active \in Sidechain
             /\ acked.vote_count # 0 /\ active.vote_count # 0
             /\ acked.activation_height = 0
             /\ [active EXCEPT !.activation_height = 0] = acked
             /\ [acked EXCEPT !.vote_count = @ - 1] = sc
<1> DEFINE acked == [sc EXCEPT !.vote_count = @ + 1]
           active == [acked EXCEPT !.activation_height = height]
<1>1. /\ sc.desc \in Description /\ sc.vote_count \in Nat
      /\ sc.proposal_height \in Nat
      /\ sc = [desc |-> sc.desc, vote_count |-> sc.vote_count,
               proposal_height |-> sc.proposal_height, activation_height |-> 0]
  BY DEF Sidechain
<1>2. acked = [desc |-> sc.desc, vote_count |-> sc.vote_count + 1,
               proposal_height |-> sc.proposal_height, activation_height |-> 0]
  BY <1>1
<1> HIDE DEF acked
<1>3. active = [desc |-> sc.desc, vote_count |-> sc.vote_count + 1,
                proposal_height |-> sc.proposal_height,
                activation_height |-> height]
  BY <1>2
<1>4. /\ sc.vote_count + 1 \in Nat /\ sc.vote_count + 1 # 0
      /\ sc.vote_count + 1 - 1 = sc.vote_count
  BY <1>1
<1> HIDE DEF active
<1>5. acked \in Sidechain /\ active \in Sidechain
  BY <1>1, <1>2, <1>3, <1>4 DEF Sidechain
<1>6. acked.vote_count # 0 /\ active.vote_count # 0 /\ acked.activation_height = 0
  BY <1>2, <1>3, <1>4
<1>7. [active EXCEPT !.activation_height = 0] = acked
  BY <1>2, <1>3
<1>8. [acked EXCEPT !.vote_count = @ - 1] = sc
  BY <1>1, <1>2, <1>4
<1> QED
  BY <1>5, <1>6, <1>7, <1>8 DEF acked, active

\* diff::AckSidechainProposal: a vote, an activation in a free slot, and an
\* activation that replaces the active sidechain.
LEMMA AckSidechainProposalUndo ==
  ASSUME NEW db, NEW d, DbsInv(db), AckSidechainProposalFits(db, d),
         d.type = "AckSidechainProposal", NEW height \in Nat
  PROVE  /\ DbsInv(ApplyAckSidechainProposal(db, d, height))
         /\ ~UndoFails(ApplyAckSidechainProposal(db, d, height), d)
         /\ UndoAckSidechainProposal(ApplyAckSidechainProposal(db, d, height), d) = db
<1> DEFINE f == db.proposal_id_to_sidechain
           a == db.sidechain
           p == db.pending_m6ids
           sc == f[d.id]
           slot == d.id[1]
           acked == [sc EXCEPT !.vote_count = @ + 1]
           active == [acked EXCEPT !.activation_height = height]
           e == ApplyAckSidechainProposal(db, d, height)
<1>1. IsMap(f, ProposalId, Sidechain) /\ IsMap(a, Slot, Sidechain)
      /\ IsMap(p, Slot, Seq(Bundle)) /\ DOMAIN p = DOMAIN a
      /\ (\A s \in DOMAIN p : DistinctIds(p[s]))
      /\ (\A id \in DOMAIN f : f[id].activation_height = 0)
      /\ d.id \in DOMAIN f
  BY DEF DbsInv, DbsOK, LifecycleOK, DistinctIds, AckSidechainProposalFits
<1>2. sc \in Sidechain /\ sc.activation_height = 0 /\ d.id \in ProposalId
      /\ slot \in Slot
  BY <1>1 DEF IsMap, ProposalId
<1>3. /\ acked \in Sidechain /\ active \in Sidechain
      /\ acked.vote_count # 0 /\ active.vote_count # 0
      /\ acked.activation_height = 0
      /\ [active EXCEPT !.activation_height = 0] = acked
      /\ [acked EXCEPT !.vote_count = @ - 1] = sc
  BY <1>2, UnackUndoesAck, Zenon
<1> HIDE DEF f, a, p, acked, active
<1>4. CASE d.effect = "NoActivation"
  <2> DEFINE g == Put(f, d.id, acked)
  <2>1. e = [db EXCEPT !.proposal_id_to_sidechain = g]
    BY <1>4 DEF ApplyAckSidechainProposal, f, acked
  <2>2. IsMap(g, ProposalId, Sidechain) /\ d.id \in DOMAIN g /\ g[d.id] = acked
        /\ Put(g, d.id, sc) = f
    <3>1. IsMap(g, ProposalId, Sidechain)
      BY <1>1, <1>2, <1>3, PutType, Zenon
    <3>2. d.id \in DOMAIN g /\ g[d.id] = acked
      BY DEF Put
    <3>3. Put(g, d.id, sc) = f
      BY <1>1, PutUndoesPut
    <3> QED BY <3>1, <3>2, <3>3
  <2>3. \A id \in DOMAIN g : g[id].activation_height = 0
    BY <1>1, <1>3 DEF Put
  <2> HIDE DEF g
  <2>4. DbsInv(e) /\ e.proposal_id_to_sidechain = g
        /\ [e EXCEPT !.proposal_id_to_sidechain = f] = db
    <3>1. /\ DbsInv([db EXCEPT !.proposal_id_to_sidechain = g])
          /\ [db EXCEPT !.proposal_id_to_sidechain = g].proposal_id_to_sidechain = g
          /\ [[db EXCEPT !.proposal_id_to_sidechain = g]
                EXCEPT !.proposal_id_to_sidechain = f] = db
      BY <2>2, <2>3, ChangeProposals, Zenon DEF f
    <3> HIDE DEF e
    <3> QED BY <2>1, <3>1
  <2> HIDE DEF e
  <2>5. AckedSidechain(e, d) = acked
    BY <1>4, <2>2, <2>4 DEF AckedSidechain
  <2>6. ~UndoFails(e, d)
    BY <1>3, <1>4, <2>2, <2>4, <2>5 DEF UndoFails
  <2>7. UndoAckSidechainProposal(e, d) = [e EXCEPT !.proposal_id_to_sidechain = f]
    BY <1>3, <1>4, <2>2, <2>4, <2>5 DEF UndoAckSidechainProposal, RestoreSlot
  <2> QED BY <2>4, <2>6, <2>7 DEF e
<1>5. CASE d.effect = "SlotActivation" /\ slot \notin DOMAIN a
  <2> DEFINE g == Delete(f, {d.id})
             b == Put(a, slot, active)
             q == Put(p, slot, <<>>)
  <2>1. e = [db EXCEPT !.proposal_id_to_sidechain = g, !.sidechain = b,
                       !.pending_m6ids = q]
    BY <1>1, <1>5, Zenon
    DEF ApplyAckSidechainProposal, put_sidechain, f, a, p, acked, active, DbsInv, DbsOK
  <2>2. IsMap(g, ProposalId, Sidechain)
        /\ (\A id \in DOMAIN g : g[id].activation_height = 0)
        /\ Put(g, d.id, sc) = f
    <3>1. IsMap(g, ProposalId, Sidechain)
      BY <1>1, DeleteType, Zenon
    <3>2. \A id \in DOMAIN g : g[id].activation_height = 0
      BY <1>1 DEF Delete, Restrict
    <3>3. Put(g, d.id, sc) = f
      BY <1>1, PutUndoesDelete
    <3> QED BY <3>1, <3>2, <3>3
  <2>3. IsMap(b, Slot, Sidechain) /\ slot \in DOMAIN b /\ b[slot] = active
        /\ Delete(b, {slot}) = a
    <3>1. IsMap(b, Slot, Sidechain)
      BY <1>1, <1>2, <1>3, PutType, Zenon
    <3>2. slot \in DOMAIN b /\ b[slot] = active
      BY DEF Put
    <3>3. Delete(b, {slot}) = a
      BY <1>1, <1>5, DeleteUndoesPut
    <3> QED BY <3>1, <3>2, <3>3
  <2>4. <<>> \in Seq(Bundle) /\ DistinctIds(<<>>)
    BY DEF DistinctIds
  <2>5. IsMap(q, Slot, Seq(Bundle)) /\ Delete(q, {slot}) = p
    <3>1. IsMap(q, Slot, Seq(Bundle))
      BY <1>1, <1>2, <2>4, PutType, Zenon
    <3>2. Delete(q, {slot}) = p
      BY <1>1, <1>5, DeleteUndoesPut
    <3> QED BY <3>1, <3>2
  <2>6. DOMAIN q = DOMAIN b /\ \A s \in DOMAIN q : DistinctIds(q[s])
    BY <1>1, <2>4 DEF Put
  <2> HIDE DEF e, g, b, q
  <2>7. /\ DbsInv(e)
        /\ e.proposal_id_to_sidechain = g /\ e.sidechain = b /\ e.pending_m6ids = q
        /\ db = [e EXCEPT !.proposal_id_to_sidechain = f, !.sidechain = a,
                          !.pending_m6ids = p]
    <3>1. DbsOK(e)
      BY <2>1, <2>2, <2>3, <2>5, Zenon DEF DbsInv, DbsOK
    <3>2. /\ e.proposal_id_to_sidechain = g /\ e.sidechain = b
          /\ e.pending_m6ids = q /\ e.ctip = db.ctip
          /\ e.ctip_outpoint_to_value_seq = db.ctip_outpoint_to_value_seq
          /\ e.slot_sequence_to_treasury_utxo = db.slot_sequence_to_treasury_utxo
          /\ e.treasury_utxo_count = db.treasury_utxo_count
      BY <2>1 DEF DbsInv, DbsOK
    <3>3. db = [e EXCEPT !.proposal_id_to_sidechain = f, !.sidechain = a,
                         !.pending_m6ids = p]
      BY <2>1, Zenon DEF DbsInv, DbsOK, f, a, p
    <3>4. LifecycleOK(e)
      BY <2>2, <2>6, <3>2 DEF LifecycleOK, DistinctIds
    <3>5. TreasuryOK(e)
      BY <3>2, TreasuryFrame DEF DbsInv
    <3> QED BY <3>1, <3>2, <3>3, <3>4, <3>5 DEF DbsInv
  <2>8. AckedSidechain(e, d) = acked
    BY <1>3, <1>5, <2>3, <2>7 DEF AckedSidechain
  <2>9. ~UndoFails(e, d)
    BY <1>3, <1>5, <2>3, <2>7, <2>8 DEF UndoFails
  <2>10. UndoAckSidechainProposal(e, d)
           = [e EXCEPT !.proposal_id_to_sidechain = f, !.sidechain = a,
                       !.pending_m6ids = p]
    <3> DEFINE r == delete_sidechain(e, slot)
    <3>1. UndoAckSidechainProposal(e, d) = [r EXCEPT !.proposal_id_to_sidechain
                                              = Put(@, d.id, sc)]
      BY <1>3, <1>5, <2>8 DEF UndoAckSidechainProposal, RestoreSlot
    <3>2. r = [e EXCEPT !.sidechain = a, !.pending_m6ids = p]
      BY <2>3, <2>5, <2>7, Zenon DEF delete_sidechain, DbsInv, DbsOK
    <3> HIDE DEF r
    <3> QED BY <2>2, <2>7, <3>1, <3>2, Zenon DEF DbsInv, DbsOK
  <2> QED BY <2>7, <2>9, <2>10 DEF e
<1>6. CASE /\ d.effect = "ReplaceActive" /\ slot \in DOMAIN a
           /\ d.replaced = {a[slot]}
  <2> DEFINE g == Delete(f, {d.id})
             b == Put(a, slot, active)
  <2>1. e = [db EXCEPT !.proposal_id_to_sidechain = g, !.sidechain = b,
                       !.pending_m6ids = p]
    BY <1>1, <1>6, Zenon
    DEF ApplyAckSidechainProposal, put_sidechain, f, a, p, acked, active, DbsInv, DbsOK
  <2>2. IsMap(g, ProposalId, Sidechain)
        /\ (\A id \in DOMAIN g : g[id].activation_height = 0)
        /\ Put(g, d.id, sc) = f
    <3>1. IsMap(g, ProposalId, Sidechain)
      BY <1>1, DeleteType, Zenon
    <3>2. \A id \in DOMAIN g : g[id].activation_height = 0
      BY <1>1 DEF Delete, Restrict
    <3>3. Put(g, d.id, sc) = f
      BY <1>1, PutUndoesDelete
    <3> QED BY <3>1, <3>2, <3>3
  <2>3. IsMap(b, Slot, Sidechain) /\ slot \in DOMAIN b /\ b[slot] = active
        /\ Put(b, slot, a[slot]) = a /\ DOMAIN b = DOMAIN a
    <3>1. IsMap(b, Slot, Sidechain)
      BY <1>1, <1>2, <1>3, PutType, Zenon
    <3>2. slot \in DOMAIN b /\ b[slot] = active /\ DOMAIN b = DOMAIN a
      BY <1>6 DEF Put
    <3>3. Put(b, slot, a[slot]) = a
      BY <1>1, <1>6, PutUndoesPut
    <3> QED BY <3>1, <3>2, <3>3
  <2> HIDE DEF e, g, b
  <2>4. /\ DbsInv(e)
        /\ e.proposal_id_to_sidechain = g /\ e.sidechain = b /\ e.pending_m6ids = p
        /\ db = [e EXCEPT !.proposal_id_to_sidechain = f, !.sidechain = a,
                          !.pending_m6ids = p]
    <3>1. DbsOK(e)
      BY <1>1, <2>1, <2>2, <2>3, Zenon DEF DbsInv, DbsOK
    <3>2. /\ e.proposal_id_to_sidechain = g /\ e.sidechain = b
          /\ e.pending_m6ids = p /\ e.ctip = db.ctip
          /\ e.ctip_outpoint_to_value_seq = db.ctip_outpoint_to_value_seq
          /\ e.slot_sequence_to_treasury_utxo = db.slot_sequence_to_treasury_utxo
          /\ e.treasury_utxo_count = db.treasury_utxo_count
      BY <2>1 DEF DbsInv, DbsOK
    <3>3. db = [e EXCEPT !.proposal_id_to_sidechain = f, !.sidechain = a,
                         !.pending_m6ids = p]
      BY <2>1, Zenon DEF DbsInv, DbsOK, f, a, p
    <3>4. LifecycleOK(e)
      BY <1>1, <2>2, <2>3, <3>2 DEF LifecycleOK, DistinctIds
    <3>5. TreasuryOK(e)
      BY <3>2, TreasuryFrame DEF DbsInv
    <3> QED BY <3>1, <3>2, <3>3, <3>4, <3>5 DEF DbsInv
  <2>5. AckedSidechain(e, d) = acked
    BY <1>3, <1>6, <2>3, <2>4 DEF AckedSidechain
  <2>6. ~UndoFails(e, d)
    BY <1>3, <1>6, <2>3, <2>4, <2>5 DEF UndoFails
  <2>7. (CHOOSE r \in d.replaced : TRUE) = a[slot]
    BY <1>6
  <2>8. UndoAckSidechainProposal(e, d)
          = [e EXCEPT !.proposal_id_to_sidechain = f, !.sidechain = a,
                      !.pending_m6ids = p]
    <3> DEFINE r == put_sidechain(e, slot, a[slot])
    <3>1. UndoAckSidechainProposal(e, d) = [r EXCEPT !.proposal_id_to_sidechain
                                              = Put(@, d.id, sc)]
      BY <1>3, <1>6, <2>5, <2>7 DEF UndoAckSidechainProposal, RestoreSlot
    <3>2. r = [e EXCEPT !.sidechain = a, !.pending_m6ids = p]
      BY <1>1, <1>6, <2>3, <2>4, Zenon DEF put_sidechain, DbsInv, DbsOK
    <3> HIDE DEF r
    <3> QED BY <2>2, <2>4, <3>1, <3>2, Zenon DEF DbsInv, DbsOK
  <2> QED BY <2>4, <2>6, <2>8 DEF e
<1> QED
  BY <1>4, <1>5, <1>6 DEF AckSidechainProposalFits, a

-----------------------------------------------------------------------------
(***************************************************************************)
(* The diffs about withdrawal bundles.                                     *)
(***************************************************************************)

\* with_pending_withdrawals replaces one list, and can put the old one back.
LEMMA WithPendingWithdrawals ==
  ASSUME NEW db, DbsInv(db), NEW s \in DOMAIN db.pending_m6ids,
         NEW t \in Seq(Bundle), DistinctIds(t)
  PROVE  LET e == with_pending_withdrawals(db, s, t)
         IN  /\ DbsInv(e)
             /\ DOMAIN e.pending_m6ids = DOMAIN db.pending_m6ids
             /\ e.pending_m6ids[s] = t
             /\ with_pending_withdrawals(e, s, db.pending_m6ids[s]) = db
<1> DEFINE f == db.pending_m6ids
           g == Put(f, s, t)
           e == [db EXCEPT !.pending_m6ids = g]
<1>1. IsMap(f, Slot, Seq(Bundle)) /\ s \in Slot /\ s \in DOMAIN f
      /\ \A r \in DOMAIN f : DistinctIds(f[r])
  BY DEF DbsInv, DbsOK, LifecycleOK, DistinctIds, IsMap
<1> HIDE DEF f
<1>2. IsMap(g, Slot, Seq(Bundle))
  BY <1>1, PutType, Zenon
<1>3. DOMAIN g = DOMAIN f /\ g[s] = t
  BY <1>1, Zenon DEF Put
<1>4. \A r \in DOMAIN g : DistinctIds(g[r])
  BY <1>1 DEF Put
<1>5. Put(g, s, f[s]) = f
  BY <1>1, PutUndoesPut
<1> HIDE DEF g
<1>6. DbsInv(e) /\ e.pending_m6ids = g /\ [e EXCEPT !.pending_m6ids = f] = db
  BY <1>2, <1>3, <1>4, ChangePending, Zenon DEF f
<1>7. with_pending_withdrawals(db, s, t) = e
  BY DEF with_pending_withdrawals, f, g
<1> HIDE DEF e
<1>8. with_pending_withdrawals(e, s, f[s]) = [e EXCEPT !.pending_m6ids = f]
  BY <1>5, <1>6 DEF with_pending_withdrawals
<1> QED
  BY <1>3, <1>6, <1>7, <1>8 DEF f

\* diff::ProposeBundle
LEMMA ProposeBundleUndo ==
  ASSUME NEW db, NEW d, DbsInv(db), ProposeBundleFits(db, d),
         d.type = "ProposeBundle", NEW height \in Nat
  PROVE  /\ DbsInv(ApplyProposeBundle(db, d, height))
         /\ ~UndoFails(ApplyProposeBundle(db, d, height), d)
         /\ UndoProposeBundle(ApplyProposeBundle(db, d, height), d) = db
<1> DEFINE s == d.slot
           t == db.pending_m6ids[s]
           fresh == [m6id |-> d.m6id, vote_count |-> 1, proposal_height |-> height]
           u == Append(t, fresh)
           e == with_pending_withdrawals(db, s, u)
<1>1. s \in DOMAIN db.pending_m6ids /\ t \in Seq(Bundle) /\ DistinctIds(t)
      /\ d.m6id \in M6id /\ d.m6id \notin PendingIds(t)
  BY DEF DbsInv, DbsOK, LifecycleOK, DistinctIds, IsMap, ProposeBundleFits
<1>2. fresh \in Bundle /\ fresh.m6id = d.m6id
  BY <1>1 DEF Bundle
<1> HIDE DEF t, fresh
<1>3. u \in Seq(Bundle) /\ Len(u) = Len(t) + 1 /\ u[Len(t) + 1] = fresh
      /\ Len(t) \in Nat /\ DOMAIN u = 1..(Len(t) + 1) /\ DOMAIN t = 1..Len(t)
      /\ \A k \in 1..Len(t) : u[k] = t[k]
  BY <1>1, <1>2
<1>4. \A k \in 1..Len(t) : t[k].m6id # d.m6id
  BY <1>1, <1>3 DEF PendingIds
<1> HIDE DEF u
<1>5. DistinctIds(u)
  <2> SUFFICES ASSUME NEW i \in DOMAIN u, NEW j \in DOMAIN u,
                      u[i].m6id = u[j].m6id
               PROVE  i = j
    BY DEF DistinctIds
  <2>1. CASE i \in 1..Len(t) /\ j \in 1..Len(t)
    BY <1>1, <1>3, <2>1 DEF DistinctIds
  <2>2. CASE i = Len(t) + 1 \/ j = Len(t) + 1
    BY <1>2, <1>3, <1>4, <2>2
  <2> QED BY <1>3, <2>1, <2>2
<1>6. IndexesOf(u, d.m6id) = {Len(t) + 1}
  BY <1>2, <1>3, <1>4 DEF IndexesOf
<1>7. RemoveIndexes(u, IndexesOf(u, d.m6id)) = t
  BY <1>1, <1>3, <1>6, RemoveUndoesAppend
<1>8. ApplyProposeBundle(db, d, height) = e
  BY <1>1 DEF ApplyProposeBundle, put_pending_m6id, fresh, u, t
<1>9. /\ DbsInv(e)
      /\ DOMAIN e.pending_m6ids = DOMAIN db.pending_m6ids
      /\ e.pending_m6ids[s] = u
      /\ with_pending_withdrawals(e, s, t) = db
  BY <1>1, <1>3, <1>5, WithPendingWithdrawals DEF t
<1> HIDE DEF e
<1>10. UndoProposeBundle(e, d) = with_pending_withdrawals(e, s, t)
  BY <1>7, <1>9 DEF UndoProposeBundle, delete_pending_withdrawal
<1>11. ~UndoFails(e, d)
  BY <1>1, <1>9 DEF UndoFails
<1> QED
  BY <1>8, <1>9, <1>10, <1>11

\* Removing bundles from a list keeps the ids of the others distinct.
LEMMA RemoveKeepsDistinct ==
  ASSUME NEW t \in Seq(Bundle), DistinctIds(t), NEW F
  PROVE  DistinctIds(RemoveIndexes(t, F))
<1> DEFINE keep == DOMAIN t \ F
           s == RemoveIndexes(t, F)
<1>1. keep \in SUBSET Int /\ IsFiniteSet(keep) /\ Cardinality(keep) \in Nat
  BY KeptIndexes
<1>2. s \in Seq(Bundle) /\ Len(s) = Cardinality(keep)
      /\ \A k \in 1..Len(s) : Nth(keep, k) \in keep /\ s[k] = t[Nth(keep, k)]
  BY RemoveIndexesProperties, Zenon
<1>3. \A k \in 1..Len(s) : Rank(keep, Nth(keep, k)) = k
  BY <1>1, <1>2, NthProperties
<1>4. keep \subseteq DOMAIN t
  OBVIOUS
<1> HIDE DEF s, keep
<1>5. DOMAIN s = 1..Len(s)
  BY <1>2
<1> SUFFICES ASSUME NEW i \in 1..Len(s), NEW j \in 1..Len(s), s[i].m6id = s[j].m6id
             PROVE  i = j
  BY <1>5 DEF DistinctIds, s
<1>6. Nth(keep, i) = Nth(keep, j)
  BY <1>2, <1>4 DEF DistinctIds
<1> QED
  BY <1>3, <1>6

\* What AckBundlesFits says of the action on one sidechain.
ActionFits(t, a) ==
  \/ a.kind = "Alarm" /\ a.positive_votes_proposals = PositiveIds(t)
  \/ /\ a.kind = "Upvote" /\ a.m6id \in PendingIds(t)
     /\ a.downvoted_others = PositiveIds(t) \ {a.m6id}

\* A bundle is recorded as having votes if and only if it has.
LEMMA PositiveIdsExact ==
  ASSUME NEW t \in Seq(Bundle), DistinctIds(t), NEW i \in DOMAIN t
  PROVE  t[i].m6id \in PositiveIds(t) <=> t[i].vote_count > 0
BY DEF PositiveIds, DistinctIds

\* Undoing an action restores the votes of every bundle: the ones that were
\* at zero, and so were not lowered, are not raised.
LEMMA UnackVotesUndoesAckVotes ==
  ASSUME NEW t \in Seq(Bundle), DistinctIds(t), NEW a, ActionFits(t, a),
         NEW i \in DOMAIN t
  PROVE  LET b == [t[i] EXCEPT !.vote_count = AckVotes(t[i], a)]
         IN  /\ b \in Bundle /\ b.m6id = t[i].m6id
             /\ a.kind = "Upvote" /\ b.m6id = a.m6id => b.vote_count # 0
             /\ [b EXCEPT !.vote_count = UnackVotes(b, a)] = t[i]
<1> DEFINE v == AckVotes(t[i], a)
           b == [t[i] EXCEPT !.vote_count = v]
<1>1. t[i] \in Bundle
  OBVIOUS
<1>2. t[i].m6id \in M6id /\ t[i].vote_count \in Nat /\ t[i].proposal_height \in Nat
      /\ t[i] = [m6id |-> t[i].m6id, vote_count |-> t[i].vote_count,
                 proposal_height |-> t[i].proposal_height]
  BY <1>1 DEF Bundle
<1>3. t[i].m6id \in PositiveIds(t) <=> t[i].vote_count > 0
  BY PositiveIdsExact
<1>4. v \in Nat /\ (a.kind = "Upvote" /\ t[i].m6id = a.m6id => v # 0)
  BY <1>2 DEF AckVotes, SatSub, ActionFits
<1>5. ASSUME NEW c, c.m6id = t[i].m6id, c.vote_count = v
      PROVE  UnackVotes(c, a) = t[i].vote_count
  <2>1. CASE a.kind = "Alarm"
    BY <1>2, <1>3, <1>5, <2>1 DEF AckVotes, UnackVotes, SatSub, ActionFits
  <2>2. CASE a.kind = "Upvote" /\ t[i].m6id = a.m6id
    BY <1>2, <1>3, <1>5, <2>2 DEF AckVotes, UnackVotes, SatSub, ActionFits
  <2>3. CASE a.kind = "Upvote" /\ t[i].m6id # a.m6id
    BY <1>2, <1>3, <1>5, <2>3 DEF AckVotes, UnackVotes, SatSub, ActionFits
  <2> QED BY <2>1, <2>2, <2>3 DEF ActionFits
<1> HIDE DEF v
<1>6. b = [m6id |-> t[i].m6id, vote_count |-> v,
           proposal_height |-> t[i].proposal_height]
  BY <1>2
<1> HIDE DEF b
<1>7. b \in Bundle /\ b.m6id = t[i].m6id /\ b.vote_count = v
  BY <1>2, <1>4, <1>6 DEF Bundle
<1>8. UnackVotes(b, a) = t[i].vote_count
  BY <1>5, <1>7
<1>9. [b EXCEPT !.vote_count = UnackVotes(b, a)] = t[i]
  BY <1>2, <1>6, <1>8
<1> QED
  BY <1>4, <1>7, <1>9 DEF b, v

\* The list of one sidechain, acked and unacked.
LEMMA UnackedUndoesAcked ==
  ASSUME NEW t \in Seq(Bundle), DistinctIds(t), NEW a, ActionFits(t, a)
  PROVE  /\ Acked(t, a) \in Seq(Bundle) /\ DistinctIds(Acked(t, a))
         /\ Unacked(Acked(t, a), a) = t
         /\ a.kind = "Upvote" =>
              \E i \in DOMAIN Acked(t, a) : /\ Acked(t, a)[i].m6id = a.m6id
                                            /\ Acked(t, a)[i].vote_count # 0
<1> DEFINE b(i) == [t[i] EXCEPT !.vote_count = AckVotes(t[i], a)]
           u == Acked(t, a)
<1>1. u = [i \in DOMAIN t |-> b(i)]
  BY DEF Acked
<1>2. \A i \in DOMAIN t :
        /\ b(i) \in Bundle /\ b(i).m6id = t[i].m6id
        /\ a.kind = "Upvote" /\ b(i).m6id = a.m6id => b(i).vote_count # 0
        /\ [b(i) EXCEPT !.vote_count = UnackVotes(b(i), a)] = t[i]
  BY UnackVotesUndoesAckVotes, Zenon
<1>3. DOMAIN t = 1..Len(t) /\ Len(t) \in Nat
  OBVIOUS
<1> HIDE DEF u, b
<1>4. u \in Seq(Bundle) /\ DOMAIN u = DOMAIN t /\ \A i \in DOMAIN t : u[i] = b(i)
  BY <1>1, <1>2, <1>3
<1>5. DistinctIds(u)
  BY <1>2, <1>4 DEF DistinctIds
<1>6. Unacked(u, a) = [i \in DOMAIN t |-> t[i]]
  BY <1>2, <1>4 DEF Unacked
<1>7. Unacked(u, a) = t
  BY <1>6
<1>8. a.kind = "Upvote" =>
        \E i \in DOMAIN u : u[i].m6id = a.m6id /\ u[i].vote_count # 0
  BY <1>2, <1>4 DEF ActionFits, PendingIds
<1> QED
  BY <1>4, <1>5, <1>7, <1>8 DEF u

\* diff::AckBundles
LEMMA AckBundlesUndo ==
  ASSUME NEW db, NEW d, DbsInv(db), AckBundlesFits(db, d), d.type = "AckBundles"
  PROVE  /\ DbsInv(ApplyAckBundles(db, d))
         /\ ~UndoFails(ApplyAckBundles(db, d), d)
         /\ UndoAckBundles(ApplyAckBundles(db, d), d) = db
<1> DEFINE f == db.pending_m6ids
           A == DOMAIN d.actions
           g == [s \in DOMAIN f |-> IF s \in A THEN Acked(f[s], d.actions[s]) ELSE f[s]]
           e == [db EXCEPT !.pending_m6ids = g]
<1>1. IsMap(f, Slot, Seq(Bundle)) /\ A \subseteq DOMAIN f
      /\ (\A s \in DOMAIN f : f[s] \in Seq(Bundle) /\ DistinctIds(f[s]))
      /\ \A s \in A : ActionFits(f[s], d.actions[s])
  BY DEF DbsInv, DbsOK, LifecycleOK, DistinctIds, IsMap, AckBundlesFits, ActionFits
<1> HIDE DEF f
<1>2. \A s \in A :
        LET t == Acked(f[s], d.actions[s])
        IN  /\ t \in Seq(Bundle) /\ DistinctIds(t)
            /\ Unacked(t, d.actions[s]) = f[s]
            /\ d.actions[s].kind = "Upvote" =>
                 \E i \in DOMAIN t : t[i].m6id = d.actions[s].m6id /\ t[i].vote_count # 0
  BY <1>1, UnackedUndoesAcked
<1>3. DOMAIN g = DOMAIN f /\ \A s \in A : g[s] = Acked(f[s], d.actions[s])
  BY <1>1
<1>4. IsMap(g, Slot, Seq(Bundle)) /\ \A s \in DOMAIN g : DistinctIds(g[s])
  BY <1>1, <1>2 DEF IsMap
<1>5. [s \in DOMAIN g |-> IF s \in A THEN Unacked(g[s], d.actions[s]) ELSE g[s]] = f
  <2>1. [s \in DOMAIN g |-> IF s \in A THEN Unacked(g[s], d.actions[s]) ELSE g[s]]
          = [s \in DOMAIN f |-> f[s]]
    BY <1>2
  <2> QED BY <1>1, <2>1 DEF IsMap
<1>6. ApplyAckBundles(db, d) = e
  BY DEF ApplyAckBundles, f
<1> HIDE DEF g
<1>7. DbsInv(e) /\ e.pending_m6ids = g /\ [e EXCEPT !.pending_m6ids = f] = db
  BY <1>3, <1>4, ChangePending, Zenon DEF f
<1> HIDE DEF e
<1>8. UndoAckBundles(e, d) = [e EXCEPT !.pending_m6ids = f]
  BY <1>5, <1>7 DEF UndoAckBundles
<1>9. ~UndoFails(e, d)
  <2>1. \A s \in A : s \in DOMAIN e.pending_m6ids
    BY <1>1, <1>3, <1>7
  <2>2. \A s \in A : d.actions[s].kind = "Upvote" =>
          \E i \in DOMAIN e.pending_m6ids[s] :
            /\ e.pending_m6ids[s][i].m6id = d.actions[s].m6id
            /\ e.pending_m6ids[s][i].vote_count # 0
    BY <1>2, <1>3, <1>7
  <2> QED BY <2>1, <2>2 DEF UndoFails
<1> QED
  BY <1>6, <1>7, <1>8, <1>9

\* diff::FailedM6ids
LEMMA FailedM6idsUndo ==
  ASSUME NEW db, NEW d, DbsInv(db), FailedM6idsFits(db, d), d.type = "FailedM6ids"
  PROVE  /\ DbsInv(ApplyFailedM6ids(db, d))
         /\ ~UndoFails(ApplyFailedM6ids(db, d), d)
         /\ UndoFailedM6ids(ApplyFailedM6ids(db, d), d) = db
<1> DEFINE f == db.pending_m6ids
           A == DOMAIN d.failed
           g == [s \in DOMAIN f |-> IF s \in A THEN RemoveIndexes(f[s], DOMAIN d.failed[s])
                                              ELSE f[s]]
           e == [db EXCEPT !.pending_m6ids = g]
<1>1. IsMap(f, Slot, Seq(Bundle)) /\ A \subseteq DOMAIN f
      /\ (\A s \in DOMAIN f : f[s] \in Seq(Bundle) /\ DistinctIds(f[s]))
      /\ \A s \in A : /\ DOMAIN d.failed[s] \subseteq DOMAIN f[s]
                      /\ d.failed[s] = Restrict(f[s], DOMAIN d.failed[s])
  BY DEF DbsInv, DbsOK, LifecycleOK, DistinctIds, IsMap, FailedM6idsFits
<1> HIDE DEF f
<1>2. ASSUME NEW s \in A
      PROVE  /\ RemoveIndexes(f[s], DOMAIN d.failed[s]) \in Seq(Bundle)
             /\ DistinctIds(RemoveIndexes(f[s], DOMAIN d.failed[s]))
             /\ InsertIndexes(RemoveIndexes(f[s], DOMAIN d.failed[s]), d.failed[s]) = f[s]
  <2> DEFINE F == DOMAIN d.failed[s]
             t == f[s]
  <2>1. t \in Seq(Bundle) /\ DistinctIds(t) /\ F \in SUBSET DOMAIN t
        /\ d.failed[s] = [i \in F |-> t[i]]
    BY <1>1 DEF Restrict
  <2> HIDE DEF F, t
  <2>2. RemoveIndexes(t, F) \in Seq(Bundle)
    BY <2>1, RemoveIndexesProperties, Zenon
  <2>3. DistinctIds(RemoveIndexes(t, F))
    BY <2>1, RemoveKeepsDistinct
  <2>4. InsertIndexes(RemoveIndexes(t, F), [i \in F |-> t[i]]) = t
    BY <2>1, InsertUndoesRemove
  <2> QED BY <2>1, <2>2, <2>3, <2>4 DEF F, t
<1>3. DOMAIN g = DOMAIN f
      /\ \A s \in A : g[s] = RemoveIndexes(f[s], DOMAIN d.failed[s])
  BY <1>1
<1>4. IsMap(g, Slot, Seq(Bundle)) /\ \A s \in DOMAIN g : DistinctIds(g[s])
  BY <1>1, <1>2 DEF IsMap
<1>5. [s \in DOMAIN g |-> IF s \in A THEN InsertIndexes(g[s], d.failed[s]) ELSE g[s]] = f
  <2>1. [s \in DOMAIN g |-> IF s \in A THEN InsertIndexes(g[s], d.failed[s]) ELSE g[s]]
          = [s \in DOMAIN f |-> f[s]]
    BY <1>2
  <2> QED BY <1>1, <2>1 DEF IsMap
<1>6. ApplyFailedM6ids(db, d) = e
  BY DEF ApplyFailedM6ids, f
<1> HIDE DEF g
<1>7. DbsInv(e) /\ e.pending_m6ids = g /\ [e EXCEPT !.pending_m6ids = f] = db
  BY <1>3, <1>4, ChangePending, Zenon DEF f
<1> HIDE DEF e
<1>8. UndoFailedM6ids(e, d) = [e EXCEPT !.pending_m6ids = f]
  BY <1>5, <1>7 DEF UndoFailedM6ids
<1>9. ~UndoFails(e, d)
  BY <1>1, <1>3, <1>7 DEF UndoFails
<1> QED
  BY <1>6, <1>7, <1>8, <1>9

-----------------------------------------------------------------------------
(***************************************************************************)
(* The diffs about treasuries.                                             *)
(***************************************************************************)

\* The keys of a gapless history.
LEMMA TreasuryKeysMember ==
  ASSUME NEW db, db.treasury_utxo_count \in [Slot -> Nat]
  PROVE  TreasuryKeys(db)
           = {k \in Slot \X Nat : k[2] < db.treasury_utxo_count[k[1]]}
<1> DEFINE C == db.treasury_utxo_count
           R == {k \in Slot \X Nat : k[2] < C[k[1]]}
<1>1. ASSUME NEW k \in TreasuryKeys(db) PROVE k \in R
  <2>1. PICK s \in Slot : k \in {<<s, n>> : n \in 0..(C[s] - 1)}
    BY <1>1 DEF TreasuryKeys
  <2>2. PICK n \in 0..(C[s] - 1) : k = <<s, n>>
    BY <2>1
  <2>3. n \in Nat /\ n < C[s]
    BY <2>2
  <2> QED BY <2>2, <2>3
<1>2. ASSUME NEW k \in R PROVE k \in TreasuryKeys(db)
  <2>1. k = <<k[1], k[2]>> /\ k[1] \in Slot /\ k[2] \in 0..(C[k[1]] - 1)
    OBVIOUS
  <2> QED BY <2>1 DEF TreasuryKeys
<1> QED
  BY <1>1, <1>2

\* The parts of the databases that put_ctip writes.
NewUtxos(db, new) ==
  [k \in {<<s, db.treasury_utxo_count[s]>> : s \in DOMAIN new} |->
     [outpoint |-> new[k[1]].outpoint, total_value |-> new[k[1]].value,
      previous_total_value |-> IF k[1] \in DOMAIN db.ctip
                               THEN db.ctip[k[1]].value ELSE 0]]

NewCounts(db, new) ==
  [s \in Slot |-> IF s \in DOMAIN new THEN db.treasury_utxo_count[s] + 1
                                      ELSE db.treasury_utxo_count[s]]

NewSlotOf(new, o) == CHOOSE s \in DOMAIN new : new[s].outpoint = o

NewValueSeqs(db, new) ==
  [o \in {new[s].outpoint : s \in DOMAIN new} |->
     [slot |-> NewSlotOf(new, o), value |-> new[NewSlotOf(new, o)].value,
      seq |-> db.treasury_utxo_count[NewSlotOf(new, o)]]]

\* put_ctip in terms of these parts.
LEMMA PutCtipShape ==
  ASSUME NEW db, NEW new
  PROVE  put_ctip(db, new) =
           [db EXCEPT
              !.slot_sequence_to_treasury_utxo = PutAll(@, NewUtxos(db, new)),
              !.treasury_utxo_count = NewCounts(db, new),
              !.ctip = PutAll(@, new),
              !.ctip_outpoint_to_value_seq = PutAll(@, NewValueSeqs(db, new))]
BY DEF put_ctip, NewUtxos, NewCounts, NewValueSeqs, NewSlotOf

\* The databases that put_ctip writes, and the ones it leaves alone.
LEMMA PutCtipFields ==
  ASSUME NEW db, DbsOK(db), NEW new, NEW e, e = put_ctip(db, new)
  PROVE  /\ e.proposal_id_to_sidechain = db.proposal_id_to_sidechain
         /\ e.sidechain = db.sidechain
         /\ e.pending_m6ids = db.pending_m6ids
         /\ e.slot_sequence_to_treasury_utxo
              = PutAll(db.slot_sequence_to_treasury_utxo, NewUtxos(db, new))
         /\ e.treasury_utxo_count = NewCounts(db, new)
         /\ e.ctip = PutAll(db.ctip, new)
         /\ e.ctip_outpoint_to_value_seq
              = PutAll(db.ctip_outpoint_to_value_seq, NewValueSeqs(db, new))
<1>1. e = [db EXCEPT
             !.slot_sequence_to_treasury_utxo = PutAll(@, NewUtxos(db, new)),
             !.treasury_utxo_count = NewCounts(db, new),
             !.ctip = PutAll(@, new),
             !.ctip_outpoint_to_value_seq = PutAll(@, NewValueSeqs(db, new))]
  BY PutCtipShape, Zenon
<1> QED
  BY <1>1 DEF DbsOK

\* The new parts have their types, and new keys.
LEMMA NewTreasuryTypes ==
  ASSUME NEW db, DbsInv(db), NEW new, NewCtipsFit(db, new)
  PROVE  /\ IsMap(NewUtxos(db, new), Slot \X Nat, TreasuryUtxo)
         /\ NewCounts(db, new) \in [Slot -> Nat]
         /\ IsMap(NewValueSeqs(db, new), Outpoint, ValueSeq)
         /\ \A s \in DOMAIN new : NewSlotOf(new, new[s].outpoint) = s
<1> DEFINE C == db.treasury_utxo_count
           T == db.ctip
<1>1. C \in [Slot -> Nat] /\ IsMap(T, Slot, Ctip)
  BY DEF DbsInv, DbsOK
<1>2. DOMAIN new \subseteq Slot /\ new \in [DOMAIN new -> Ctip]
      /\ \A s, t \in DOMAIN new : new[s].outpoint = new[t].outpoint => s = t
  BY DEF NewCtipsFit, IsMap
<1>3. \A s \in DOMAIN new : new[s].outpoint \in Outpoint /\ new[s].value \in Nat
  BY <1>2 DEF Ctip
<1>4. \A s \in DOMAIN T : T[s].value \in Nat
  BY <1>1 DEF Ctip, IsMap
<1>5. \A s \in DOMAIN new : NewSlotOf(new, new[s].outpoint) = s
  BY <1>2 DEF NewSlotOf
<1> HIDE DEF C, T
<1>6. NewCounts(db, new) \in [Slot -> Nat]
  BY <1>1 DEF NewCounts, C
<1>7. IsMap(NewUtxos(db, new), Slot \X Nat, TreasuryUtxo)
  BY <1>1, <1>2, <1>3, <1>4 DEF NewUtxos, IsMap, TreasuryUtxo, C, T
<1>8. IsMap(NewValueSeqs(db, new), Outpoint, ValueSeq)
  BY <1>1, <1>2, <1>3, <1>5 DEF NewValueSeqs, IsMap, ValueSeq, C
<1> QED
  BY <1>5, <1>6, <1>7, <1>8

\* put_ctip keeps the treasury databases consistent.
LEMMA PutCtipKeeps ==
  ASSUME NEW db, DbsInv(db), NEW new, NewCtipsFit(db, new)
  PROVE  DbsInv(put_ctip(db, new))
<1> DEFINE e == put_ctip(db, new)
           S == DOMAIN new
           C == db.treasury_utxo_count
           T == db.ctip
           U == db.slot_sequence_to_treasury_utxo
           V == db.ctip_outpoint_to_value_seq
           nU == NewUtxos(db, new)
           nV == NewValueSeqs(db, new)
<1>1. /\ IsMap(nU, Slot \X Nat, TreasuryUtxo) /\ NewCounts(db, new) \in [Slot -> Nat]
      /\ IsMap(nV, Outpoint, ValueSeq)
      /\ \A s \in S : NewSlotOf(new, new[s].outpoint) = s
  BY NewTreasuryTypes, Zenon
<1>2. /\ DbsOK(db) /\ C \in [Slot -> Nat] /\ IsMap(T, Slot, Ctip)
      /\ IsMap(U, Slot \X Nat, TreasuryUtxo) /\ IsMap(V, Outpoint, ValueSeq)
      /\ IsMap(new, Slot, Ctip) /\ S \subseteq Slot
      /\ \A s \in S : new[s].outpoint \notin DOMAIN V
  BY DEF DbsInv, DbsOK, NewCtipsFit, IsMap
<1>3. /\ e.proposal_id_to_sidechain = db.proposal_id_to_sidechain
      /\ e.sidechain = db.sidechain
      /\ e.pending_m6ids = db.pending_m6ids
      /\ e.slot_sequence_to_treasury_utxo = PutAll(U, nU)
      /\ e.treasury_utxo_count = NewCounts(db, new)
      /\ e.ctip = PutAll(T, new)
      /\ e.ctip_outpoint_to_value_seq = PutAll(V, nV)
  <2>1. PICK x : x = e
    OBVIOUS
  <2> HIDE DEF e
  <2> QED BY <1>2, <2>1, PutCtipFields DEF e
<1>4. DbsOK(e)
  <2>1. /\ IsMap(PutAll(U, nU), Slot \X Nat, TreasuryUtxo)
        /\ IsMap(PutAll(T, new), Slot, Ctip)
        /\ IsMap(PutAll(V, nV), Outpoint, ValueSeq)
    BY <1>1, <1>2, PutAllType, Zenon
  <2>2. e = [db EXCEPT
              !.slot_sequence_to_treasury_utxo = PutAll(@, nU),
              !.treasury_utxo_count = NewCounts(db, new),
              !.ctip = PutAll(@, new),
              !.ctip_outpoint_to_value_seq = PutAll(@, nV)]
    BY PutCtipShape, Zenon
  <2>3. e = [proposal_id_to_sidechain |-> e.proposal_id_to_sidechain,
             sidechain |-> e.sidechain,
             pending_m6ids |-> e.pending_m6ids,
             ctip |-> e.ctip,
             ctip_outpoint_to_value_seq |-> e.ctip_outpoint_to_value_seq,
             slot_sequence_to_treasury_utxo |-> e.slot_sequence_to_treasury_utxo,
             treasury_utxo_count |-> e.treasury_utxo_count]
    <3> HIDE DEF e, nU, nV
    <3> QED BY <1>2, <2>2, Zenon DEF DbsOK
  <2> HIDE DEF e, nU, nV
  <2> QED BY <1>1, <1>2, <1>3, <2>1, <2>3 DEF DbsOK
<1>5. LifecycleOK(e)
  BY <1>3 DEF DbsInv, LifecycleOK
<1>6. /\ DOMAIN nU = {<<s, C[s]>> : s \in S}
      /\ \A s \in S :
           LET u == nU[<<s, C[s]>>]
           IN  /\ u.outpoint = new[s].outpoint
               /\ u.total_value = new[s].value
               /\ u.previous_total_value = IF s \in DOMAIN T THEN T[s].value ELSE 0
  BY DEF NewUtxos
<1>7. /\ DOMAIN nV = {new[s].outpoint : s \in S}
      /\ \A s \in S : nV[new[s].outpoint]
           = [slot |-> s, value |-> new[s].value, seq |-> C[s]]
  BY <1>1 DEF NewValueSeqs
<1>8. /\ DOMAIN U = {k \in Slot \X Nat : k[2] < C[k[1]]}
      /\ DOMAIN T = {s \in Slot : C[s] > 0}
      /\ \A s \in DOMAIN T : T[s] = [outpoint |-> U[<<s, C[s] - 1>>].outpoint,
                                     value |-> U[<<s, C[s] - 1>>].total_value]
      /\ DOMAIN V = {U[k].outpoint : k \in DOMAIN U}
      /\ \A k \in DOMAIN U :
           /\ V[U[k].outpoint] = [slot |-> k[1], value |-> U[k].total_value, seq |-> k[2]]
           /\ U[k].previous_total_value
                = IF k[2] = 0 THEN 0 ELSE U[<<k[1], k[2] - 1>>].total_value
  BY <1>2, TreasuryKeysMember DEF DbsInv, TreasuryOK, LastTreasuryUtxo
<1> DEFINE D == NewCounts(db, new)
           W == PutAll(U, nU)
           X == PutAll(V, nV)
           Y == PutAll(T, new)
<1>9. \A s \in Slot : D[s] = IF s \in S THEN C[s] + 1 ELSE C[s]
  BY DEF NewCounts
<1>10. TreasuryOK(e)
  <2> HIDE DEF C, T, U, V, D, nU, nV, S
  <2>0. \A s \in DOMAIN T : T[s].value = U[<<s, C[s] - 1>>].total_value
    <3>1. \A s \in DOMAIN db.ctip : db.ctip[s] = LastTreasuryUtxo(db, s)
      BY DEF DbsInv, TreasuryOK
    <3>2. \A s : LastTreasuryUtxo(db, s).value = U[<<s, C[s] - 1>>].total_value
      BY DEF LastTreasuryUtxo, U, C
    <3> QED BY <3>1, <3>2 DEF T
  <2>1. DOMAIN W = {k \in Slot \X Nat : k[2] < D[k[1]]}
    <3>1. ASSUME NEW k \in Slot \X Nat
          PROVE  k \in DOMAIN U \cup DOMAIN nU <=> k[2] < D[k[1]]
      <4>1. k = <<k[1], k[2]>> /\ k[1] \in Slot /\ k[2] \in Nat /\ C[k[1]] \in Nat
        BY <1>2
      <4>2. k \in DOMAIN nU <=> k[1] \in S /\ k[2] = C[k[1]]
        BY <1>6, <4>1
      <4>3. k \in DOMAIN U <=> k[2] < C[k[1]]
        BY <1>8
      <4>4. D[k[1]] = IF k[1] \in S THEN C[k[1]] + 1 ELSE C[k[1]]
        BY <1>9, <4>1
      <4> QED BY <4>1, <4>2, <4>3, <4>4
    <3>2. DOMAIN W = DOMAIN U \cup DOMAIN nU
      BY DEF PutAll
    <3>3. DOMAIN W \subseteq Slot \X Nat
      BY <1>1, <1>2, <3>2 DEF IsMap
    <3> HIDE DEF W
    <3> QED BY <3>1, <3>2, <3>3
  <2>2. DOMAIN U \cap DOMAIN nU = {} /\ DOMAIN V \cap DOMAIN nV = {}
    <3>1. \A s \in S : <<s, C[s]>> \notin DOMAIN U
      BY <1>2, <1>8
    <3> QED BY <1>2, <1>6, <1>7, <3>1
  <2>3. /\ \A k \in DOMAIN U : W[k] = U[k] /\ k \in DOMAIN W
        /\ \A k \in DOMAIN nU : W[k] = nU[k] /\ k \in DOMAIN W
        /\ \A k \in DOMAIN W : k \in DOMAIN U \/ k \in DOMAIN nU
    BY <2>2 DEF PutAll
  <2>4. /\ \A o \in DOMAIN V : X[o] = V[o]
        /\ \A o \in DOMAIN nV : X[o] = nV[o]
        /\ DOMAIN X = DOMAIN V \cup DOMAIN nV
    BY <2>2 DEF PutAll
  <2>5. /\ \A s \in S : Y[s] = new[s]
        /\ \A s \in DOMAIN T \ S : Y[s] = T[s]
        /\ DOMAIN Y = DOMAIN T \cup S
    BY DEF PutAll, S
  <2> HIDE DEF W, X, Y
  <2>6. DOMAIN Y = {s \in Slot : D[s] > 0}
    BY <1>2, <1>8, <1>9, <2>5
  <2>7. ASSUME NEW s \in DOMAIN Y
        PROVE  Y[s] = [outpoint |-> W[<<s, D[s] - 1>>].outpoint,
                       value |-> W[<<s, D[s] - 1>>].total_value]
    <3>1. s \in Slot /\ C[s] \in Nat
      BY <1>2, <2>6
    <3>2. CASE s \in S
      <4>1. D[s] - 1 = C[s] /\ <<s, C[s]>> \in DOMAIN nU
        BY <1>6, <1>9, <3>1, <3>2
      <4>2. W[<<s, C[s]>>].outpoint = new[s].outpoint
            /\ W[<<s, C[s]>>].total_value = new[s].value
        BY <1>6, <2>3, <3>2, <4>1
      <4>3. new[s] = [outpoint |-> new[s].outpoint, value |-> new[s].value]
        BY <1>2, <3>2 DEF IsMap, Ctip, S
      <4> QED BY <2>5, <3>2, <4>1, <4>2, <4>3
    <3>3. CASE s \notin S
      <4>1. D[s] = C[s] /\ s \in DOMAIN T /\ C[s] > 0
        BY <1>8, <1>9, <2>5, <3>1, <3>3
      <4>2. <<s, C[s] - 1>> \in DOMAIN U
        BY <1>8, <3>1, <4>1
      <4> QED BY <1>8, <2>3, <2>5, <3>3, <4>1, <4>2
    <3> QED BY <3>2, <3>3
  <2>8. DOMAIN X = {W[k].outpoint : k \in DOMAIN W}
    <3>1. \A s \in S : <<s, C[s]>> \in DOMAIN nU /\ nU[<<s, C[s]>>].outpoint = new[s].outpoint
      BY <1>6
    <3>2. {W[k].outpoint : k \in DOMAIN nU} = DOMAIN nV
      <4>1. ASSUME NEW k \in DOMAIN nU PROVE W[k].outpoint \in DOMAIN nV
        <5>1. PICK s \in S : k = <<s, C[s]>>
          BY <1>6
        <5>2. W[k].outpoint = new[s].outpoint
          BY <2>3, <3>1, <5>1
        <5> QED BY <1>7, <5>2
      <4>2. ASSUME NEW o \in DOMAIN nV PROVE \E k \in DOMAIN nU : W[k].outpoint = o
        <5>1. PICK s \in S : o = new[s].outpoint
          BY <1>7
        <5>2. <<s, C[s]>> \in DOMAIN nU /\ W[<<s, C[s]>>].outpoint = o
          BY <2>3, <3>1, <5>1
        <5> QED BY <5>2
      <4> QED BY <4>1, <4>2
    <3>3. {W[k].outpoint : k \in DOMAIN U} = DOMAIN V
      BY <1>8, <2>3
    <3> QED BY <2>3, <2>4, <3>2, <3>3
  <2>9. ASSUME NEW k \in DOMAIN W
        PROVE  /\ X[W[k].outpoint] = [slot |-> k[1], value |-> W[k].total_value, seq |-> k[2]]
               /\ W[k].previous_total_value
                    = IF k[2] = 0 THEN 0 ELSE W[<<k[1], k[2] - 1>>].total_value
    <3>1. CASE k \in DOMAIN U
      <4>1. k \in Slot \X Nat /\ k[2] < C[k[1]] /\ C[k[1]] \in Nat
        <5>1. k \in {j \in Slot \X Nat : j[2] < C[j[1]]}
          BY ONLY <1>8, <3>1
        <5>2. k \in Slot \X Nat /\ k[2] < C[k[1]]
          BY ONLY <5>1
        <5>3. k[1] \in Slot
          BY ONLY <5>2
        <5> QED BY <1>2, <5>2, <5>3
      <4>2. U[k].outpoint \in DOMAIN V
        BY <1>8, <3>1
      <4>3. k[2] # 0 => <<k[1], k[2] - 1>> \in DOMAIN U
        BY <1>8, <4>1
      <4> QED BY <1>8, <2>3, <2>4, <3>1, <4>2, <4>3
    <3>2. CASE k \in DOMAIN nU
      <4>1. PICK s \in S : k = <<s, C[s]>>
        BY <1>6, <3>2
      <4>2. s \in Slot /\ C[s] \in Nat /\ new[s].outpoint \in DOMAIN nV
        BY <1>2, <1>7
      <4>3. /\ W[k].outpoint = new[s].outpoint /\ W[k].total_value = new[s].value
            /\ W[k].previous_total_value = IF s \in DOMAIN T THEN T[s].value ELSE 0
        BY <1>6, <2>3, <3>2, <4>1
      <4>4. X[new[s].outpoint] = [slot |-> s, value |-> new[s].value, seq |-> C[s]]
        BY <1>7, <2>4, <4>2
      <4>5. C[s] # 0 => s \in DOMAIN T /\ <<s, C[s] - 1>> \in DOMAIN U
        BY <1>8, <4>2
      <4>6. C[s] = 0 => s \notin DOMAIN T
        BY <1>8, <4>2
      <4>7. C[s] # 0 => T[s].value = W[<<s, C[s] - 1>>].total_value
        BY <2>3, <2>0, <4>5
      <4>8. W[k].previous_total_value
              = IF C[s] = 0 THEN 0 ELSE W[<<s, C[s] - 1>>].total_value
        BY <4>3, <4>5, <4>6, <4>7
      <4> QED BY <4>1, <4>3, <4>4, <4>8
    <3> QED BY <2>3, <3>1, <3>2
  <2>10. TreasuryKeys(e) = DOMAIN W
    <3>1. e.treasury_utxo_count = D /\ D \in [Slot -> Nat]
      BY <1>1, <1>3 DEF D
    <3> HIDE DEF e
    <3> QED BY <2>1, <3>1, TreasuryKeysMember
  <2>11. /\ e.slot_sequence_to_treasury_utxo = W /\ e.treasury_utxo_count = D
         /\ e.ctip = Y /\ e.ctip_outpoint_to_value_seq = X
    BY <1>3 DEF W, D, Y, X, U, T, V, nU, nV
  <2> HIDE DEF e
  <2>12. \A s \in DOMAIN e.ctip : e.ctip[s] = LastTreasuryUtxo(e, s)
    BY <2>7, <2>11 DEF LastTreasuryUtxo
  <2>13. DOMAIN e.ctip_outpoint_to_value_seq
           = {e.slot_sequence_to_treasury_utxo[k].outpoint : k \in TreasuryKeys(e)}
    BY <2>8, <2>10, <2>11
  <2>14. DOMAIN e.ctip = {s \in Slot : e.treasury_utxo_count[s] > 0}
    BY <2>6, <2>11
  <2> QED BY <2>9, <2>10, <2>11, <2>12, <2>13, <2>14 DEF TreasuryOK
<1> QED
  BY <1>4, <1>5, <1>10 DEF DbsInv

\* e with the treasury databases of db, and e's other databases.
WithTreasuryOf(db, e) ==
  [e EXCEPT !.ctip_outpoint_to_value_seq = db.ctip_outpoint_to_value_seq,
            !.treasury_utxo_count = db.treasury_utxo_count,
            !.slot_sequence_to_treasury_utxo = db.slot_sequence_to_treasury_utxo,
            !.ctip = db.ctip]

\* The treasury databases of e are what put_ctip makes of those of db.
IsAfterPutCtip(db, new, e) ==
  /\ e.slot_sequence_to_treasury_utxo
       = PutAll(db.slot_sequence_to_treasury_utxo, NewUtxos(db, new))
  /\ e.treasury_utxo_count = NewCounts(db, new)
  /\ e.ctip = PutAll(db.ctip, new)
  /\ e.ctip_outpoint_to_value_seq
       = PutAll(db.ctip_outpoint_to_value_seq, NewValueSeqs(db, new))

\* delete_ctip takes the treasury databases back to where put_ctip found them.
LEMMA DeleteUndoesPutCtip ==
  ASSUME NEW db, DbsInv(db), NEW new, NewCtipsFit(db, new), NEW e,
         IsAfterPutCtip(db, new, e)
  PROVE  /\ delete_ctip(e, DOMAIN new) = WithTreasuryOf(db, e)
         /\ \A s \in DOMAIN new : s \in DOMAIN e.ctip /\ e.treasury_utxo_count[s] # 0
<1> DEFINE S == DOMAIN new
           C == db.treasury_utxo_count
           T == db.ctip
           U == db.slot_sequence_to_treasury_utxo
           V == db.ctip_outpoint_to_value_seq
           nU == NewUtxos(db, new)
           nV == NewValueSeqs(db, new)
           last(s) == e.treasury_utxo_count[s] - 1
           prev(s) == e.slot_sequence_to_treasury_utxo[<<s, last(s) - 1>>]
           hasPrev == {s \in S : last(s) > 0}
<1> USE DEF IsAfterPutCtip
<1>1. /\ C \in [Slot -> Nat] /\ IsMap(T, Slot, Ctip)
      /\ IsMap(U, Slot \X Nat, TreasuryUtxo) /\ IsMap(V, Outpoint, ValueSeq)
      /\ S \subseteq Slot /\ \A s \in S : new[s].outpoint \notin DOMAIN V
  BY DEF DbsInv, DbsOK, NewCtipsFit, IsMap
<1>2. /\ DOMAIN U = {k \in Slot \X Nat : k[2] < C[k[1]]}
      /\ DOMAIN T = {s \in Slot : C[s] > 0}
  BY <1>1, TreasuryKeysMember DEF DbsInv, TreasuryOK
<1>3. \A s \in DOMAIN T : T[s] = [outpoint |-> U[<<s, C[s] - 1>>].outpoint,
                                 value |-> U[<<s, C[s] - 1>>].total_value]
  BY DEF DbsInv, TreasuryOK, LastTreasuryUtxo
<1>4. DOMAIN nU = {<<s, C[s]>> : s \in S} /\ DOMAIN nV = {new[s].outpoint : s \in S}
  BY DEF NewUtxos, NewValueSeqs
<1>5. \A s \in Slot : e.treasury_utxo_count[s] = IF s \in S THEN C[s] + 1 ELSE C[s]
  BY DEF NewCounts
<1> HIDE DEF C, T, U, V, nU, nV
<1>6. \A s \in S : last(s) = C[s] /\ e.treasury_utxo_count[s] # 0
  BY <1>1, <1>5
<1>7. DOMAIN U \cap DOMAIN nU = {} /\ DOMAIN V \cap DOMAIN nV = {}
  <2>1. \A s \in S : <<s, C[s]>> \notin DOMAIN U
    BY <1>1, <1>2
  <2> QED BY <1>1, <1>4, <2>1
<1>8. \A s \in S : s \in DOMAIN e.ctip /\ e.ctip[s] = new[s]
  BY DEF PutAll
<1>9. Delete(e.ctip_outpoint_to_value_seq, {e.ctip[s].outpoint : s \in S}) = V
  <2>1. {e.ctip[s].outpoint : s \in S} = DOMAIN nV
    BY <1>4, <1>8
  <2>2. e.ctip_outpoint_to_value_seq = PutAll(V, nV)
    BY DEF V, nV
  <2> QED BY <1>1, <1>7, <2>1, <2>2, DeleteUndoesPutAll
<1>10. Delete(e.slot_sequence_to_treasury_utxo, {<<s, last(s)>> : s \in S}) = U
  <2>1. {<<s, last(s)>> : s \in S} = DOMAIN nU
    <3> HIDE DEF last
    <3> QED BY <1>4, <1>6
  <2>2. e.slot_sequence_to_treasury_utxo = PutAll(U, nU)
    BY DEF U, nU
  <2> QED BY <1>1, <1>7, <2>1, <2>2, DeleteUndoesPutAll
<1>11. [s \in Slot |-> IF s \in S THEN last(s) ELSE e.treasury_utxo_count[s]] = C
  <2>1. [s \in Slot |-> IF s \in S THEN last(s) ELSE e.treasury_utxo_count[s]]
          = [s \in Slot |-> C[s]]
    BY <1>5, <1>6
  <2> QED BY <1>1, <2>1
<1>12. \A s \in S : s \in hasPrev <=> s \in DOMAIN T
  BY <1>1, <1>2, <1>6
<1>13. ASSUME NEW s \in hasPrev
       PROVE  [outpoint |-> prev(s).outpoint, value |-> prev(s).total_value] = T[s]
  <2>1. s \in S /\ s \in DOMAIN T /\ s \in Slot /\ C[s] \in Nat /\ C[s] > 0 /\ last(s) = C[s]
    BY <1>1, <1>2, <1>6, <1>12
  <2>2. <<s, C[s] - 1>> \in DOMAIN U
    BY <1>2, <2>1
  <2>3. e.slot_sequence_to_treasury_utxo = PutAll(U, nU)
    BY DEF U, nU
  <2>4. e.slot_sequence_to_treasury_utxo[<<s, C[s] - 1>>] = U[<<s, C[s] - 1>>]
    BY <1>7, <2>2, <2>3 DEF PutAll
  <2>5. prev(s) = U[<<s, C[s] - 1>>]
    BY <2>1, <2>4
  <2> HIDE DEF prev
  <2> QED BY <1>3, <2>1, <2>5
<1>14. PutAll(Delete(e.ctip, S),
              [s \in hasPrev |-> [outpoint |-> prev(s).outpoint,
                                  value |-> prev(s).total_value]]) = T
  <2>1. [s \in hasPrev |-> [outpoint |-> prev(s).outpoint, value |-> prev(s).total_value]]
          = [s \in hasPrev |-> T[s]]
    BY <1>13
  <2>2. e.ctip = PutAll(T, new)
    BY DEF T
  <2>3. hasPrev = S \cap DOMAIN T
    BY <1>12
  <2> HIDE DEF hasPrev
  <2>4. Delete(e.ctip, S) = [s \in DOMAIN T \ S |-> T[s]]
    BY <2>2 DEF Delete, Restrict, PutAll
  <2>5. PutAll([s \in DOMAIN T \ S |-> T[s]], [s \in hasPrev |-> T[s]])
          = [s \in DOMAIN T |-> T[s]]
    BY <2>3 DEF PutAll
  <2>6. T = [s \in DOMAIN T |-> T[s]]
    BY <1>1 DEF IsMap
  <2> QED BY <2>1, <2>4, <2>5, <2>6, Zenon
<1>15. delete_ctip(e, S)
         = [e EXCEPT !.ctip_outpoint_to_value_seq = V, !.treasury_utxo_count = C,
                     !.slot_sequence_to_treasury_utxo = U, !.ctip = T]
  BY <1>9, <1>10, <1>11, <1>14, Zenon DEF delete_ctip
<1> QED
  BY <1>6, <1>8, <1>15 DEF WithTreasuryOf, C, T, U, V

\* diff::M5
LEMMA M5Undo ==
  ASSUME NEW db, NEW d, DbsInv(db), NewCtipsFit(db, d.new_ctips), d.type = "M5"
  PROVE  /\ DbsInv(ApplyM5(db, d))
         /\ ~UndoFails(ApplyM5(db, d), d)
         /\ UndoM5(ApplyM5(db, d), d) = db
<1> DEFINE new == d.new_ctips
           e == put_ctip(db, new)
<1>1. DbsInv(e)
  BY PutCtipKeeps
<1>2. DbsOK(db)
  BY DEF DbsInv
<1> HIDE DEF e, new
<1>3. e = put_ctip(db, new) /\ NewCtipsFit(db, new)
  BY DEF e, new
<1>4. /\ IsAfterPutCtip(db, new, e)
      /\ e.proposal_id_to_sidechain = db.proposal_id_to_sidechain
      /\ e.sidechain = db.sidechain /\ e.pending_m6ids = db.pending_m6ids
  BY <1>2, <1>3, PutCtipFields DEF IsAfterPutCtip
<1>5. /\ delete_ctip(e, DOMAIN new) = WithTreasuryOf(db, e)
      /\ \A s \in DOMAIN new : s \in DOMAIN e.ctip /\ e.treasury_utxo_count[s] # 0
  BY <1>3, <1>4, DeleteUndoesPutCtip
<1>6. delete_ctip(e, DOMAIN new) = db
  BY <1>1, <1>2, <1>4, <1>5, Zenon DEF DbsInv, DbsOK, WithTreasuryOf
<1>7. ~UndoFails(e, d)
  BY <1>5 DEF UndoFails, new
<1> QED
  BY <1>1, <1>3, <1>6, <1>7 DEF ApplyM5, UndoM5, new

\* diff::M6
LEMMA M6Undo ==
  ASSUME NEW db, NEW d, DbsInv(db), M6Fits(db, d), d.type = "M6"
  PROVE  /\ DbsInv(ApplyM6(db, d))
         /\ ~UndoFails(ApplyM6(db, d), d)
         /\ UndoM6(ApplyM6(db, d), d) = db
<1> DEFINE new == [s \in {d.slot} |-> d.new_ctip]
           x == put_ctip(db, new)
           P == db.pending_m6ids
           t == P[d.slot]
           F == IndexesOf(t, d.m6id)
           rem == RemoveIndexes(t, F)
           e == with_pending_withdrawals(x, d.slot, rem)
<1>1. /\ DbsOK(db) /\ NewCtipsFit(db, new) /\ DOMAIN new = {d.slot}
      /\ IsMap(P, Slot, Seq(Bundle)) /\ d.slot \in DOMAIN P
      /\ d.index \in F /\ d.info = t[d.index]
  BY DEF DbsInv, DbsOK, M6Fits
<1>2. t \in Seq(Bundle) /\ DistinctIds(t)
  BY <1>1 DEF DbsInv, LifecycleOK, DistinctIds, IsMap
<1>3. DbsInv(x)
  BY <1>1, PutCtipKeeps
<1> HIDE DEF new, x, P, t
<1>4. F = {d.index} /\ F \in SUBSET DOMAIN t
  BY <1>1, <1>2 DEF IndexesOf, DistinctIds
<1> HIDE DEF F
<1>5. rem \in Seq(Bundle) /\ DistinctIds(rem)
  <2>1. rem \in Seq(Bundle)
    BY <1>2, RemoveIndexesProperties, Zenon
  <2>2. DistinctIds(rem)
    BY <1>2, RemoveKeepsDistinct
  <2> QED BY <2>1, <2>2
<1>6. InsertIndexes(rem, [i \in {d.index} |-> d.info]) = t
  <2>1. [i \in {d.index} |-> d.info] = [i \in F |-> t[i]]
    BY <1>1, <1>4
  <2> QED BY <1>2, <1>4, <2>1, InsertUndoesRemove, Zenon
<1> HIDE DEF rem
<1>7. /\ x = put_ctip(db, new)
      /\ IsAfterPutCtip(db, new, x)
      /\ x.proposal_id_to_sidechain = db.proposal_id_to_sidechain
      /\ x.sidechain = db.sidechain /\ x.pending_m6ids = P
  <2>1. x = put_ctip(db, new)
    BY DEF x
  <2>2. DbsOK(db)
    BY <1>1
  <2> QED BY ONLY <2>1, <2>2, PutCtipFields DEF IsAfterPutCtip, P
<1>8. DbsInv(e)
  BY <1>1, <1>3, <1>5, <1>7, WithPendingWithdrawals
<1>9. e = [x EXCEPT !.pending_m6ids = Put(P, d.slot, rem)]
  BY <1>7 DEF with_pending_withdrawals
<1> HIDE DEF e
<1>10. /\ IsAfterPutCtip(db, new, e)
       /\ e.proposal_id_to_sidechain = db.proposal_id_to_sidechain
       /\ e.sidechain = db.sidechain /\ e.pending_m6ids = Put(P, d.slot, rem)
  BY <1>3, <1>7, <1>9 DEF DbsInv, DbsOK, IsAfterPutCtip
<1> DEFINE r == delete_ctip(e, {d.slot})
<1>11. /\ r = WithTreasuryOf(db, e)
       /\ d.slot \in DOMAIN e.ctip /\ e.treasury_utxo_count[d.slot] # 0
  <2>1. /\ delete_ctip(e, DOMAIN new) = WithTreasuryOf(db, e)
        /\ \A s \in DOMAIN new : s \in DOMAIN e.ctip /\ e.treasury_utxo_count[s] # 0
    <3>1. NewCtipsFit(db, new) /\ IsAfterPutCtip(db, new, e)
      BY <1>1, <1>10
    <3> QED BY ONLY DbsInv(db), <3>1, DeleteUndoesPutCtip, Zenon
  <2> QED BY <1>1, <2>1
<1> HIDE DEF r
<1>12. /\ r = [proposal_id_to_sidechain |-> db.proposal_id_to_sidechain,
               sidechain |-> db.sidechain,
               pending_m6ids |-> Put(P, d.slot, rem),
               ctip |-> db.ctip,
               ctip_outpoint_to_value_seq |-> db.ctip_outpoint_to_value_seq,
               slot_sequence_to_treasury_utxo |-> db.slot_sequence_to_treasury_utxo,
               treasury_utxo_count |-> db.treasury_utxo_count]
       /\ r.pending_m6ids = Put(P, d.slot, rem)
  BY <1>8, <1>10, <1>11, Zenon DEF DbsInv, DbsOK, WithTreasuryOf
<1>13. Put(P, d.slot, rem)[d.slot] = rem /\ d.slot \in DOMAIN Put(P, d.slot, rem)
  BY DEF Put
<1>14. Put(Put(P, d.slot, rem), d.slot, t) = P
  BY <1>1, PutUndoesPut DEF t
<1>15. UndoM6(e, d) = with_pending_withdrawals(r, d.slot, t)
  BY <1>6, <1>12, <1>13 DEF UndoM6, r
<1>16. with_pending_withdrawals(r, d.slot, t) = [r EXCEPT !.pending_m6ids = P]
  BY <1>12, <1>14 DEF with_pending_withdrawals
<1>17. [r EXCEPT !.pending_m6ids = P] = db
  BY <1>1, <1>12 DEF DbsOK, P
<1>18. ~UndoFails(e, d)
  BY <1>10, <1>11, <1>13 DEF UndoFails
<1>19. ApplyM6(db, d) = e
  BY <1>7 DEF ApplyM6, delete_pending_withdrawal, new, x, e, rem, t, F
<1> QED
  BY <1>8, <1>15, <1>16, <1>17, <1>18, <1>19

-----------------------------------------------------------------------------
\* Whatever diff the handlers return, if it fits the databases then applying
\* it keeps them consistent, undoing it right after never meets an UndoError,
\* and undoing it restores the databases exactly.
THEOREM UndoIsInverse ==
  ASSUME NEW db, DbsInv(db), NEW d, Fits(db, d), NEW height \in Nat
  PROVE  /\ DbsInv(Apply(db, d, height))
         /\ ~UndoFails(Apply(db, d, height), d)
         /\ Undo(Apply(db, d, height), d) = db
<1>1. CASE d.type = "NewSidechainProposal" /\ NewSidechainProposalFits(db, d)
  BY <1>1, NewSidechainProposalUndo DEF Apply, Undo, UndoFails
<1>2. CASE d.type = "AckSidechainProposal" /\ AckSidechainProposalFits(db, d)
  BY <1>2, AckSidechainProposalUndo DEF Apply, Undo
<1>3. CASE d.type = "ProposeBundle" /\ ProposeBundleFits(db, d)
  BY <1>3, ProposeBundleUndo DEF Apply, Undo
<1>4. CASE d.type = "AckBundles" /\ AckBundlesFits(db, d)
  BY <1>4, AckBundlesUndo DEF Apply, Undo
<1>5. CASE d.type = "FailedProposals" /\ FailedProposalsFits(db, d)
  BY <1>5, FailedProposalsUndo DEF Apply, Undo, UndoFails
<1>6. CASE d.type = "FailedM6ids" /\ FailedM6idsFits(db, d)
  BY <1>6, FailedM6idsUndo DEF Apply, Undo
<1>7. CASE d.type = "M5" /\ NewCtipsFit(db, d.new_ctips)
  BY <1>7, M5Undo DEF Apply, Undo
<1>8. CASE d.type = "M6" /\ M6Fits(db, d)
  BY <1>8, M6Undo DEF Apply, Undo
<1> QED
  BY <1>1, <1>2, <1>3, <1>4, <1>5, <1>6, <1>7, <1>8 DEF Fits

-----------------------------------------------------------------------------
(***************************************************************************)
(* The diffs of the handlers fit.                                          *)
(***************************************************************************)

\* A handler's result: no diff, or one that fits.
AllFit(db, diffs) == diffs = <<>> \/ (diffs # <<>> /\ Fits(db, diffs[1]))

\* The databases after a handler's result.
AppliedAny(db, diffs, h) == IF diffs = <<>> THEN db ELSE Apply(db, diffs[1], h)

\* handle_m1_propose_sidechain
LEMMA M1Fits ==
  ASSUME NEW db, DbsInv(db), NEW height \in Nat, NEW slot \in Slot,
         NEW desc \in Description
  PROVE  AllFit(db, handle_m1_propose_sidechain(db, height, slot, desc))
<1> DEFINE d == [type |-> "NewSidechainProposal", id |-> <<slot, desc>>,
                 sidechain |-> [desc |-> desc, vote_count |-> 0,
                                proposal_height |-> height,
                                activation_height |-> 0]]
<1>1. CASE <<slot, desc>> \in DOMAIN db.proposal_id_to_sidechain
  BY <1>1 DEF AllFit, handle_m1_propose_sidechain
<1>2. CASE <<slot, desc>> \notin DOMAIN db.proposal_id_to_sidechain
  <2>1. handle_m1_propose_sidechain(db, height, slot, desc) = <<d>>
    BY <1>2 DEF handle_m1_propose_sidechain
  <2>2. Fits(db, d)
    BY <1>2 DEF Fits, NewSidechainProposalFits, ProposalId, Sidechain
  <2> HIDE DEF d
  <2> QED BY <2>1, <2>2 DEF AllFit
<1> QED
  BY <1>1, <1>2

\* handle_m2_ack_sidechain
LEMMA M2Fits ==
  ASSUME NEW db, DbsInv(db), NEW height \in Nat, NEW slot \in Slot,
         NEW desc \in Description
  PROVE  AllFit(db, handle_m2_ack_sidechain(db, height, slot, desc))
<1> DEFINE id == <<slot, desc>>
           acked == db.proposal_id_to_sidechain[id]
           activates == /\ acked.vote_count + 1 > ActivationThreshold(db, slot)
                        /\ SatSub(height, acked.proposal_height)
                             <= ProposalMaxAge(db, slot)
           d == [type |-> "AckSidechainProposal", id |-> id,
                 effect |-> CASE ~activates -> "NoActivation"
                              [] activates /\ SlotIsUsed(db, slot) -> "ReplaceActive"
                              [] activates /\ ~SlotIsUsed(db, slot) -> "SlotActivation",
                 replaced |-> IF activates /\ SlotIsUsed(db, slot)
                              THEN {db.sidechain[slot]} ELSE {}]
<1>1. CASE id \notin DOMAIN db.proposal_id_to_sidechain \/ acked.proposal_height = height
  BY <1>1 DEF AllFit, handle_m2_ack_sidechain
<1>2. CASE id \in DOMAIN db.proposal_id_to_sidechain /\ acked.proposal_height # height
  <2>1. handle_m2_ack_sidechain(db, height, slot, desc) = <<d>>
    BY <1>2, Zenon DEF handle_m2_ack_sidechain
  <2> HIDE DEF activates, acked
  <2>2. d.type = "AckSidechainProposal" /\ d.id = id /\ d.id[1] = slot
    OBVIOUS
  <2>3. AckSidechainProposalFits(db, d)
    <3>1. CASE ~activates
      BY <1>2, <3>1 DEF AckSidechainProposalFits
    <3>2. CASE activates /\ SlotIsUsed(db, slot)
      BY <1>2, <3>2 DEF AckSidechainProposalFits, SlotIsUsed
    <3>3. CASE activates /\ ~SlotIsUsed(db, slot)
      BY <1>2, <3>3 DEF AckSidechainProposalFits, SlotIsUsed
    <3> QED BY <3>1, <3>2, <3>3
  <2> HIDE DEF d
  <2>4. Fits(db, d)
    BY ONLY <2>2, <2>3 DEF Fits
  <2> QED BY ONLY <2>1, <2>4 DEF AllFit
<1> QED
  BY <1>1, <1>2

\* handle_failed_sidechain_proposals
LEMMA FailedSidechainProposalsFit ==
  ASSUME NEW db, DbsInv(db), NEW height \in Nat
  PROVE  Fits(db, handle_failed_sidechain_proposals(db, height))
<1> DEFINE d == handle_failed_sidechain_proposals(db, height)
           F == {id \in DOMAIN db.proposal_id_to_sidechain :
                   ProposalFailed(db, height, id)}
<1>1. d.type = "FailedProposals" /\ d.failed = Restrict(db.proposal_id_to_sidechain, F)
  BY DEF handle_failed_sidechain_proposals
<1>2. DOMAIN d.failed = F
  BY <1>1 DEF Restrict
<1>3. F \subseteq DOMAIN db.proposal_id_to_sidechain
  OBVIOUS
<1> HIDE DEF d, F
<1>4. FailedProposalsFits(db, d)
  BY <1>1, <1>2, <1>3 DEF FailedProposalsFits
<1> QED
  BY <1>1, <1>4 DEF Fits, d

\* handle_m3_propose_bundle
LEMMA M3Fits ==
  ASSUME NEW db, DbsInv(db), NEW slot \in Slot, NEW m6id \in M6id,
         ~M3Rejected(db, slot, m6id)
  PROVE  Fits(db, handle_m3_propose_bundle(slot, m6id))
BY DEF DbsInv, LifecycleOK, M3Rejected, handle_m3_propose_bundle, Fits,
       ProposeBundleFits

-----------------------------------------------------------------------------
(***************************************************************************)
(* M4.                                                                     *)
(***************************************************************************)

\* What a set of M4 actions must satisfy for its diff to fit.
ActionsFit(db, actions) ==
  /\ DOMAIN actions \subseteq DOMAIN db.pending_m6ids
  /\ \A s \in DOMAIN actions :
       \/ actions[s] = Alarm(db.pending_m6ids[s])
       \/ \E i \in DOMAIN db.pending_m6ids[s] :
            actions[s] = Upvote(db.pending_m6ids[s], db.pending_m6ids[s][i].m6id)

\* downvoted_others_for_upvote and positive_votes_proposals_for_alarm record
\* just the bundles whose votes go down.
LEMMA ActionsFitDiff ==
  ASSUME NEW db, NEW actions, ActionsFit(db, actions)
  PROVE  Fits(db, [type |-> "AckBundles", actions |-> actions])
<1> DEFINE d == [type |-> "AckBundles", actions |-> actions]
<1>1. d.type = "AckBundles" /\ d.actions = actions
  OBVIOUS
<1> HIDE DEF d
<1>2. ASSUME NEW s \in DOMAIN actions
      PROVE  LET a == actions[s]
                 pending == db.pending_m6ids[s]
             IN  \/ a.kind = "Alarm" /\ a.positive_votes_proposals = PositiveIds(pending)
                 \/ /\ a.kind = "Upvote" /\ a.m6id \in PendingIds(pending)
                    /\ a.downvoted_others = PositiveIds(pending) \ {a.m6id}
  <2> DEFINE pending == db.pending_m6ids[s]
             a == actions[s]
  <2>1. CASE a = Alarm(pending)
    BY <2>1 DEF Alarm, positive_votes_proposals_for_alarm, PositiveIds
  <2>2. ASSUME NEW i \in DOMAIN pending, a = Upvote(pending, pending[i].m6id)
        PROVE  /\ a.kind = "Upvote" /\ a.m6id \in PendingIds(pending)
               /\ a.downvoted_others = PositiveIds(pending) \ {a.m6id}
    <3> DEFINE m == pending[i].m6id
    <3>1. a.kind = "Upvote" /\ a.m6id = m
          /\ a.downvoted_others = downvoted_others_for_upvote(pending, m)
      BY <2>2 DEF Upvote
    <3>2. m \in PendingIds(pending)
      BY <2>2 DEF PendingIds
    <3> HIDE DEF m, a, pending
    <3>3. downvoted_others_for_upvote(pending, m) = PositiveIds(pending) \ {m}
      BY DEF downvoted_others_for_upvote, PositiveIds
    <3> QED BY <3>1, <3>2, <3>3
  <2> QED BY <2>1, <2>2 DEF ActionsFit
<1>3. AckBundlesFits(db, d)
  BY <1>1, <1>2 DEF AckBundlesFits, ActionsFit
<1> QED
  BY <1>1, <1>3 DEF Fits, d

\* handle_m4_votes
LEMMA VotesFit ==
  ASSUME NEW db, DbsInv(db), NEW upvotes
  PROVE  ActionsFit(db, handle_m4_votes(db, upvotes))
<1> DEFINE vote(s) == upvotes[VoteIndex(db, s)]
           pending(s) == db.pending_m6ids[s]
           voted == {s \in ActiveSlots(db) :
                       CASE vote(s) = AbstainTwoBytes -> FALSE
                         [] vote(s) = AlarmTwoBytes -> AlarmCounts(pending(s))
                         [] OTHER -> UpvoteCounts(pending(s), vote(s) + 1)}
           actions == [s \in voted |->
                         IF vote(s) = AlarmTwoBytes
                         THEN Alarm(pending(s))
                         ELSE Upvote(pending(s), pending(s)[vote(s) + 1].m6id)]
<1>1. handle_m4_votes(db, upvotes) = actions
  BY DEF handle_m4_votes
<1>2. voted \subseteq DOMAIN db.pending_m6ids
  BY DEF DbsInv, LifecycleOK, ActiveSlots
<1>3. ASSUME NEW s \in voted, vote(s) # AlarmTwoBytes
      PROVE  vote(s) + 1 \in DOMAIN pending(s)
  BY <1>3 DEF UpvoteCounts, AbstainTwoBytes, AlarmTwoBytes
<1>4. DOMAIN actions = voted
  OBVIOUS
<1>5. ASSUME NEW s \in voted
      PROVE  \/ actions[s] = Alarm(db.pending_m6ids[s])
             \/ \E i \in DOMAIN db.pending_m6ids[s] :
                  actions[s] = Upvote(db.pending_m6ids[s], db.pending_m6ids[s][i].m6id)
  <2>1. CASE vote(s) = AlarmTwoBytes
    BY <2>1
  <2>2. CASE vote(s) # AlarmTwoBytes
    <3> DEFINE i == vote(s) + 1
    <3>1. i \in DOMAIN pending(s)
      BY <1>3, <2>2
    <3>2. actions[s] = Upvote(pending(s), pending(s)[i].m6id)
      BY <2>2
    <3> QED BY <3>1, <3>2, Zenon
  <2> QED BY <2>1, <2>2, Zenon
<1> HIDE DEF actions, voted
<1> QED
  BY <1>1, <1>2, <1>4, <1>5 DEF ActionsFit

\* handle_m4_leading_by_50
LEMMA LeadingFit ==
  ASSUME NEW db, DbsInv(db)
  PROVE  ActionsFit(db, handle_m4_leading_by_50(db))
<1> DEFINE pending(s) == db.pending_m6ids[s]
           leaders(s) == {i \in DOMAIN pending(s) :
                            LeadsBy50(pending(s), i) /\ UpvoteCounts(pending(s), i)}
           led == {t \in ActiveSlots(db) : leaders(t) # {}}
           leader(s) == CHOOSE i \in leaders(s) : TRUE
           actions == [s \in led |-> Upvote(pending(s), pending(s)[leader(s)].m6id)]
<1>1. handle_m4_leading_by_50(db) = actions
  BY DEF handle_m4_leading_by_50
<1>2. led \subseteq DOMAIN db.pending_m6ids
  BY DEF DbsInv, LifecycleOK, ActiveSlots
<1>3. ASSUME NEW s \in led
      PROVE  leader(s) \in DOMAIN pending(s)
  <2>1. leaders(s) # {} /\ leaders(s) \subseteq DOMAIN pending(s)
    OBVIOUS
  <2> HIDE DEF leaders
  <2> QED BY <2>1
<1> HIDE DEF leaders, led, leader
<1> QED
  BY <1>1, <1>2, <1>3 DEF ActionsFit

\* handle_m4_repeat_previous, whatever the parent's actions were.
LEMMA RepeatFit ==
  ASSUME NEW db, DbsInv(db), NEW prev
  PROVE  ActionsFit(db, handle_m4_repeat_previous(db, prev))
<1> DEFINE pending(s) == db.pending_m6ids[s]
           repeated == {s \in DOMAIN prev \cap DOMAIN db.pending_m6ids :
                          IF prev[s].kind = "Alarm"
                          THEN AlarmCounts(pending(s))
                          ELSE \E i \in IndexesOf(pending(s), prev[s].m6id) :
                                 UpvoteCounts(pending(s), i)}
           actions == [s \in repeated |-> IF prev[s].kind = "Alarm"
                                          THEN Alarm(pending(s))
                                          ELSE Upvote(pending(s), prev[s].m6id)]
<1>1. handle_m4_repeat_previous(db, prev) = actions
  BY DEF handle_m4_repeat_previous
<1>2. ASSUME NEW s \in repeated, prev[s].kind # "Alarm"
      PROVE  \E i \in DOMAIN pending(s) : prev[s].m6id = pending(s)[i].m6id
  BY <1>2 DEF IndexesOf
<1>3. repeated \subseteq DOMAIN db.pending_m6ids /\ DOMAIN actions = repeated
  OBVIOUS
<1>4. ASSUME NEW s \in repeated
      PROVE  \/ actions[s] = Alarm(db.pending_m6ids[s])
             \/ \E i \in DOMAIN db.pending_m6ids[s] :
                  actions[s] = Upvote(db.pending_m6ids[s], db.pending_m6ids[s][i].m6id)
  <2>1. CASE prev[s].kind = "Alarm"
    BY <2>1
  <2>2. CASE prev[s].kind # "Alarm"
    <3>1. PICK i \in DOMAIN pending(s) : prev[s].m6id = pending(s)[i].m6id
      BY <1>2, <2>2
    <3>2. actions[s] = Upvote(pending(s), prev[s].m6id)
      BY <2>2
    <3> QED BY <3>1, <3>2
  <2> QED BY <2>1, <2>2, Zenon
<1> HIDE DEF actions, repeated
<1> QED
  BY <1>1, <1>3, <1>4 DEF ActionsFit

\* handle_m4_ack_bundles, for every encoding.
LEMMA M4Fits ==
  ASSUME NEW db, DbsInv(db), NEW prev, NEW m4,
         m4.version \in {"LeadingBy50", "RepeatPrevious", "OneByte", "TwoBytes"}
  PROVE  AllFit(db, handle_m4_ack_bundles(db, prev, m4))
<1> DEFINE actions ==
             CASE m4.version = "LeadingBy50" -> handle_m4_leading_by_50(db)
               [] m4.version = "RepeatPrevious" -> handle_m4_repeat_previous(db, prev)
               [] m4.version = "OneByte" -> handle_m4_votes(db, Widened(m4.upvotes))
               [] m4.version = "TwoBytes" -> handle_m4_votes(db, m4.upvotes)
           d == [type |-> "AckBundles", actions |-> actions]
<1>1. ActionsFit(db, actions)
  <2>1. CASE m4.version = "LeadingBy50"
    BY <2>1, LeadingFit
  <2>2. CASE m4.version = "RepeatPrevious"
    BY <2>2, RepeatFit
  <2>3. CASE m4.version = "OneByte"
    BY <2>3, VotesFit
  <2>4. CASE m4.version = "TwoBytes"
    BY <2>4, VotesFit
  <2> QED BY <2>1, <2>2, <2>3, <2>4
<1>2. handle_m4_ack_bundles(db, prev, m4) = IF DOMAIN actions = {} THEN <<>> ELSE <<d>>
  BY DEF handle_m4_ack_bundles
<1> HIDE DEF actions
<1>3. Fits(db, d)
  BY <1>1, ActionsFitDiff
<1> HIDE DEF d
<1> QED
  BY <1>2, <1>3 DEF AllFit

\* handle_failed_m6ids
LEMMA FailedBundlesFit ==
  ASSUME NEW db, DbsInv(db), NEW height \in Nat
  PROVE  Fits(db, handle_failed_m6ids(db, height))
<1> DEFINE old(s) == {i \in DOMAIN db.pending_m6ids[s] :
                        SatSub(height, db.pending_m6ids[s][i].proposal_height)
                          > WithdrawalBundleMaxAge}
           F == {t \in ActiveSlots(db) : old(t) # {}}
           failed == [s \in F |-> Restrict(db.pending_m6ids[s], old(s))]
           d == handle_failed_m6ids(db, height)
<1>1. d.type = "FailedM6ids" /\ d.failed = failed
  BY DEF handle_failed_m6ids
<1>2. F \subseteq DOMAIN db.pending_m6ids
  BY DEF DbsInv, LifecycleOK, ActiveSlots
<1>3. \A s \in F : old(s) \subseteq DOMAIN db.pending_m6ids[s]
  OBVIOUS
<1> HIDE DEF old, F, d
<1>4. \A s \in F : /\ failed[s] = Restrict(db.pending_m6ids[s], old(s))
                   /\ DOMAIN failed[s] = old(s)
  BY DEF Restrict
<1>5. DOMAIN failed = F
  OBVIOUS
<1> HIDE DEF failed
<1>6. FailedM6idsFits(db, d)
  BY <1>1, <1>2, <1>3, <1>4, <1>5 DEF FailedM6idsFits
<1> QED
  BY <1>1, <1>6 DEF Fits, d

-----------------------------------------------------------------------------
(***************************************************************************)
(* M5 and M6.                                                              *)
(***************************************************************************)

\* txid is the id of no transaction that made a treasury output.
FreshFor(db, txid) ==
  /\ txid \in Txid
  /\ \A o \in DOMAIN db.ctip_outpoint_to_value_seq : o[1] # txid

\* The treasury output of a slot is one of the transaction's outputs.
LEMMA NewCtipType ==
  ASSUME NEW db, NEW tx, tx.outs \in Seq(TxOut), NEW txid \in Txid,
         NEW s \in TxSlots(db, tx)
  PROVE  /\ NewCtip(db, tx, txid, s) \in Ctip
         /\ NewCtip(db, tx, txid, s).outpoint[1] = txid
         /\ NewCtip(db, tx, txid, s).outpoint[2] \in DOMAIN tx.outs
         /\ tx.outs[NewCtip(db, tx, txid, s).outpoint[2]].slot = s
         /\ s \in DOMAIN db.sidechain
<1> DEFINE i == CHOOSE k \in TreasuryOutputs(db, tx, s) : TRUE
<1>1. i \in TreasuryOutputs(db, tx, s)
  BY DEF TxSlots
<1>2. i \in DOMAIN tx.outs /\ tx.outs[i].slot = s /\ s \in DOMAIN db.sidechain
  BY <1>1 DEF TreasuryOutputs
<1>3. NewCtip(db, tx, txid, s) = [outpoint |-> <<txid, i>>, value |-> tx.outs[i].value]
  BY DEF NewCtip, TreasuryOutput
<1> HIDE DEF i
<1>4. i \in Nat /\ tx.outs[i].value \in Nat
  <2> DEFINE outs == tx.outs
  <2>1. outs \in Seq(TxOut) /\ i \in DOMAIN outs
    BY <1>2
  <2> HIDE DEF outs
  <2>2. i \in Nat /\ outs[i] \in TxOut
    BY <2>1
  <2> QED BY <2>2 DEF TxOut, outs
<1> DEFINE c == NewCtip(db, tx, txid, s)
           o == <<txid, i>>
<1>5. o \in Outpoint /\ o[1] = txid /\ o[2] = i
  BY <1>4 DEF Outpoint
<1>6. c.outpoint = o /\ c = [outpoint |-> o, value |-> tx.outs[i].value]
  BY <1>3
<1> HIDE DEF c, o
<1>7. c \in Ctip
  BY <1>4, <1>5, <1>6 DEF Ctip
<1> QED
  BY <1>2, <1>5, <1>6, <1>7 DEF c

\* New treasury outputs have outpoints of their own.
LEMMA NewCtipsOfTxFit ==
  ASSUME NEW db, NEW tx, tx.outs \in Seq(TxOut), NEW txid, FreshFor(db, txid),
         NEW S \in SUBSET TxSlots(db, tx)
  PROVE  NewCtipsFit(db, [s \in S |-> NewCtip(db, tx, txid, s)])
<1> DEFINE new == [s \in S |-> NewCtip(db, tx, txid, s)]
<1>1. DOMAIN new = S /\ S \subseteq Slot
  BY DEF TxSlots
<1>2. \A s \in S : /\ new[s] \in Ctip
                   /\ new[s].outpoint[1] = txid
                   /\ tx.outs[new[s].outpoint[2]].slot = s
  BY NewCtipType DEF FreshFor
<1>3. new \in [DOMAIN new -> Ctip]
  BY <1>2
<1> HIDE DEF new
<1>4. IsMap(new, Slot, Ctip)
  BY <1>1, <1>3 DEF IsMap
<1>5. \A s \in S : new[s].outpoint \notin DOMAIN db.ctip_outpoint_to_value_seq
  BY <1>2 DEF FreshFor
<1>6. ASSUME NEW s \in S, NEW t \in S, new[s].outpoint = new[t].outpoint
      PROVE  s = t
  BY <1>2, <1>6
<1> QED
  BY <1>1, <1>4, <1>5, <1>6 DEF NewCtipsFit, new

\* handle_m5_m6
LEMMA TransactionFits ==
  ASSUME NEW db, DbsInv(db), NEW uncons, NEW tx, tx.outs \in Seq(TxOut),
         NEW txid, FreshFor(db, txid), NEW req, ~M5M6Rejected(db, uncons, tx, req)
  PROVE  AllFit(db, handle_m5_m6(db, uncons, tx, txid))
<1> DEFINE isM6(s) == IsM6(db, uncons, tx, s)
           slots == TxSlots(db, tx)
           m6 == CHOOSE s \in slots : isM6(s)
<1>1. CASE slots = {}
  BY <1>1 DEF handle_m5_m6, AllFit
<1>2. CASE slots # {} /\ \E s \in slots : isM6(s)
  <2> DEFINE d == M6Diff(db, uncons, tx, txid, m6)
             index == CHOOSE i \in M6Indexes(db, uncons, tx, m6) : TRUE
  <2>1. handle_m5_m6(db, uncons, tx, txid) = <<d>>
    BY <1>2 DEF handle_m5_m6
  <2>2. m6 \in slots /\ isM6(m6)
    BY <1>2
  <2>3. M6Indexes(db, uncons, tx, m6) # {}
    BY <2>2 DEF M5M6Rejected, M6Rejected
  <2>4. index \in IndexesOf(db.pending_m6ids[m6], tx.payout)
    BY <2>3, Zenon DEF M6Indexes
  <2>5. m6 \in DOMAIN db.pending_m6ids
    BY <2>2 DEF DbsInv, LifecycleOK, TxSlots, TreasuryOutputs
  <2>6. /\ d.type = "M6" /\ d.slot = m6 /\ d.new_ctip = NewCtip(db, tx, txid, m6)
        /\ d.m6id = tx.payout /\ d.index = index
        /\ d.info = db.pending_m6ids[m6][index]
    BY Zenon DEF M6Diff
  <2> HIDE DEF d, index, m6
  <2>7. NewCtipsFit(db, [s \in {m6} |-> NewCtip(db, tx, txid, s)])
    BY <2>2, NewCtipsOfTxFit
  <2>8. [s \in {m6} |-> NewCtip(db, tx, txid, s)] = [s \in {d.slot} |-> d.new_ctip]
    BY <2>6
  <2>9. M6Fits(db, d)
    BY <2>4, <2>5, <2>6, <2>7, <2>8 DEF M6Fits
  <2> QED
    <3>1. Fits(db, d)
      BY ONLY <2>6, <2>9 DEF Fits
    <3> QED BY ONLY <2>1, <3>1 DEF AllFit
<1>3. CASE slots # {} /\ ~(\E s \in slots : isM6(s))
  <2> DEFINE d == M5Diff(db, tx, txid)
             S == {t \in slots : ReplacesCtip(db, tx, t)}
  <2>1. handle_m5_m6(db, uncons, tx, txid) = <<d>>
    BY <1>3 DEF handle_m5_m6
  <2>2. d.type = "M5" /\ d.new_ctips = [s \in S |-> NewCtip(db, tx, txid, s)]
    BY DEF M5Diff
  <2>3. S \in SUBSET TxSlots(db, tx)
    OBVIOUS
  <2> HIDE DEF d, S
  <2>4. NewCtipsFit(db, d.new_ctips)
    BY <2>2, <2>3, NewCtipsOfTxFit
  <2> QED
    <3>1. Fits(db, d)
      BY ONLY <2>2, <2>4 DEF Fits
    <3> QED BY ONLY <2>1, <3>1 DEF AllFit
<1> QED
  BY <1>1, <1>2, <1>3

\* The unconsolidated outputs keep their type.
LEMMA UnconsAfterType ==
  ASSUME NEW db, NEW uncons, NEW tx, tx.outs \in Seq(TxOut), NEW txid \in Txid,
         IsMap(uncons, Outpoint, [slot : Slot, value : Nat])
  PROVE  IsMap(UnconsAfter(db, uncons, tx, txid), Outpoint, [slot : Slot, value : Nat])
<1> DEFINE spent == UNION {UnconsolidatedInputs(db, uncons, tx, s) : s \in Slot}
           waiting == {s \in TxSlots(db, tx) : ~ReplacesCtip(db, tx, s)}
           O == {NewCtip(db, tx, txid, s).outpoint : s \in waiting}
           slotOf(o) == CHOOSE s \in waiting : NewCtip(db, tx, txid, s).outpoint = o
           g == [o \in O |-> [slot |-> slotOf(o),
                              value |-> NewCtip(db, tx, txid, slotOf(o)).value]]
<1>1. UnconsAfter(db, uncons, tx, txid) = PutAll(Delete(uncons, spent), g)
  BY DEF UnconsAfter
<1>2. waiting \subseteq TxSlots(db, tx) /\ TxSlots(db, tx) \subseteq Slot
  BY DEF TxSlots
<1> HIDE DEF waiting
<1>3. \A s \in waiting : NewCtip(db, tx, txid, s) \in Ctip
  BY <1>2, NewCtipType
<1>4. O \subseteq Outpoint
  BY <1>3 DEF Ctip
<1>5. \A o \in O : slotOf(o) \in waiting
  OBVIOUS
<1> HIDE DEF slotOf
<1>6. \A o \in O : g[o] \in [slot : Slot, value : Nat]
  BY <1>2, <1>3, <1>5 DEF Ctip
<1>7. DOMAIN g = O /\ g \in [DOMAIN g -> [slot : Slot, value : Nat]]
  BY <1>6, Zenon
<1> HIDE DEF g, O, spent
<1>8. IsMap(g, Outpoint, [slot : Slot, value : Nat])
  BY <1>4, <1>7 DEF IsMap
<1> DEFINE V == [slot : Slot, value : Nat]
           kept == Delete(uncons, spent)
<1> HIDE DEF V
<1>9. IsMap(uncons, Outpoint, V) /\ IsMap(g, Outpoint, V)
  BY <1>8 DEF V
<1>10. IsMap(kept, Outpoint, V)
  BY <1>9, DeleteType, Zenon
<1> HIDE DEF kept
<1>11. IsMap(PutAll(kept, g), Outpoint, V)
  BY <1>9, <1>10, PutAllType, Zenon
<1> QED
  BY <1>1, <1>11 DEF V, kept
=============================================================================
