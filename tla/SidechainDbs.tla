---------------------------- MODULE SidechainDbs ----------------------------
(***************************************************************************)
(* The consensus databases of the validator (lib/validator/dbs/mod.rs) as  *)
(* one record, and the operations that write them.  A key-value database   *)
(* is a function whose domain is the set of keys present.                  *)
(*                                                                         *)
(*   proposal_id_to_sidechain  <<slot, description>> -> sidechain          *)
(*   sidechain                 slot -> active sidechain                    *)
(*   pending_m6ids             slot -> bundles, oldest first               *)
(*   ctip                      slot -> current treasury output             *)
(*   ctip_outpoint_to_value_seq  outpoint -> slot, value, sequence number  *)
(*   slot_sequence_to_treasury_utxo  <<slot, seq>> -> treasury output      *)
(*   treasury_utxo_count       slot -> how many treasury outputs so far    *)
(*                                                                         *)
(* A description stands for its hash.  An activation height of 0 stands    *)
(* for None, and a treasury_utxo_count of 0 for an absent key (the code    *)
(* stores a NonZeroU64).                                                   *)
(***************************************************************************)
EXTENDS Integers, Sequences, FiniteSets, Functions

CONSTANTS
  Slot,          \* sidechain numbers; M4 votes list the active ones in order
  Description,   \* sidechain descriptions
  M6id,          \* blinded withdrawal bundle ids
  Txid           \* ids of transactions that create treasury outputs

ASSUME SlotAssumption == Slot \subseteq Nat /\ IsFiniteSet(Slot)

ProposalId == Slot \X Description

Outpoint == Txid \X Nat

Sidechain == [desc : Description, vote_count : Nat,
              proposal_height : Nat, activation_height : Nat]

Bundle == [m6id : M6id, vote_count : Nat, proposal_height : Nat]

Ctip == [outpoint : Outpoint, value : Nat]

ValueSeq == [slot : Slot, value : Nat, seq : Nat]

TreasuryUtxo == [outpoint : Outpoint, total_value : Nat,
                 previous_total_value : Nat]

\* f is the contents of a database with keys in K and values in V.
IsMap(f, K, V) == DOMAIN f \subseteq K /\ f \in [DOMAIN f -> V]

DbsOK(db) ==
  /\ db = [proposal_id_to_sidechain |-> db.proposal_id_to_sidechain,
           sidechain |-> db.sidechain,
           pending_m6ids |-> db.pending_m6ids,
           ctip |-> db.ctip,
           ctip_outpoint_to_value_seq |-> db.ctip_outpoint_to_value_seq,
           slot_sequence_to_treasury_utxo |-> db.slot_sequence_to_treasury_utxo,
           treasury_utxo_count |-> db.treasury_utxo_count]
  /\ IsMap(db.proposal_id_to_sidechain, ProposalId, Sidechain)
  /\ IsMap(db.sidechain, Slot, Sidechain)
  /\ IsMap(db.pending_m6ids, Slot, Seq(Bundle))
  /\ IsMap(db.ctip, Slot, Ctip)
  /\ IsMap(db.ctip_outpoint_to_value_seq, Outpoint, ValueSeq)
  /\ IsMap(db.slot_sequence_to_treasury_utxo, Slot \X Nat, TreasuryUtxo)
  /\ db.treasury_utxo_count \in [Slot -> Nat]

EmptyMap == [k \in {} |-> k]

EmptyDbs == [proposal_id_to_sidechain |-> EmptyMap,
             sidechain |-> EmptyMap,
             pending_m6ids |-> EmptyMap,
             ctip |-> EmptyMap,
             ctip_outpoint_to_value_seq |-> EmptyMap,
             slot_sequence_to_treasury_utxo |-> EmptyMap,
             treasury_utxo_count |-> [s \in Slot |-> 0]]

(***************************************************************************)
(* Database writes: put one key, delete some keys, put many keys.          *)
(***************************************************************************)
Put(f, k, v) == [x \in DOMAIN f \cup {k} |-> IF x = k THEN v ELSE f[x]]

Delete(f, K) == Restrict(f, DOMAIN f \ K)

PutAll(f, g) == [x \in DOMAIN f \cup DOMAIN g |->
                   IF x \in DOMAIN g THEN g[x] ELSE f[x]]

SatSub(a, b) == IF a >= b THEN a - b ELSE 0

(***************************************************************************)
(* The pending bundles of a sidechain are an OrderMap: removing entries    *)
(* shifts the later ones down, inserting at an index shifts them up.       *)
(***************************************************************************)

\* The k-th smallest element of S, a finite set of integers.
Nth(S, k) == CHOOSE i \in S : Cardinality({j \in S : j <= i}) = k

\* t without the entries at the indexes F.
RemoveIndexes(t, F) ==
  LET keep == DOMAIN t \ F
  IN  [k \in 1..Cardinality(keep) |-> t[Nth(keep, k)]]

\* Mutant of InsertIndexes: the entries come back at the end.
InsertIndexes_Appends(s, removed) ==
  s \o [k \in 1..Cardinality(DOMAIN removed) |-> removed[Nth(DOMAIN removed, k)]]

\* s with the entries of `removed` put back at their indexes.
InsertIndexes(s, removed) ==
  LET before(i) == {j \in DOMAIN removed : j < i}
  IN  [i \in 1..(Len(s) + Cardinality(DOMAIN removed)) |->
         IF i \in DOMAIN removed THEN removed[i]
                                 ELSE s[i - Cardinality(before(i))]]

IndexesOf(t, m6id) == {i \in DOMAIN t : t[i].m6id = m6id}

PendingIds(t) == {t[i].m6id : i \in DOMAIN t}

(***************************************************************************)
(* ActiveSidechainDbs.                                                     *)
(***************************************************************************)
put_sidechain(db, s, sidechain) ==
  [db EXCEPT
     !.pending_m6ids = IF s \in DOMAIN @ THEN @ ELSE Put(@, s, <<>>),
     !.sidechain = Put(@, s, sidechain)]

delete_sidechain(db, s) ==
  [db EXCEPT !.pending_m6ids = Delete(@, {s}), !.sidechain = Delete(@, {s})]

with_pending_withdrawals(db, s, pending) ==
  [db EXCEPT !.pending_m6ids = Put(@, s, pending)]

\* A bundle that is pending already would start over, in its old place.
put_pending_m6id(db, s, m6id, height) ==
  LET pending == db.pending_m6ids[s]
      fresh == [m6id |-> m6id, vote_count |-> 1, proposal_height |-> height]
  IN  with_pending_withdrawals(db, s,
        IF m6id \in PendingIds(pending)
        THEN [i \in DOMAIN pending |->
                IF pending[i].m6id = m6id THEN fresh ELSE pending[i]]
        ELSE Append(pending, fresh))

delete_pending_withdrawal(db, s, m6id) ==
  LET pending == db.pending_m6ids[s]
  IN  with_pending_withdrawals(db, s,
        RemoveIndexes(pending, IndexesOf(pending, m6id)))

\* put_ctip, for every slot in the domain of new.
put_ctip(db, new) ==
  LET S == DOMAIN new
      seq(s) == db.treasury_utxo_count[s]
      old(s) == IF s \in DOMAIN db.ctip THEN db.ctip[s].value ELSE 0
      slotOf(o) == CHOOSE s \in S : new[s].outpoint = o
  IN  [db EXCEPT
         !.slot_sequence_to_treasury_utxo =
            PutAll(@, [k \in {<<s, seq(s)>> : s \in S} |->
                         [outpoint |-> new[k[1]].outpoint,
                          total_value |-> new[k[1]].value,
                          previous_total_value |-> old(k[1])]]),
         !.treasury_utxo_count =
            [s \in Slot |-> IF s \in S THEN @[s] + 1 ELSE @[s]],
         !.ctip = PutAll(@, new),
         !.ctip_outpoint_to_value_seq =
            PutAll(@, [o \in {new[s].outpoint : s \in S} |->
                         [slot |-> slotOf(o), value |-> new[slotOf(o)].value,
                          seq |-> seq(slotOf(o))]])]

\* delete_ctip, for every slot in S: the previous treasury output, if there
\* is one, is the ctip again.
delete_ctip(db, S) ==
  LET last(s) == db.treasury_utxo_count[s] - 1
      prev(s) == db.slot_sequence_to_treasury_utxo[<<s, last(s) - 1>>]
      hasPrev == {s \in S : last(s) > 0}
  IN  [db EXCEPT
         !.ctip_outpoint_to_value_seq =
            Delete(@, {db.ctip[s].outpoint : s \in S}),
         !.treasury_utxo_count =
            [s \in Slot |-> IF s \in S THEN last(s) ELSE @[s]],
         !.slot_sequence_to_treasury_utxo =
            Delete(@, {<<s, last(s)>> : s \in S}),
         !.ctip =
            PutAll(Delete(@, S),
                   [s \in hasPrev |-> [outpoint |-> prev(s).outpoint,
                                       value |-> prev(s).total_value]])]
=============================================================================
