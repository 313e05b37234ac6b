-------------------------- MODULE ValidatorProofs ---------------------------
(***************************************************************************)
(* IndInv is an inductive invariant of Validator, and what follows from    *)
(* it: disconnect_block takes the databases back exactly the way           *)
(* connect_block came, never meets an UndoError, and the treasury          *)
(* databases stay consistent; and the validator implements ChainState, for *)
(* every number of slots, bundles and blocks and whatever they contain.    *)
(***************************************************************************)
EXTENDS ChainRefinement, BlockDiffProofs

-----------------------------------------------------------------------------
(***************************************************************************)
(* Sequences of entries.                                                   *)
(***************************************************************************)

\* Recording a diff adds one entry at the end.
LEMMA AppendEntries ==
  ASSUME NEW es, EntriesOK(es), NEW e
  PROVE  /\ DOMAIN es = 1..Len(es)
         /\ Len(Append(es, e)) = Len(es) + 1
         /\ DOMAIN Append(es, e) = 1..(Len(es) + 1)
         /\ \A i \in 1..Len(es) : Append(es, e)[i] = es[i]
         /\ Append(es, e)[Len(es) + 1] = e
         /\ EntryOK(e) => EntriesOK(Append(es, e))
<1> DEFINE n == Len(es)
           T == {es[i] : i \in 1..n} \cup {e}
           f == Append(es, e)
<1>1. n \in Nat /\ es = [i \in 1..n |-> es[i]]
  BY DEF EntriesOK
<1>2. DOMAIN es = 1..n /\ es \in [1..n -> T]
  BY <1>1
<1>3. es \in Seq(T) /\ e \in T
  BY <1>1, <1>2
<1> HIDE DEF T
<1>4. /\ Len(f) = n + 1 /\ f \in Seq(T)
      /\ \A i \in 1..n : f[i] = es[i]
      /\ f[n + 1] = e
  BY <1>1, <1>3
<1> HIDE DEF f
<1>5. DOMAIN f = 1..(n + 1) /\ f = [i \in 1..Len(f) |-> f[i]]
  BY <1>1, <1>4
<1>6. ASSUME EntryOK(e)
      PROVE  EntriesOK(f)
  <2>1. \A i \in 1..(n + 1) : i \in 1..n \/ i = n + 1
    BY <1>1
  <2>2. \A i \in 1..n : EntryOK(es[i])
    BY <1>2 DEF EntriesOK
  <2>3. \A i \in DOMAIN f : EntryOK(f[i])
    BY <1>4, <1>5, <1>6, <2>1, <2>2
  <2> QED
    BY <1>1, <1>4, <1>5, <2>3 DEF EntriesOK
<1> QED
  BY <1>2, <1>4, <1>5, <1>6 DEF f

\* Undoing a diff takes the last entry away.
LEMMA FrontEntries ==
  ASSUME NEW es, EntriesOK(es), es # <<>>
  PROVE  LET f == SubSeq(es, 1, Len(es) - 1)
         IN  /\ Len(es) \in Nat \ {0} /\ DOMAIN es = 1..Len(es)
             /\ Len(f) = Len(es) - 1
             /\ DOMAIN f = 1..(Len(es) - 1)
             /\ \A i \in DOMAIN f : f[i] = es[i]
             /\ EntriesOK(f)
<1> DEFINE n == Len(es)
           T == {es[i] : i \in 1..n}
           f == SubSeq(es, 1, n - 1)
<1>1. n \in Nat /\ es = [i \in 1..n |-> es[i]]
  BY DEF EntriesOK
<1>2. DOMAIN es = 1..n /\ es \in [1..n -> T]
  BY <1>1
<1>3. es \in Seq(T)
  BY <1>1, <1>2
<1> HIDE DEF T
<1>4. n # 0
  BY <1>1, <1>3
<1>5. Len(f) = n - 1 /\ f \in Seq(T) /\ \A i \in 1..(n - 1) : f[i] = es[i]
  BY <1>1, <1>3, <1>4
<1> HIDE DEF f
<1>6. DOMAIN f = 1..(n - 1) /\ f = [i \in 1..Len(f) |-> f[i]]
  BY <1>1, <1>4, <1>5
<1>7. EntriesOK(f)
  <2>1. \A i \in 1..(n - 1) : i \in 1..n
    BY <1>1
  <2>2. \A i \in DOMAIN f : EntryOK(f[i])
    BY <1>2, <1>5, <1>6, <2>1 DEF EntriesOK
  <2> QED
    BY <1>1, <1>4, <1>5, <1>6, <2>2 DEF EntriesOK
<1> QED
  BY <1>1, <1>2, <1>4, <1>5, <1>6, <1>7 DEF f

\* A block without diffs.
LEMMA NoEntries ==
  EntriesOK(<<>>) /\ DOMAIN <<>> = {} /\ Len(<<>>) = 0
BY DEF EntriesOK

\* A block without diffs leaves the databases as they were.
LEMMA LinkedEmpty ==
  ASSUME NEW db
  PROVE  Linked(<<>>, db, db)
BY NoEntries DEF Linked, After

\* The chain of undoable steps grows by a diff that can be undone.
LEMMA LinkedAppend ==
  ASSUME NEW es, EntriesOK(es), NEW start, NEW mid, Linked(es, start, mid),
         NEW e, e.before = mid, NEW end,
         ~UndoFails(end, e.diff), Undo(end, e.diff) = mid
  PROVE  Linked(Append(es, e), start, end)
<1> DEFINE f == Append(es, e)
           n == Len(es)
<1>a. n \in Nat /\ Len(es) = n
  BY Zenon DEF EntriesOK
<1>b. /\ DOMAIN es = 1..n
      /\ Len(f) = n + 1 /\ DOMAIN f = 1..(n + 1)
      /\ \A i \in 1..n : f[i] = es[i]
      /\ f[n + 1] = e
  BY AppendEntries
<1>1. /\ n \in Nat /\ n # n + 1 /\ Len(es) = n /\ DOMAIN es = 1..n
      /\ Len(f) = n + 1 /\ DOMAIN f = 1..(n + 1)
      /\ \A i \in 1..n : f[i] = es[i]
      /\ f[n + 1] = e
  <2> HIDE DEF f, n
  <2>1. n # n + 1
    BY <1>a
  <2> QED BY <1>a, <1>b, <2>1
<1> HIDE DEF f, n
<1>2. ASSUME NEW k \in 0..n
      PROVE  After(f, end, k) = After(es, mid, k)
  <2>1. CASE k = n
    BY <1>1, <2>1 DEF After
  <2>2. CASE k # n
    <3>1. k + 1 \in 1..n /\ k # n + 1
      BY <1>1, <2>2
    <3> QED
      BY <1>1, <2>2, <3>1 DEF After
  <2> QED BY <2>1, <2>2
<1>3. After(f, end, n + 1) = end
  BY <1>1 DEF After
<1>4. After(f, end, 0) = start
  BY <1>1, <1>2 DEF Linked
<1>5. ASSUME NEW k \in 1..(n + 1)
      PROVE  /\ ~UndoFails(After(f, end, k), f[k].diff)
             /\ Undo(After(f, end, k), f[k].diff) = f[k].before
  <2>1. CASE k = n + 1
    BY <1>1, <1>3, <2>1
  <2>2. CASE k # n + 1
    <3>1. k \in 1..n /\ k \in 0..n
      BY <1>1, <2>2
    <3> QED
      BY <1>1, <1>2, <3>1 DEF Linked
  <2> QED BY <2>1, <2>2
<1> QED
  BY <1>1, <1>4, <1>5 DEF Linked, f

-----------------------------------------------------------------------------
(***************************************************************************)
(* Steps inside a write transaction.                                       *)
(***************************************************************************)

UnconsOK(b) ==
  /\ DOMAIN b = DOMAIN EmptyBlk
  /\ IsMap(b.uncons, Outpoint, [slot : Slot, value : Nat])

\* Steps that leave the tip and the committed state alone.
LEMMA OpenStep ==
  ASSUME IndInv, UNCHANGED <<tip, stored, saved>>,
         phase' \in {"idle", "coinbase", "failing", "txs", "undo"},
         DbsInv(dbs'), utxos' \subseteq Outpoint,
         EntriesOK(cur'), \A n \in DOMAIN cur' : DbsInv(cur'[n].before),
         UnconsOK(blk'), PhaseInv'
  PROVE  IndInv'
<1>1. TypeOK'
  <2>1. DbsOK(dbs')
    BY DEF DbsInv
  <2> QED
    BY <2>1 DEF IndInv, TypeOK, UnconsOK
<1>2. AllDbsInv'
  BY DEF IndInv, AllDbsInv
<1>3. StoredLinked'
  BY DEF IndInv, StoredLinked, EndOf
<1> QED
  BY <1>1, <1>2, <1>3 DEF IndInv

\* The empty block information is well typed.
LEMMA EmptyBlkOK ==
  UnconsOK(EmptyBlk)
<1>1. DOMAIN EmptyMap = {} /\ EmptyMap \in [{} -> [slot : Slot, value : Nat]]
  BY DEF EmptyMap
<1>2. EmptyBlk.uncons = EmptyMap
  BY DEF EmptyBlk
<1> HIDE DEF EmptyBlk, EmptyMap
<1> QED
  BY <1>1, <1>2 DEF UnconsOK, IsMap

\* What the open block's information satisfies.
LEMMA BlkOK ==
  ASSUME IndInv
  PROVE  UnconsOK(blk)
BY DEF IndInv, TypeOK, UnconsOK

\* Dropping the write transaction.
LEMMA AbortStep ==
  ASSUME IndInv, Abort
  PROVE  IndInv'
<1>1. PhaseInv'
  BY DEF Abort, PhaseInv, Connecting
<1>2. DbsInv(dbs') /\ utxos' \subseteq Outpoint
  BY DEF Abort, IndInv, AllDbsInv, TypeOK
<1>3. cur' = <<>> /\ UnconsOK(blk')
  BY EmptyBlkOK DEF Abort
<1>4. EntriesOK(cur') /\ \A n \in DOMAIN cur' : DbsInv(cur'[n].before)
  BY <1>3, NoEntries
<1> QED
  BY <1>1, <1>2, <1>3, <1>4, OpenStep DEF Abort

\* Applying and recording a diff that fits (DiffBuilder::apply).
LEMMA ApplyStep ==
  ASSUME IndInv, Connecting, Connecting', UNCHANGED <<tip, stored, saved>>,
         NEW d, Fits(dbs, d), NEW deposits, ApplyAndRecord(d, deposits),
         utxos' \subseteq Outpoint, UnconsOK(blk')
  PROVE  IndInv'
<1> DEFINE e == [diff |-> d, deposits |-> deposits, before |-> dbs, utxos |-> utxos]
<1>1. Height \in Nat
  BY DEF IndInv, TypeOK, Height
<1>2. DbsInv(dbs)
  BY DEF IndInv, AllDbsInv
<1>3. dbs' = Apply(dbs, d, Height) /\ cur' = Append(cur, e)
  BY DEF ApplyAndRecord
<1>4. DbsInv(dbs') /\ ~UndoFails(dbs', d) /\ Undo(dbs', d) = dbs
  BY <1>1, <1>2, <1>3, UndoIsInverse
<1>5. e.diff = d /\ e.before = dbs /\ e.utxos = utxos
  OBVIOUS
<1> HIDE DEF e
<1>6. EntriesOK(cur) /\ Linked(cur, saved.dbs, dbs)
  BY DEF IndInv, TypeOK, PhaseInv
<1>7. EntryOK(e)
  <2>1. d.type \in DiffType
    BY DEF Fits, DiffType
  <2> QED
    BY <1>2, <1>5, <2>1 DEF EntryOK, DbsInv, IndInv, TypeOK
<1>8. EntriesOK(cur')
  BY <1>3, <1>6, <1>7, AppendEntries
<1>9. Linked(cur', saved.dbs, dbs')
  BY <1>3, <1>4, <1>5, <1>6, LinkedAppend
<1>10. ASSUME NEW n \in DOMAIN cur'
       PROVE  DbsInv(cur'[n].before)
  <2> DEFINE l == Len(cur)
  <2>1. /\ DOMAIN cur = 1..l /\ DOMAIN cur' = 1..(l + 1)
        /\ \A i \in 1..l : cur'[i] = cur[i]
        /\ cur'[l + 1] = e
    BY <1>3, <1>6, AppendEntries
  <2>2. l \in Nat
    BY <1>6, Zenon DEF EntriesOK
  <2> HIDE DEF l
  <2>3. n \in 1..l \/ n = l + 1
    BY <2>1, <2>2
  <2>4. CASE n \in 1..l
    BY <2>1, <2>4 DEF IndInv, AllDbsInv
  <2>5. CASE n = l + 1
    BY <1>2, <1>5, <2>1, <2>5
  <2> QED BY <2>3, <2>4, <2>5
<1>11. PhaseInv'
  BY <1>9 DEF PhaseInv, Connecting
<1>12. phase' \in {"idle", "coinbase", "failing", "txs", "undo"}
  BY DEF Connecting
<1> QED
  BY <1>4, <1>8, <1>10, <1>11, <1>12, OpenStep

\* Applying what a handler returned, which may be no diff at all.
LEMMA ApplyAnyStep ==
  ASSUME IndInv, Connecting, Connecting', UNCHANGED <<tip, stored, saved>>,
         NEW diffs, AllFit(dbs, diffs), NEW deposits, ApplyAny(diffs, deposits),
         utxos' \subseteq Outpoint, UnconsOK(blk')
  PROVE  IndInv'
<1>1. CASE diffs # <<>>
  BY <1>1, ApplyStep DEF ApplyAny, AllFit
<1>2. CASE diffs = <<>>
  <2>1. UNCHANGED <<dbs, cur>>
    BY <1>2 DEF ApplyAny
  <2>2. PhaseInv'
    BY <2>1 DEF IndInv, PhaseInv, Connecting
  <2>3. DbsInv(dbs') /\ EntriesOK(cur') /\ \A n \in DOMAIN cur' : DbsInv(cur'[n].before)
    BY <2>1 DEF IndInv, AllDbsInv, TypeOK
  <2>4. phase' \in {"idle", "coinbase", "failing", "txs", "undo"}
    BY DEF Connecting
  <2> QED
    BY <2>2, <2>3, <2>4, OpenStep
<1> QED
  BY <1>1, <1>2

-----------------------------------------------------------------------------
(***************************************************************************)
(* The end of a block: record_block, and the end of disconnect_block.      *)
(***************************************************************************)

\* What DiffBuilder::apply records.
LEMMA RecordedEntries ==
  ASSUME IndInv, NEW diffs, NEW deposits, ApplyAny(diffs, deposits)
  PROVE  /\ dbs' = AppliedAny(dbs, diffs, Height)
         /\ \A n \in DOMAIN cur' :
              \/ n \in DOMAIN cur /\ cur'[n] = cur[n]
              \/ /\ diffs # <<>> /\ cur'[n].before = dbs
                 /\ cur'[n].diff = diffs[1] /\ cur'[n].utxos = utxos
<1>1. EntriesOK(cur)
  BY DEF IndInv, TypeOK
<1>2. CASE diffs = <<>>
  BY <1>2 DEF ApplyAny, AppliedAny
<1>3. CASE diffs # <<>>
  <2> DEFINE e == [diff |-> diffs[1], deposits |-> deposits, before |-> dbs,
                   utxos |-> utxos]
  <2>1. dbs' = Apply(dbs, diffs[1], Height) /\ cur' = Append(cur, e)
    BY <1>3 DEF ApplyAny, ApplyAndRecord
  <2>2. e.before = dbs /\ e.diff = diffs[1] /\ e.utxos = utxos
    OBVIOUS
  <2> HIDE DEF e
  <2>3. /\ DOMAIN cur = 1..Len(cur) /\ Len(cur) \in Nat
        /\ DOMAIN cur' = 1..(Len(cur) + 1)
        /\ \A n \in 1..Len(cur) : cur'[n] = cur[n]
        /\ cur'[Len(cur) + 1] = e
    <3>1. Len(cur) \in Nat
      BY <1>1, Zenon DEF EntriesOK
    <3> QED BY <1>1, <2>1, <3>1, AppendEntries
  <2>4. \A n \in DOMAIN cur' : n \in DOMAIN cur \/ n = Len(cur) + 1
    BY <2>3
  <2> QED BY <1>3, <2>1, <2>2, <2>3, <2>4 DEF AppliedAny
<1> QED
  BY <1>2, <1>3

\* The stored blocks after record_block.
LEMMA RecordedBlocks ==
  ASSUME IndInv, NEW entries, Record(entries)
  PROVE  /\ tip' = tip + 1 /\ tip + 1 \in Nat
         /\ saved'.dbs = dbs /\ saved'.utxos = utxos
         /\ \A h \in DOMAIN stored' :
              \/ /\ h \in DOMAIN stored /\ h \in Nat /\ h <= tip
                 /\ stored'[h] = stored[h]
                 /\ h + 1 \in DOMAIN stored' /\ EndOf(h)' = EndOf(h)
              \/ /\ h = tip + 1 /\ stored'[h].start = saved.dbs
                 /\ stored'[h].utxos = saved.utxos /\ stored'[h].entries = entries
                 /\ EndOf(h)' = dbs
<1> DEFINE old == {h \in DOMAIN stored : h <= tip + 1 - KeepBlocks}
           b == [start |-> saved.dbs, utxos |-> saved.utxos, entries |-> entries]
<1>1. /\ tip' = tip + 1 /\ tip \in Int /\ tip >= -1 /\ tip + 1 \in Nat
      /\ stored' = Put(Delete(stored, old), tip + 1, b)
      /\ saved'.dbs = dbs /\ saved'.utxos = utxos
  BY DEF Record, IndInv, TypeOK
<1>2. KeepBlocks \in Nat \ {0}
  BY ValidatorAssumption
<1>3. b.start = saved.dbs /\ b.utxos = saved.utxos /\ b.entries = entries
  OBVIOUS
<1>4. DOMAIN stored \subseteq Nat
      /\ \A h \in DOMAIN stored : h <= tip /\ (h < tip => h + 1 \in DOMAIN stored)
  BY DEF IndInv, TypeOK, StoredLinked
<1>5. tip + 1 \notin DOMAIN stored
  <2>1. tip \in Int
    BY <1>1
  <2>2. \A h \in DOMAIN stored : h \in Nat /\ h <= tip
    BY <1>4
  <2> QED BY ONLY <2>1, <2>2
<1>6. /\ DOMAIN stored' = (DOMAIN stored \ old) \cup {tip + 1}
      /\ \A h \in DOMAIN stored \ old : stored'[h] = stored[h]
      /\ stored'[tip + 1] = b
  <2> HIDE DEF old, b
  <2> QED BY <1>1, <1>5 DEF Put, Delete, Restrict
<1>7. \A h \in DOMAIN stored \ old : h < tip => h + 1 \in DOMAIN stored \ old
  BY <1>1, <1>2, <1>4
<1> HIDE DEF old, b
<1>8. ASSUME NEW h \in DOMAIN stored'
      PROVE  \/ /\ h \in DOMAIN stored /\ h \in Nat /\ h <= tip
                /\ stored'[h] = stored[h]
                /\ h + 1 \in DOMAIN stored' /\ EndOf(h)' = EndOf(h)
             \/ /\ h = tip + 1 /\ stored'[h].start = saved.dbs
                /\ stored'[h].utxos = saved.utxos /\ stored'[h].entries = entries
                /\ EndOf(h)' = dbs
  <2>1. CASE h = tip + 1
    <3>1. h + 1 \notin DOMAIN stored'
      BY <1>1, <1>4, <1>6, <2>1
    <3>2. EndOf(h)' = dbs
      BY <1>1, <3>1 DEF EndOf
    <3> QED BY <1>3, <1>6, <2>1, <3>2
  <2>2. CASE h \in DOMAIN stored \ old
    <3>1. h \in DOMAIN stored /\ h \in Nat /\ h <= tip /\ stored'[h] = stored[h]
      BY <1>4, <1>6, <2>2
    <3>2. h + 1 \in DOMAIN stored' /\ EndOf(h)' = EndOf(h)
      <4>1. CASE h = tip
        BY <1>3, <1>5, <1>6, <4>1 DEF EndOf
      <4>2. CASE h # tip
        <5>1. h + 1 \in DOMAIN stored \ old
          BY <1>1, <1>7, <2>2, <3>1, <4>2
        <5> QED BY <1>6, <5>1 DEF EndOf
      <4> QED BY <4>1, <4>2
    <3> QED BY <3>1, <3>2
  <2> QED BY <1>6, <2>1, <2>2
<1> QED
  BY <1>1, <1>8

\* The end of connect_block.
LEMMA RecordStep ==
  ASSUME IndInv, NEW entries, EntriesOK(entries),
         \A n \in DOMAIN entries : DbsInv(entries[n].before),
         Linked(entries, saved.dbs, dbs), Record(entries),
         UNCHANGED <<dbs, utxos>>, phase' = "idle", cur' = <<>>, UnconsOK(blk')
  PROVE  IndInv'
<1>1. /\ tip' = tip + 1 /\ tip + 1 \in Nat
      /\ saved'.dbs = dbs /\ saved'.utxos = utxos
      /\ \A h \in DOMAIN stored' :
           \/ /\ h \in DOMAIN stored /\ h \in Nat /\ h <= tip
              /\ stored'[h] = stored[h]
              /\ h + 1 \in DOMAIN stored' /\ EndOf(h)' = EndOf(h)
           \/ /\ h = tip + 1 /\ stored'[h].start = saved.dbs
              /\ stored'[h].utxos = saved.utxos /\ stored'[h].entries = entries
              /\ EndOf(h)' = dbs
  BY RecordedBlocks
<1>2. DbsInv(dbs) /\ DbsInv(saved.dbs) /\ DbsOK(dbs) /\ DbsOK(saved.dbs)
      /\ utxos \subseteq Outpoint /\ saved.utxos \subseteq Outpoint /\ tip \in Int
  BY DEF IndInv, AllDbsInv, TypeOK
<1>3. TypeOK'
  <2>1. \A h \in DOMAIN stored' : /\ h \in Nat /\ DbsOK(stored'[h].start)
                                 /\ stored'[h].utxos \subseteq Outpoint
                                 /\ EntriesOK(stored'[h].entries)
    BY <1>1, <1>2 DEF IndInv, TypeOK
  <2>2. tip' \in Int /\ tip' >= -1
    BY <1>1
  <2> QED
    BY <1>1, <1>2, <2>1, <2>2, NoEntries DEF TypeOK, UnconsOK
<1>4. AllDbsInv'
  <2>1. \A h \in DOMAIN stored' :
          /\ DbsInv(stored'[h].start)
          /\ \A n \in DOMAIN stored'[h].entries : DbsInv(stored'[h].entries[n].before)
    BY <1>1, <1>2 DEF IndInv, AllDbsInv
  <2>2. \A n \in DOMAIN cur' : DbsInv(cur'[n].before)
    BY NoEntries
  <2>3. DbsInv(dbs') /\ DbsInv(saved'.dbs)
    BY <1>1, <1>2
  <2> QED
    BY <2>1, <2>2, <2>3 DEF AllDbsInv
<1>5. StoredLinked'
  <2>1. ASSUME NEW h \in DOMAIN stored'
        PROVE  /\ h <= tip'
               /\ h < tip' => h + 1 \in DOMAIN stored'
               /\ Linked(stored'[h].entries, stored'[h].start, EndOf(h)')
    <3>1. CASE /\ h = tip + 1 /\ stored'[h].start = saved.dbs
               /\ stored'[h].entries = entries /\ EndOf(h)' = dbs
      <4>1. h <= tip' /\ ~(h < tip')
        BY <1>1, <3>1
      <4> QED BY <3>1, <4>1
    <3>2. CASE /\ h \in DOMAIN stored /\ h \in Nat /\ h <= tip
               /\ stored'[h] = stored[h]
               /\ h + 1 \in DOMAIN stored' /\ EndOf(h)' = EndOf(h)
      <4>1. Linked(stored[h].entries, stored[h].start, EndOf(h))
        BY <3>2 DEF IndInv, StoredLinked
      <4>2. h <= tip'
        BY <1>1, <1>2, <3>2
      <4> QED BY <3>2, <4>1, <4>2
    <3> QED BY <1>1, <3>1, <3>2
  <2> QED
    BY <2>1 DEF StoredLinked
<1>6. PhaseInv'
  BY <1>1 DEF PhaseInv, Connecting
<1> QED
  BY <1>3, <1>4, <1>5, <1>6 DEF IndInv

\* What the last entry still to be undone says.
LEMMA UndoNext ==
  ASSUME IndInv, phase = "undo", cur # <<>>
  PROVE  /\ ~UndoFails(dbs, cur[Len(cur)].diff)
         /\ Undo(dbs, cur[Len(cur)].diff) = cur[Len(cur)].before
         /\ cur[Len(cur)].before
              = After(stored[tip].entries, saved.dbs, Len(cur) - 1)
<1> DEFINE entries == stored[tip].entries
           n == Len(cur)
<1>1. EntriesOK(cur) /\ tip \in DOMAIN stored /\ EntriesOK(entries)
  BY DEF IndInv, TypeOK, PhaseInv
<1>2. n \in Nat \ {0} /\ DOMAIN cur = 1..n
  BY <1>1, FrontEntries
<1>3. Len(entries) \in Nat /\ DOMAIN entries = 1..Len(entries)
  BY <1>1, AppendEntries, Zenon DEF EntriesOK
<1>4. /\ n <= Len(entries) /\ \A k \in DOMAIN cur : cur[k] = entries[k]
      /\ dbs = After(entries, saved.dbs, n)
  BY DEF IndInv, PhaseInv
<1>5. tip \in Int /\ \A h \in DOMAIN stored : h \in Nat /\ h <= tip
  BY DEF IndInv, TypeOK, StoredLinked
<1>6. tip + 1 \notin DOMAIN stored
  BY <1>5
<1>7. Linked(entries, stored[tip].start, saved.dbs)
  BY <1>1, <1>6 DEF IndInv, StoredLinked, EndOf
<1> HIDE DEF entries, n
<1>8. n \in DOMAIN entries /\ cur[n] = entries[n] /\ n - 1 # Len(entries)
  BY <1>2, <1>3, <1>4
<1>9. After(entries, saved.dbs, n - 1) = entries[n].before
  BY <1>2, <1>8 DEF After
<1>10. /\ ~UndoFails(dbs, entries[n].diff)
       /\ Undo(dbs, entries[n].diff) = entries[n].before
  BY <1>4, <1>7, <1>8 DEF Linked
<1> QED
  BY <1>8, <1>9, <1>10 DEF entries, n

\* The last entry of disconnect_block leads to where the block started.
LEMMA UndoneBlock ==
  ASSUME IndInv, phase = "undo", cur = <<>>
  PROVE  /\ tip \in DOMAIN stored
         /\ dbs = stored[tip].start
<1>1. tip \in DOMAIN stored /\ dbs = After(stored[tip].entries, saved.dbs, 0)
  BY NoEntries DEF IndInv, PhaseInv
<1>2. tip \in Int /\ \A h \in DOMAIN stored : h \in Nat /\ h <= tip
  BY DEF IndInv, TypeOK, StoredLinked
<1>3. tip + 1 \notin DOMAIN stored
  BY <1>2
<1>4. Linked(stored[tip].entries, stored[tip].start, saved.dbs)
  BY <1>1, <1>3 DEF IndInv, StoredLinked, EndOf
<1> QED
  BY <1>1, <1>4 DEF Linked

-----------------------------------------------------------------------------
(***************************************************************************)
(* One lemma per handler.                                                  *)
(***************************************************************************)

\* The encodings of an M4.
LEMMA M4Versions ==
  ASSUME NEW m \in M4Message
  PROVE  /\ m.type = "M4"
         /\ m.version \in {"LeadingBy50", "RepeatPrevious", "OneByte", "TwoBytes"}
<1>1. CASE m \in [type : {"M4"}, version : {"RepeatPrevious", "LeadingBy50"}]
  BY <1>1
<1>2. CASE m \in [type : {"M4"}, version : {"OneByte", "TwoBytes"},
                  upvotes : Seq(VoteValue)]
  BY <1>2
<1> QED
  BY <1>1, <1>2, Zenon DEF M4Message

\* handle_coinbase_message returns a diff that fits, unless it rejects.
LEMMA MessageFits ==
  ASSUME IndInv, NEW m \in Message, ~MessageRejected(m)
  PROVE  AllFit(dbs, MessageDiffs(m))
<1>1. DbsInv(dbs) /\ Height \in Nat
  BY DEF IndInv, AllDbsInv, TypeOK, Height
<1>2. m \in M1Message \cup M2Message \cup M3Message \cup M4Message \cup M7Message
  BY ValidatorAssumption
<1>3. CASE m \in M1Message
  <2>1. m.type = "M1" /\ m.slot \in Slot /\ m.desc \in Description
    BY <1>3 DEF M1Message
  <2>2. MessageDiffs(m) = handle_m1_propose_sidechain(dbs, Height, m.slot, m.desc)
    BY <2>1 DEF MessageDiffs
  <2> QED BY <1>1, <2>1, <2>2, M1Fits
<1>4. CASE m \in M2Message
  <2>1. m.type = "M2" /\ m.slot \in Slot /\ m.desc \in Description
    BY <1>4 DEF M2Message
  <2>2. MessageDiffs(m) = handle_m2_ack_sidechain(dbs, Height, m.slot, m.desc)
    BY <2>1 DEF MessageDiffs
  <2> QED BY <1>1, <2>1, <2>2, M2Fits
<1>5. CASE m \in M3Message
  <2> DEFINE d == handle_m3_propose_bundle(m.slot, m.m6id)
  <2>1. m.type = "M3" /\ m.slot \in Slot /\ m.m6id \in M6id
    BY <1>5 DEF M3Message
  <2>2. MessageDiffs(m) = <<d>>
    BY <2>1 DEF MessageDiffs
  <2>3. ~M3Rejected(dbs, m.slot, m.m6id)
    BY <2>1 DEF MessageRejected
  <2>4. Fits(dbs, d)
    BY <1>1, <2>1, <2>3, M3Fits
  <2> HIDE DEF d
  <2> QED BY <2>2, <2>4 DEF AllFit
<1>6. CASE m \in M4Message
  <2>1. /\ m.type = "M4"
        /\ m.version \in {"LeadingBy50", "RepeatPrevious", "OneByte", "TwoBytes"}
    BY <1>6, M4Versions
  <2> DEFINE prev == PreviousActions
  <2>2. MessageDiffs(m) = handle_m4_ack_bundles(dbs, prev, m)
    BY <2>1 DEF MessageDiffs
  <2> HIDE DEF prev
  <2>3. AllFit(dbs, handle_m4_ack_bundles(dbs, prev, m))
    BY ONLY <1>1, <2>1, M4Fits
  <2> QED BY <2>2, <2>3
<1>7. CASE m \in M7Message
  BY <1>7 DEF M7Message, MessageDiffs, AllFit
<1> QED
  BY <1>2, <1>3, <1>4, <1>5, <1>6, <1>7

\* handle_coinbase_message
LEMMA CoinbaseMessageStep ==
  ASSUME IndInv, NEW m \in Message, HandleCoinbaseMessage(m)
  PROVE  IndInv'
<1>1. AllFit(dbs, MessageDiffs(m)) /\ ApplyAny(MessageDiffs(m), EmptyMap)
  BY MessageFits DEF HandleCoinbaseMessage
<1>2. Connecting /\ Connecting' /\ UNCHANGED <<tip, stored, saved>>
  BY DEF HandleCoinbaseMessage, Connecting
<1>3. utxos' \subseteq Outpoint
  BY DEF HandleCoinbaseMessage, IndInv, TypeOK
<1>4. DOMAIN blk' = DOMAIN blk /\ blk'.uncons = blk.uncons
  <2>1. "uncons" \in DOMAIN blk
    BY BlkOK DEF UnconsOK, EmptyBlk
  <2> QED
    BY <2>1 DEF HandleCoinbaseMessage
<1>5. UnconsOK(blk')
  BY <1>4, BlkOK DEF UnconsOK
<1> QED
  BY <1>1, <1>2, <1>3, <1>5, ApplyAnyStep

\* handle_transaction returns a diff that fits, unless it rejects.
LEMMA TransactionDiffsFit ==
  ASSUME IndInv, NEW shape \in TxShape, NEW ins,
         HandleTransaction(Spending(shape, ins))
  PROVE  AllFit(dbs, handle_m5_m6(dbs, blk.uncons, Spending(shape, ins), FreshTxid))
<1> DEFINE tx == Spending(shape, ins)
<1>1. tx.outs \in Seq(TxOut)
  BY ValidatorAssumption DEF Spending, Shape
<1>2. FreshTxid \in Txid /\ FreshTxid \notin UsedTxids
  BY DEF HandleTransaction, FreshTxid
<1>3. FreshFor(dbs, FreshTxid)
  BY <1>2 DEF FreshFor, UsedTxids
<1> HIDE DEF tx
<1>4. ~M5M6Rejected(dbs, blk.uncons, tx, TRUE)
  BY Zenon DEF HandleTransaction, TxRejected, tx
<1>5. DbsInv(dbs)
  BY DEF IndInv, AllDbsInv
<1>6. AllFit(dbs, handle_m5_m6(dbs, blk.uncons, tx, FreshTxid))
  BY <1>1, <1>3, <1>4, <1>5, TransactionFits, Zenon
<1> QED
  BY <1>6 DEF tx

\* handle_transaction, with the txid of a transaction not seen before.
LEMMA TransactionStep ==
  ASSUME IndInv, NEW shape \in TxShape, NEW ins,
         HandleTransaction(Spending(shape, ins))
  PROVE  IndInv'
<1> DEFINE tx == Spending(shape, ins)
           diffs == handle_m5_m6(dbs, blk.uncons, tx, FreshTxid)
           made == {NewCtip(dbs, tx, FreshTxid, s).outpoint : s \in TxSlots(dbs, tx)}
<1>1. tx.outs \in Seq(TxOut)
  BY ValidatorAssumption DEF Spending, Shape
<1>2. FreshTxid \in Txid
  BY DEF HandleTransaction, FreshTxid
<1> HIDE DEF tx
<1>4. /\ ApplyAny(diffs, Deposits(dbs, blk.uncons, tx))
      /\ utxos' = (utxos \ tx.ins) \cup made
      /\ blk' = [blk EXCEPT !.uncons = UnconsAfter(dbs, @, tx, FreshTxid),
                            !.m8 = @ \cup {r.slot : r \in tx.m8},
                            !.txs = @ + 1]
      /\ phase = "txs" /\ UNCHANGED <<phase, tip, stored, saved>>
  BY DEF HandleTransaction, tx
<1>5. DbsInv(dbs) /\ utxos \subseteq Outpoint
  BY DEF IndInv, AllDbsInv, TypeOK
<1>6. AllFit(dbs, diffs)
  BY TransactionDiffsFit DEF tx
<1>7. made \subseteq Outpoint
  <2>1. \A s \in TxSlots(dbs, tx) : NewCtip(dbs, tx, FreshTxid, s) \in Ctip
    BY <1>1, <1>2, NewCtipType
  <2> QED BY <2>1 DEF Ctip
<1>8. DOMAIN blk' = DOMAIN blk
      /\ blk'.uncons = UnconsAfter(dbs, blk.uncons, tx, FreshTxid)
  <2>1. "uncons" \in DOMAIN blk
    BY BlkOK DEF UnconsOK, EmptyBlk
  <2> QED BY <1>4, <2>1
<1>9. UnconsOK(blk')
  BY <1>1, <1>2, <1>8, BlkOK, UnconsAfterType, Zenon DEF UnconsOK
<1>10. Connecting /\ Connecting'
  BY <1>4 DEF Connecting
<1> HIDE DEF diffs, made
<1>11. utxos' \subseteq Outpoint
  BY <1>4, <1>5, <1>7
<1> QED
  BY <1>4, <1>6, <1>9, <1>10, <1>11, ApplyAnyStep, Zenon

\* One step of disconnect_block.
LEMMA UndoStep ==
  ASSUME IndInv, UndoDiff
  PROVE  IndInv'
<1> DEFINE n == Len(cur)
           entries == stored[tip].entries
<1>1. phase = "undo" /\ cur # <<>> /\ UNCHANGED <<phase, tip, blk, stored, saved>>
      /\ dbs' = Undo(dbs, cur[n].diff) /\ utxos' = cur[n].utxos
      /\ cur' = SubSeq(cur, 1, n - 1)
  BY DEF UndoDiff
<1>2. EntriesOK(cur) /\ DbsInv(cur[n].before)
      /\ n \in Nat \ {0} /\ DOMAIN cur = 1..n
      /\ Len(cur') = n - 1 /\ DOMAIN cur' = 1..(n - 1)
      /\ (\A k \in DOMAIN cur' : cur'[k] = cur[k])
      /\ EntriesOK(cur')
  <2>1. EntriesOK(cur)
    BY DEF IndInv, TypeOK
  <2>2. n \in Nat \ {0} /\ DOMAIN cur = 1..n
        /\ Len(cur') = n - 1 /\ DOMAIN cur' = 1..(n - 1)
        /\ (\A k \in DOMAIN cur' : cur'[k] = cur[k])
        /\ EntriesOK(cur')
    BY <1>1, <2>1, FrontEntries
  <2>3. n \in DOMAIN cur
    <3> HIDE DEF n
    <3> QED BY <2>2
  <2>4. DbsInv(cur[n].before)
    BY <2>3 DEF IndInv, AllDbsInv
  <2> QED BY <2>1, <2>2, <2>4
<1>3. dbs' = cur[n].before /\ cur[n].before = After(entries, saved.dbs, n - 1)
  BY <1>1, UndoNext
<1>4. tip \in DOMAIN stored /\ n <= Len(entries)
      /\ Len(entries) \in Nat /\ \A k \in DOMAIN cur : cur[k] = entries[k]
  <2>1. tip \in DOMAIN stored /\ n <= Len(entries)
        /\ \A k \in DOMAIN cur : cur[k] = entries[k]
    BY <1>1 DEF IndInv, PhaseInv
  <2>2. EntriesOK(entries)
    BY <2>1 DEF IndInv, TypeOK
  <2> QED BY <2>1, <2>2, Zenon DEF EntriesOK
<1> HIDE DEF n, entries
<1>5. n \in DOMAIN cur /\ (\A k \in DOMAIN cur' : k \in DOMAIN cur)
      /\ n - 1 <= Len(entries)
  BY <1>2, <1>4
<1>6. PhaseInv'
  <2>1. entries' = entries /\ saved' = saved /\ tip' = tip /\ stored' = stored
    BY <1>1 DEF entries
  <2>2. /\ Len(cur') <= Len(entries)
        /\ \A k \in DOMAIN cur' : cur'[k] = entries[k]
        /\ dbs' = After(entries, saved.dbs, Len(cur'))
    BY <1>2, <1>3, <1>4, <1>5
  <2> QED
    BY <1>1, <1>4, <2>1, <2>2, Zenon DEF PhaseInv, Connecting, entries
<1>7. utxos' \subseteq Outpoint
  BY <1>1, <1>2, <1>5 DEF EntriesOK, EntryOK
<1>8. UnconsOK(blk')
  BY <1>1, BlkOK
<1>9. \A k \in DOMAIN cur' : DbsInv(cur'[k].before)
  BY <1>2, <1>5 DEF IndInv, AllDbsInv
<1> QED
  BY <1>1, <1>2, <1>3, <1>6, <1>7, <1>8, <1>9, OpenStep

\* The stored blocks after disconnect_block.
LEMMA RemainingBlocks ==
  ASSUME IndInv, FinishDisconnectBlock
  PROVE  /\ tip \in DOMAIN stored /\ tip \in Nat /\ tip' = tip - 1
         /\ dbs = stored[tip].start /\ saved'.dbs = dbs /\ saved'.utxos = utxos
         /\ \A h \in DOMAIN stored' :
              /\ h \in DOMAIN stored /\ h \in Nat /\ h < tip
              /\ stored'[h] = stored[h] /\ EndOf(h)' = EndOf(h)
              /\ h < tip - 1 => h + 1 \in DOMAIN stored'
<1>1. phase = "undo" /\ cur = <<>> /\ tip' = tip - 1
      /\ stored' = Delete(stored, {tip}) /\ saved'.dbs = dbs /\ saved'.utxos = utxos
  BY DEF FinishDisconnectBlock
<1>2. tip \in DOMAIN stored /\ dbs = stored[tip].start
  BY <1>1, UndoneBlock
<1>3. tip \in Nat /\ DOMAIN stored \subseteq Nat
      /\ \A h \in DOMAIN stored : h <= tip /\ (h < tip => h + 1 \in DOMAIN stored)
  BY <1>2 DEF IndInv, TypeOK, StoredLinked
<1>4. /\ DOMAIN stored' = DOMAIN stored \ {tip}
      /\ \A h \in DOMAIN stored' : stored'[h] = stored[h]
  BY <1>1 DEF Delete, Restrict
<1>5. ASSUME NEW h \in DOMAIN stored'
      PROVE  /\ h \in DOMAIN stored /\ h \in Nat /\ h < tip
             /\ stored'[h] = stored[h] /\ EndOf(h)' = EndOf(h)
             /\ h < tip - 1 => h + 1 \in DOMAIN stored'
  <2>1. h \in DOMAIN stored /\ h \in Nat /\ h < tip /\ h + 1 \in DOMAIN stored
    BY <1>3, <1>4
  <2>2. h < tip - 1 => h + 1 \in DOMAIN stored'
    BY <1>3, <1>4, <2>1
  <2>3. EndOf(h)' = EndOf(h)
    <3>1. CASE h + 1 = tip
      BY <1>1, <1>2, <1>4, <3>1 DEF EndOf
    <3>2. CASE h + 1 # tip
      BY <1>4, <2>1, <3>2 DEF EndOf
    <3> QED BY <3>1, <3>2
  <2> QED BY <1>4, <2>1, <2>2, <2>3
<1> QED
  BY <1>1, <1>2, <1>3, <1>5, Zenon

\* The end of disconnect_block.
LEMMA FinishDisconnectStep ==
  ASSUME IndInv, FinishDisconnectBlock
  PROVE  IndInv'
<1>1. /\ tip \in Nat /\ tip' = tip - 1
      /\ saved'.dbs = dbs /\ saved'.utxos = utxos
      /\ \A h \in DOMAIN stored' :
           /\ h \in DOMAIN stored /\ h \in Nat /\ h < tip
           /\ stored'[h] = stored[h] /\ EndOf(h)' = EndOf(h)
           /\ h < tip - 1 => h + 1 \in DOMAIN stored'
  BY RemainingBlocks
<1>2. cur = <<>> /\ phase' = "idle" /\ UNCHANGED <<dbs, utxos, cur, blk>>
  BY DEF FinishDisconnectBlock
<1>3. DbsInv(dbs) /\ DbsOK(dbs) /\ utxos \subseteq Outpoint
  BY DEF IndInv, AllDbsInv, TypeOK
<1>4. TypeOK'
  <2>1. tip' \in Int /\ tip' >= -1
    BY <1>1
  <2> QED
    BY <1>1, <1>2, <1>3, <2>1 DEF IndInv, TypeOK
<1>5. AllDbsInv'
  BY <1>1, <1>2, <1>3 DEF IndInv, AllDbsInv
<1>6. StoredLinked'
  <2>1. ASSUME NEW h \in DOMAIN stored'
        PROVE  /\ h <= tip'
               /\ h < tip' => h + 1 \in DOMAIN stored'
               /\ Linked(stored'[h].entries, stored'[h].start, EndOf(h)')
    <3>1. Linked(stored[h].entries, stored[h].start, EndOf(h))
      BY <1>1 DEF IndInv, StoredLinked
    <3>2. Linked(stored'[h].entries, stored'[h].start, EndOf(h)')
      BY <1>1, <3>1
    <3>3. h <= tip'
      BY <1>1
    <3> QED BY <1>1, <3>2, <3>3
  <2> QED
    BY <2>1 DEF StoredLinked
<1>7. PhaseInv'
  BY <1>1, <1>2 DEF PhaseInv, Connecting
<1> QED
  BY <1>4, <1>5, <1>6, <1>7 DEF IndInv

-----------------------------------------------------------------------------
(***************************************************************************)
(* The invariant, and what follows from it.                                *)
(***************************************************************************)

\* The databases of a new data directory are consistent.
LEMMA EmptyDbsInv ==
  DbsInv(EmptyDbs)
<1> DEFINE db == EmptyDbs
<1>1. DOMAIN EmptyMap = {} /\ \A V : EmptyMap \in [{} -> V]
  BY DEF EmptyMap
<1>2. \A K, V : IsMap(EmptyMap, K, V)
  BY <1>1 DEF IsMap
<1> HIDE DEF EmptyMap
<1>3. /\ db.proposal_id_to_sidechain = EmptyMap /\ db.sidechain = EmptyMap
      /\ db.pending_m6ids = EmptyMap /\ db.ctip = EmptyMap
      /\ db.ctip_outpoint_to_value_seq = EmptyMap
      /\ db.slot_sequence_to_treasury_utxo = EmptyMap
      /\ db.treasury_utxo_count = [s \in Slot |-> 0]
  BY DEF EmptyDbs
<1>4. db.treasury_utxo_count \in [Slot -> Nat] /\ \A s \in Slot : db.treasury_utxo_count[s] = 0
  BY <1>3
<1>5. db = [proposal_id_to_sidechain |-> db.proposal_id_to_sidechain,
            sidechain |-> db.sidechain,
            pending_m6ids |-> db.pending_m6ids,
            ctip |-> db.ctip,
            ctip_outpoint_to_value_seq |-> db.ctip_outpoint_to_value_seq,
            slot_sequence_to_treasury_utxo |-> db.slot_sequence_to_treasury_utxo,
            treasury_utxo_count |-> db.treasury_utxo_count]
  BY DEF EmptyDbs
<1> HIDE DEF db
<1>6. DbsOK(db)
  BY <1>2, <1>3, <1>4, <1>5 DEF DbsOK
<1>7. LifecycleOK(db)
  BY <1>1, <1>3 DEF LifecycleOK
<1>8. TreasuryKeys(db) = {}
  BY <1>4 DEF TreasuryKeys
<1>9. TreasuryOK(db)
  BY <1>1, <1>3, <1>4, <1>8 DEF TreasuryOK
<1> QED
  BY <1>6, <1>7, <1>9 DEF DbsInv, db

\* IndInv holds of a new data directory.
LEMMA InitIndInv ==
  ASSUME Init
  PROVE  IndInv
<1>1. DbsInv(dbs) /\ DbsInv(saved.dbs) /\ DbsOK(dbs) /\ DbsOK(saved.dbs)
      /\ dbs = saved.dbs /\ saved.utxos = {}
  BY EmptyDbsInv DEF Init, DbsInv
<1>2. DOMAIN stored = {} /\ cur = <<>> /\ phase = "idle" /\ UnconsOK(blk)
      /\ tip = -1 /\ utxos = {}
  BY EmptyBlkOK DEF Init, EmptyMap
<1>3. TypeOK
  BY <1>1, <1>2, NoEntries DEF TypeOK, UnconsOK
<1>4. AllDbsInv
  BY <1>1, <1>2, NoEntries DEF AllDbsInv
<1>5. StoredLinked
  BY <1>2 DEF StoredLinked
<1>6. PhaseInv
  BY <1>1, <1>2 DEF PhaseInv, Connecting
<1> QED
  BY <1>3, <1>4, <1>5, <1>6 DEF IndInv

\* IndInv is preserved by every step of connect_block and disconnect_block, by
\* the rejection of a block and by a crash.
LEMMA NextIndInv ==
  ASSUME IndInv, [Next]_vars
  PROVE  IndInv'
<1>0. tip \in Int /\ Height \in Nat /\ DbsInv(dbs) /\ UnconsOK(blk)
      /\ utxos \subseteq Outpoint /\ EntriesOK(cur)
      /\ \A n \in DOMAIN cur : DbsInv(cur[n].before)
  BY BlkOK DEF IndInv, TypeOK, AllDbsInv, Height
<1>1. CASE ConnectPreActivationBlock
  <2>1. Record(<<>>) /\ UNCHANGED <<phase, dbs, utxos, cur, blk>> /\ phase = "idle"
    BY <1>1 DEF ConnectPreActivationBlock
  <2>2. cur = <<>> /\ dbs = saved.dbs
    BY <2>1 DEF IndInv, PhaseInv
  <2>3. Linked(<<>>, saved.dbs, dbs) /\ EntriesOK(<<>>) /\ DOMAIN <<>> = {}
    BY <2>2, LinkedEmpty, NoEntries
  <2> QED
    BY <1>0, <2>1, <2>2, <2>3, RecordStep
<1>2. CASE BeginConnectBlock
  <2>1. phase = "idle" /\ phase' = "coinbase"
        /\ UNCHANGED <<tip, dbs, utxos, cur, blk, stored, saved>>
    BY <1>2 DEF BeginConnectBlock
  <2>2. cur = <<>> /\ dbs = saved.dbs
    BY <2>1 DEF IndInv, PhaseInv
  <2>3. Linked(cur', saved'.dbs, dbs')
    BY <2>1, <2>2, LinkedEmpty
  <2>4. PhaseInv'
    BY <2>1, <2>3 DEF PhaseInv
  <2> QED
    BY <1>0, <2>1, <2>4, OpenStep
<1>3. ASSUME NEW m \in Message, HandleCoinbaseMessage(m)
      PROVE  IndInv'
  BY <1>3, CoinbaseMessageStep
<1>4. ASSUME NEW m \in Message, RejectCoinbaseMessage(m)
      PROVE  IndInv'
  BY <1>4, AbortStep DEF RejectCoinbaseMessage
<1>5. CASE HandleFailedSidechainProposals
  <2> DEFINE d == handle_failed_sidechain_proposals(dbs, Height)
  <2>1. /\ ApplyAndRecord(d, EmptyMap) /\ phase = "coinbase" /\ phase' = "failing"
        /\ UNCHANGED <<tip, utxos, blk, stored, saved>>
    BY <1>5 DEF HandleFailedSidechainProposals
  <2>2. Fits(dbs, d)
    BY <1>0, FailedSidechainProposalsFit
  <2>3. Connecting /\ Connecting'
    BY <2>1 DEF Connecting
  <2> HIDE DEF d
  <2> QED
    BY <1>0, <2>1, <2>2, <2>3, ApplyStep
<1>6. CASE HandleFailedM6ids
  <2> DEFINE d == handle_failed_m6ids(dbs, Height)
  <2>1. /\ ApplyAndRecord(d, EmptyMap) /\ phase = "failing" /\ phase' = "txs"
        /\ UNCHANGED <<tip, utxos, blk, stored, saved>>
    BY <1>6 DEF HandleFailedM6ids
  <2>2. Fits(dbs, d)
    BY <1>0, FailedBundlesFit
  <2>3. Connecting /\ Connecting'
    BY <2>1 DEF Connecting
  <2> HIDE DEF d
  <2> QED
    BY <1>0, <2>1, <2>2, <2>3, ApplyStep
<1>7. ASSUME NEW shape \in TxShape, NEW ins \in SUBSET utxos,
             HandleTransaction(Spending(shape, ins))
      PROVE  IndInv'
  BY <1>7, TransactionStep
<1>8. ASSUME NEW shape \in TxShape, NEW ins \in SUBSET utxos,
             RejectTransaction(Spending(shape, ins))
      PROVE  IndInv'
  BY <1>8, AbortStep DEF RejectTransaction
<1>9. CASE FinalizeConnectBlock
  <2>1. phase = "txs" /\ phase' = "idle" /\ cur' = <<>> /\ blk' = EmptyBlk
        /\ Record(cur) /\ UNCHANGED <<dbs, utxos>>
    BY <1>9 DEF FinalizeConnectBlock
  <2>2. Linked(cur, saved.dbs, dbs)
    BY <2>1 DEF IndInv, PhaseInv, Connecting
  <2>3. UnconsOK(blk')
    BY <2>1, EmptyBlkOK
  <2> QED
    BY <1>0, <2>1, <2>2, <2>3, RecordStep
<1>10. CASE RejectUnconsolidated
  BY <1>10, AbortStep DEF RejectUnconsolidated
<1>11. CASE BeginDisconnectBlock
  <2>1. phase = "idle" /\ phase' = "undo" /\ tip \in DOMAIN stored
        /\ cur' = stored[tip].entries
        /\ UNCHANGED <<tip, dbs, utxos, blk, stored, saved>>
    BY <1>11 DEF BeginDisconnectBlock
  <2>2. EntriesOK(cur') /\ \A n \in DOMAIN cur' : DbsInv(cur'[n].before)
    BY <2>1 DEF IndInv, TypeOK, AllDbsInv
  <2>3. dbs' = After(stored[tip].entries, saved.dbs, Len(cur'))
    BY <2>1 DEF IndInv, PhaseInv, After
  <2>4. Len(cur') \in Nat
    BY <2>2, Zenon DEF EntriesOK
  <2>5. Len(cur') <= Len(cur')
    BY <2>4
  <2>6. PhaseInv'
    BY <2>1, <2>3, <2>5 DEF PhaseInv, Connecting
  <2> QED
    BY <1>0, <2>1, <2>2, <2>6, OpenStep
<1>12. CASE UndoDiff
  BY <1>12, UndoStep
<1>13. CASE FinishDisconnectBlock
  BY <1>13, FinishDisconnectStep
<1>14. CASE Crash
  BY <1>14, AbortStep DEF Crash
<1>15. CASE UNCHANGED vars
  <2>1. UNCHANGED <<phase, tip, dbs, utxos, cur, blk, stored, saved>>
    BY <1>15 DEF vars
  <2>2. TypeOK'
    BY <2>1 DEF IndInv, TypeOK
  <2>3. AllDbsInv'
    BY <2>1 DEF IndInv, AllDbsInv
  <2>4. StoredLinked'
    BY <2>1 DEF IndInv, StoredLinked, EndOf
  <2>5. PhaseInv'
    BY <2>1 DEF IndInv, PhaseInv, Connecting
  <2> QED BY <2>2, <2>3, <2>4, <2>5 DEF IndInv
<1> QED
  BY <1>1, <1>2, <1>3, <1>4, <1>5, <1>6, <1>7, <1>8, <1>9, <1>10, <1>11, <1>12,
     <1>13, <1>14, <1>15 DEF Next

\* For any slots, descriptions, bundles, thresholds, messages and transactions:
\* between any two diffs of connect_block and disconnect_block the databases
\* are consistent and every stored diff can be undone.
THEOREM Invariance == Spec => []IndInv
<1>1. Init => IndInv
  BY InitIndInv
<1>2. IndInv /\ [Next]_vars => IndInv'
  BY NextIndInv
<1> QED
  BY <1>1, <1>2, PTL DEF Spec

\* Every vote count and every treasury_utxo_count stays a natural number, and
\* every database keeps its key and value types.
THEOREM TypeCorrect == Spec => []TypeOK
<1>1. IndInv => TypeOK
  BY DEF IndInv
<1> QED
  BY <1>1, Invariance, PTL

\* disconnect_block takes the databases back through exactly the states that
\* connect_block went through.
THEOREM DisconnectIsInverse == Spec => []UndoRestores
<1>1. ASSUME IndInv
      PROVE  UndoRestores
  <2> SUFFICES ASSUME phase = "undo"
               PROVE  dbs = IF cur = stored[tip].entries THEN saved.dbs
                            ELSE stored[tip].entries[Len(cur) + 1].before
    BY DEF UndoRestores
  <2> DEFINE entries == stored[tip].entries
  <2>1. /\ tip \in DOMAIN stored /\ \A n \in DOMAIN cur : cur[n] = entries[n]
        /\ dbs = After(entries, saved.dbs, Len(cur))
    BY <1>1 DEF IndInv, PhaseInv
  <2>2. EntriesOK(cur) /\ EntriesOK(entries)
    BY <1>1, <2>1 DEF IndInv, TypeOK
  <2>3. Len(cur) = Len(entries) => cur = entries
    <3>1. cur = [i \in 1..Len(cur) |-> cur[i]]
          /\ entries = [i \in 1..Len(entries) |-> entries[i]]
      BY <2>2, Zenon DEF EntriesOK
    <3>2. DOMAIN cur = 1..Len(cur)
      BY <2>2, AppendEntries
    <3> HIDE DEF entries
    <3> QED BY <2>1, <3>1, <3>2, Zenon
  <2> HIDE DEF entries
  <2>4. dbs = IF cur = entries THEN saved.dbs ELSE entries[Len(cur) + 1].before
    BY <2>1, <2>3, Zenon DEF After
  <2> QED BY <2>4 DEF entries
<1> QED
  BY <1>1, Invariance, PTL

\* disconnect_block never meets an UndoError.
THEOREM NoUndoError == Spec => []UndoNeverFails
<1>1. IndInv => UndoNeverFails
  BY UndoNext DEF UndoNeverFails
<1> QED
  BY <1>1, Invariance, PTL

\* The four treasury databases tell the same story at every step.
THEOREM TreasuryAlwaysConsistent == Spec => []TreasuryConsistent
<1>1. IndInv => TreasuryConsistent
  BY DEF IndInv, AllDbsInv, DbsInv, TreasuryConsistent
<1> QED
  BY <1>1, Invariance, PTL

\* What disconnect_block commits is what was there before the block.
THEOREM DisconnectCommitsStart == Spec => DisconnectRestores
<1> DEFINE A == phase = "undo" /\ phase' = "idle" /\ tip' < tip =>
                  saved'.dbs = stored[tip].start
<1>1. IndInv /\ [Next]_vars => [A]_vars
  <2> SUFFICES ASSUME IndInv, Next, phase = "undo", phase' = "idle", tip' < tip
               PROVE  saved'.dbs = stored[tip].start
    OBVIOUS
  <2>1. tip \in Int
    BY DEF IndInv, TypeOK
  <2>2. ~(tip < tip)
    BY <2>1
  <2>3. CASE FinishDisconnectBlock
    BY <2>3, UndoneBlock DEF FinishDisconnectBlock
  <2>4. CASE UndoDiff
    BY <2>4 DEF UndoDiff
  <2>5. CASE Crash
    BY <2>2, <2>5 DEF Crash, Abort
  <2>6. FinishDisconnectBlock \/ UndoDiff \/ Crash
    BY DEF Next, ConnectPreActivationBlock, BeginConnectBlock, HandleCoinbaseMessage,
           RejectCoinbaseMessage, HandleFailedSidechainProposals, HandleFailedM6ids,
           HandleTransaction, RejectTransaction, FinalizeConnectBlock,
           RejectUnconsolidated, BeginDisconnectBlock
  <2> QED BY <2>3, <2>4, <2>5, <2>6
<1> QED
  BY <1>1, Invariance, PTL DEF Spec, DisconnectRestores

-----------------------------------------------------------------------------
(***************************************************************************)
(* The validator implements ChainState.                                    *)
(***************************************************************************)

\* Recording a block is Connect: the state before it is kept under its height.
LEMMA RecordConnects ==
  ASSUME IndInv, NEW entries, Record(entries), saved'.dbs = dbs
  PROVE  Chain!Connect
<1> DEFINE old == {h \in DOMAIN stored : h <= tip + 1 - KeepBlocks}
           block == [start |-> saved.dbs, utxos |-> saved.utxos, entries |-> entries]
           kept == (DOMAIN stored \ old) \cup {tip + 1}
<1>1. tip' = tip + 1 /\ DbsInv(saved'.dbs)
  BY DEF Record, IndInv, AllDbsInv
<1>2. stored' = [x \in kept |-> IF x = tip + 1 THEN block ELSE stored[x]]
  BY DEF Record, Put, Delete, Restrict
<1>3. StatesBefore' = [x \in kept |-> IF x = tip + 1 THEN saved.dbs ELSE stored[x].start]
  <2>1. StatesBefore' = [x \in DOMAIN stored' |-> stored'[x].start]
    BY DEF StatesBefore
  <2>2. \A x \in kept : stored'[x].start
                          = IF x = tip + 1 THEN saved.dbs ELSE stored[x].start
    BY <1>2
  <2> QED BY <1>2, <2>1, <2>2, Zenon
<1>4. StatesBefore'
        = Put(Delete(StatesBefore, {h \in DOMAIN StatesBefore : h <= tip + 1 - KeepBlocks}),
              tip + 1, saved.dbs)
  BY <1>3 DEF StatesBefore, Put, Delete, Restrict
<1> QED BY <1>1, <1>4 DEF Chain!Connect, Chain!Put, Chain!Delete, Chain!Restrict, Put, Delete, Restrict

\* The last step of disconnect_block is Disconnect.
LEMMA FinishDisconnects ==
  ASSUME IndInv, FinishDisconnectBlock
  PROVE  Chain!Disconnect
<1>1. tip \in DOMAIN stored
  BY DEF IndInv, PhaseInv, FinishDisconnectBlock
<1>2. tip' = tip - 1 /\ saved'.dbs = stored[tip].start
  BY UndoneBlock DEF FinishDisconnectBlock
<1>3. stored' = [x \in DOMAIN stored \ {tip} |-> stored[x]]
  BY DEF FinishDisconnectBlock, Delete, Restrict
<1>4. StatesBefore' = [x \in DOMAIN stored \ {tip} |-> stored[x].start]
  BY <1>3 DEF StatesBefore
<1> QED
  BY <1>1, <1>2, <1>4
     DEF StatesBefore, Chain!Disconnect, Chain!Delete, Chain!Restrict

\* Every other step leaves what a reader sees as it is.
LEMMA OpenStepStutters ==
  ASSUME UNCHANGED <<tip, stored, saved>>
  PROVE  UNCHANGED <<tip, saved.dbs, StatesBefore>>
BY DEF StatesBefore

\* Readers of the databases see blocks connected at once or not at all, and
\* disconnected at once, back to exactly the state before the block.
THEOREM Refinement == Spec => ImplementsChainState
<1>1. Init => Chain!Start
  BY DEF Init, Chain!Start, Chain!EmptyMap, EmptyMap, StatesBefore
<1>2. IndInv /\ [Next]_vars => [Chain!Connect \/ Chain!Disconnect]_<<tip, saved.dbs, StatesBefore>>
  <2> SUFFICES ASSUME IndInv, [Next]_vars
               PROVE  \/ Chain!Connect \/ Chain!Disconnect
                      \/ UNCHANGED <<tip, saved.dbs, StatesBefore>>
    OBVIOUS
  <2>1. CASE ConnectPreActivationBlock
    <3>1. saved'.dbs = dbs /\ Record(<<>>)
      BY <2>1 DEF ConnectPreActivationBlock, Record
    <3> QED BY <3>1, RecordConnects
  <2>2. CASE FinalizeConnectBlock
    <3>1. saved'.dbs = dbs /\ Record(cur)
      BY <2>2 DEF FinalizeConnectBlock, Record
    <3> QED BY <3>1, RecordConnects
  <2>3. CASE FinishDisconnectBlock
    BY <2>3, FinishDisconnects
  <2>4. CASE UNCHANGED <<tip, stored, saved>>
    BY <2>4, OpenStepStutters
  <2>5. Next => \/ ConnectPreActivationBlock \/ FinalizeConnectBlock
                \/ FinishDisconnectBlock \/ UNCHANGED <<tip, stored, saved>>
    BY Zenon DEF Next, BeginConnectBlock, HandleCoinbaseMessage,
           RejectCoinbaseMessage, HandleFailedSidechainProposals, HandleFailedM6ids,
           HandleTransaction, RejectTransaction, RejectUnconsolidated, Abort, Crash,
           BeginDisconnectBlock, UndoDiff
  <2>6. UNCHANGED vars => UNCHANGED <<tip, stored, saved>>
    BY DEF vars
  <2> QED BY <2>1, <2>2, <2>3, <2>4, <2>5, <2>6
<1> QED
  BY <1>1, <1>2, Invariance, PTL DEF Spec, ImplementsChainState, Chain!Chained, Chain!chainVars
=============================================================================
