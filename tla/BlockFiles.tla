----------------------------- MODULE BlockFiles -----------------------------
(***************************************************************************)
(* Block sync from the node's block files: sync_from_directory of          *)
(* src/lib/validator/task/block_files.rs, and what sync_blocks does before *)
(* and after the call (task/mod.rs).                                       *)
(*                                                                         *)
(* The blocks from the enforcer's tip to the tip being synced to are the   *)
(* numbers 1..N; Other are blocks of other branches.  The files hold them  *)
(* in any order, and may lack some or repeat some: the parser returns any  *)
(* block, the end of the files, or an error.  missing has the next block   *)
(* first (the code's vector has it last).                                  *)
(***************************************************************************)
EXTENDS Integers, Sequences, FiniteSets, SequencesExt, FiniteSetsExt

CONSTANTS N, Other,
          PreActivated,   \* how many of 1..N are below the activation height
          Rejected,       \* blocks connect_block rejects
          MAX_BLOCK_CACHE_SIZE,
          MAX_ITERATIONS_WITHOUT_MATCH,
          BLOCKS_DIR_CONNECT_BATCH_SIZE,
          MaxReads        \* bound on the blocks the files hold

VARIABLES pc,
          tip,      \* blocks 1..tip are connected and committed
          missing, pending,
          cache,    \* BlockCache: the cached blocks, oldest first
          started, misses,
          reads,    \* how many blocks the parser has returned
          seen      \* which

vars == <<pc, tip, missing, pending, cache, started, misses, reads, seen>>

CacheAssumption ==
  /\ N \in Nat /\ PreActivated \in 0..N /\ Other \cap (1..N) = {}
  /\ Rejected \subseteq (PreActivated + 1)..N
  /\ MAX_BLOCK_CACHE_SIZE \in Nat \ {0}
  /\ MAX_ITERATIONS_WITHOUT_MATCH \in Nat \ {0}
  /\ BLOCKS_DIR_CONNECT_BATCH_SIZE \in Nat \ {0}

From(i) == [k \in 1..(N - i + 1) |-> i + k - 1]

-----------------------------------------------------------------------------
(* BlockCache                                                              *)

\* Mutant of CacheInsert: one block too many is evicted.
CacheInsert_EvictsEarly(c, b) ==
  IF b \in Range(c) THEN c
  ELSE Append(SubSeq(c, Max({1, Len(c) - MAX_BLOCK_CACHE_SIZE + 3}), Len(c)), b)

\* Evict from the front until there is room, unless the block is cached.
CacheInsert(c, b) ==
  IF b \in Range(c) THEN c
  ELSE Append(SubSeq(c, Max({1, Len(c) - MAX_BLOCK_CACHE_SIZE + 2}), Len(c)), b)

CacheRemove(c, b) == SelectSeq(c, LAMBDA x : x # b)

-----------------------------------------------------------------------------
(* Connecting                                                              *)

\* restore_pending_blocks
Restored(ms, ps) == ps \o ms

\* handle_block_batch_and_commit: how many blocks connect on top of t.
Accepted(t, ps) ==
  Max({0} \cup {k \in 1..Len(ps) : \A j \in 1..k : ps[j] = t + j /\ ps[j] \notin Rejected})

\* connect_pending_blocks on ms and ps, then go on to ok, or to stop when a
\* block was rejected; or a fatal error that commits nothing and leaves ps
\* staged.
ConnectPending(ms, ps, ok, stop) ==
  LET k == Accepted(tip, ps)
  IN  \/ /\ tip' = tip + k
         /\ missing' = Restored(ms, SubSeq(ps, k + 1, Len(ps)))
         /\ pending' = <<>>
         /\ pc' = IF k = Len(ps) THEN ok ELSE stop
      \/ /\ pc' = "error"
         /\ missing' = ms /\ pending' = ps /\ UNCHANGED tip

\* Stage the next expected block, and connect the batch when it is full or
\* complete.
Stage(ok) ==
  LET ps == Append(pending, Head(missing))
      ms == Tail(missing)
  IN  IF Len(ps) >= BLOCKS_DIR_CONNECT_BATCH_SIZE \/ ms = <<>>
        THEN ConnectPending(ms, ps, ok, "flush")
        ELSE pending' = ps /\ missing' = ms /\ pc' = ok /\ UNCHANGED tip

-----------------------------------------------------------------------------
(* The steps of sync_from_directory_inner                                  *)

\* sync_blocks calls in, the pre-activation blocks already connected from
\* their headers; the first missing block is read off the end of the vector.
Enter ==
  /\ pc = "enter"
  /\ pc' = IF missing = <<>> THEN "panic" ELSE "loop"
  /\ UNCHANGED <<tip, missing, pending, cache, started, misses, reads, seen>>

\* The parser returns the block b.  Until the first missing block is found
\* everything else is cached.
ReadUnmatched(b) ==
  /\ pc = "loop" /\ reads < MaxReads /\ missing # <<>> /\ b # missing[1]
  /\ cache' = CacheInsert(cache, b)
  /\ misses' = IF started THEN misses + 1 ELSE misses
  /\ pc' = IF misses' >= MAX_ITERATIONS_WITHOUT_MATCH THEN "flush" ELSE "loop"
  /\ reads' = reads + 1 /\ seen' = seen \cup {b}
  /\ UNCHANGED <<tip, missing, pending, started>>

ReadExpected ==
  /\ pc = "loop" /\ reads < MaxReads /\ missing # <<>>
  /\ Stage("cached")
  /\ started' = TRUE /\ misses' = 0 /\ reads' = reads + 1
  /\ seen' = seen \cup {missing[1]}
  /\ UNCHANGED cache

\* Everything was synced: the next block read ends the loop.
ReadPastEnd ==
  /\ pc = "loop" /\ reads < MaxReads /\ missing = <<>>
  /\ pc' = "flush"
  /\ UNCHANGED <<tip, missing, pending, cache, started, misses, reads, seen>>

\* One round of process_cached_blocks.
ProcessCachedBlocks ==
  /\ pc = "cached"
  /\ IF missing # <<>> /\ missing[1] \in Range(cache)
       THEN Stage("cached") /\ cache' = CacheRemove(cache, missing[1])
       ELSE pc' = "loop" /\ UNCHANGED <<tip, missing, pending, cache>>
  /\ UNCHANGED <<started, misses, reads, seen>>

\* The files end.
EndOfFiles ==
  /\ pc = "loop" /\ pc' = "flush"
  /\ UNCHANGED <<tip, missing, pending, cache, started, misses, reads, seen>>

\* Setting up or parsing fails.
ParseError ==
  /\ pc = "loop" /\ pc' = "error"
  /\ UNCHANGED <<tip, missing, pending, cache, started, misses, reads, seen>>

\* A shutdown connects the staged blocks and returns an error.
Cancelled ==
  /\ pc = "loop"
  /\ IF pending = <<>> THEN pc' = "error" /\ UNCHANGED <<tip, missing, pending>>
     ELSE ConnectPending(missing, pending, "error", "error")
  /\ UNCHANGED <<cache, started, misses, reads, seen>>

\* Every way out of the loop but an error connects what is still staged.
Flush ==
  /\ pc = "flush"
  /\ IF pending = <<>> THEN pc' = "return" /\ UNCHANGED <<tip, missing, pending>>
     ELSE ConnectPending(missing, pending, "return", "return")
  /\ UNCHANGED <<cache, started, misses, reads, seen>>

\* Mutant of ReturnError: the staged blocks are not handed back.
ReturnError_NoRestore ==
  /\ pc = "error"
  /\ pending' = <<>>
  /\ pc' = IF (IF missing = <<>> THEN tip = N ELSE missing[1] = tip + 1)
             THEN "rpc" ELSE "bail"
  /\ UNCHANGED <<tip, missing, cache, started, misses, reads, seen>>

\* sync_from_directory hands back what an error left staged, and sync_blocks
\* goes on to JSON-RPC if the missing blocks still connect to the tip.
ReturnError ==
  /\ pc = "error"
  /\ missing' = Restored(missing, pending) /\ pending' = <<>>
  /\ pc' = IF (IF missing' = <<>> THEN tip = N ELSE missing'[1] = tip + 1)
             THEN "rpc" ELSE "bail"
  /\ UNCHANGED <<tip, cache, started, misses, reads, seen>>

Return ==
  /\ pc = "return" /\ pc' = "rpc"
  /\ UNCHANGED <<tip, missing, pending, cache, started, misses, reads, seen>>

Init ==
  /\ pc = "enter" /\ tip = PreActivated /\ missing = From(PreActivated + 1)
  /\ pending = <<>> /\ cache = <<>> /\ started = FALSE /\ misses = 0 /\ reads = 0
  /\ seen = {}

Next ==
  \/ Enter
  \/ \E b \in (1..N) \cup Other : ReadUnmatched(b)
  \/ ReadExpected \/ ReadPastEnd \/ ProcessCachedBlocks
  \/ EndOfFiles \/ ParseError \/ Cancelled
  \/ Flush \/ ReturnError \/ Return

Spec == Init /\ [][Next]_vars

-----------------------------------------------------------------------------
(* Properties                                                              *)

\* The loop ends at MAX_ITERATIONS_WITHOUT_MATCH misses in a row, and its
\* lists hold blocks.
TypeOK ==
  /\ pc \in {"enter", "loop", "cached", "flush", "return", "error", "rpc", "bail", "panic"}
  /\ tip \in 0..N /\ missing \in Seq(1..N) /\ pending \in Seq(1..N)
  /\ cache \in Seq((1..N) \cup Other)
  /\ started \in BOOLEAN /\ misses \in 0..MAX_ITERATIONS_WITHOUT_MATCH
  /\ reads \in 0..MaxReads /\ seen \subseteq (1..N) \cup Other

\* Connected, staged and missing blocks are together the whole chain, in
\* order: a rejected block, a failed commit or a shutdown in the middle of a
\* batch neither drops a block nor brings one back twice.
AllAccounted == [i \in 1..tip |-> i] \o pending \o missing = From(1)

\* Whatever ended the file sync, the JSON-RPC sync starts with missing
\* describing exactly what is left (the comment on sync_from_directory), and
\* the check for a gap never has to bail out.
HandsBackExactlyTheRest ==
  /\ pc = "rpc" => pending = <<>> /\ missing = From(tip + 1)
  /\ pc # "bail"

\* The cache never exceeds its limit, holds no block twice, and never holds
\* the block the loop is waiting for: process_cached_blocks took it.
CacheNeverHidesNext ==
  /\ Len(cache) <= MAX_BLOCK_CACHE_SIZE /\ IsInjective(cache)
  /\ pc = "loop" /\ missing # <<>> => missing[1] \notin Range(cache)

\* As long as the blocks read fit the cache next to the one being looked for,
\* their order in the files does not matter: a file sync without errors stops
\* only at a block that was not read, or one that was rejected.
OrderOfFilesIrrelevant ==
  pc = "return" /\ missing # <<>> /\ Cardinality(seen) <= MAX_BLOCK_CACHE_SIZE + 1 =>
    missing[1] \notin seen \/ missing[1] \in Rejected

\* sync_from_directory is called with a block to look for (its expect on the
\* last missing block).
CalledWithWork == pc # "panic"
=============================================================================
