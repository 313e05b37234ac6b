------------------------------- MODULE MCSync -------------------------------
(***************************************************************************)
(* Instances of the two sync components for TLC: the chain sync on the     *)
(* tree of MCChainSync, and the sync from block files.  They share no      *)
(* state, so a behaviour runs one of them, `component`, and the other      *)
(* stays in its initial state: the states of the two add up.               *)
(***************************************************************************)
EXTENDS MCChainSync

CONSTANT x   \* a block of another branch

VARIABLES component,
          f_pc, f_tip, f_missing, f_pending, f_cache, f_started, f_misses, f_reads, f_seen

files == <<f_pc, f_tip, f_missing, f_pending, f_cache, f_started, f_misses, f_reads, f_seen>>

\* The last of the missing blocks is rejected, or all of them are good.
Files ==
  INSTANCE BlockFiles WITH
    N <- 5, Other <- {x}, PreActivated <- 0, Rejected <- {5},
    MAX_BLOCK_CACHE_SIZE <- 3, MAX_ITERATIONS_WITHOUT_MATCH <- 4,
    BLOCKS_DIR_CONNECT_BATCH_SIZE <- 2, MaxReads <- 8,
    pc <- f_pc, tip <- f_tip, missing <- f_missing, pending <- f_pending,
    cache <- f_cache, started <- f_started, misses <- f_misses,
    reads <- f_reads, seen <- f_seen

GoodFiles ==
  INSTANCE BlockFiles WITH
    N <- 5, Other <- {x}, PreActivated <- 0, Rejected <- {},
    MAX_BLOCK_CACHE_SIZE <- 3, MAX_ITERATIONS_WITHOUT_MATCH <- 4,
    BLOCKS_DIR_CONNECT_BATCH_SIZE <- 2, MaxReads <- 8,
    pc <- f_pc, tip <- f_tip, missing <- f_missing, pending <- f_pending,
    cache <- f_cache, started <- f_started, misses <- f_misses,
    reads <- f_reads, seen <- f_seen

ASSUME Files!CacheAssumption /\ GoodFiles!CacheAssumption

MCInit ==
  /\ component \in {"chain", "files", "good_files"}
  /\ Init /\ Files!Init
  /\ component # "chain" => active = g /\ ~rest

MCNext ==
  \/ component = "chain" /\ Next /\ UNCHANGED <<component, files>>
  \/ component = "files" /\ Files!Next /\ UNCHANGED <<component, vars>>
  \/ component = "good_files" /\ GoodFiles!Next /\ UNCHANGED <<component, vars>>

MCSpec == MCInit /\ [][MCNext]_<<component, vars, files>>

\* The header store and the DBs of put_block_info are closed under parents and
\* hold no rejected block, whatever the node's chain did between two requests
\* and wherever the process stopped; so the errors for a broken database never
\* happen.
DatabasesClosed ==
  component = "chain" => TypeOK /\ HeadersClosed /\ ChainStored /\ NoBrokenDatabase

\* Connected, staged and missing blocks of a file sync are together the whole
\* chain, whatever ends a batch, and the JSON-RPC sync takes over exactly the
\* blocks that are left.
NoBlockLost ==
  component # "chain" =>
    Files!TypeOK /\ Files!AllAccounted /\ Files!HandsBackExactlyTheRest

\* The block cache of a file sync never holds the block that is waited for, and
\* the order of the blocks in the files does not matter as long as they fit it.
OrderOfFilesIrrelevant ==
  /\ component # "chain" => Files!CacheNeverHidesNext
  /\ component = "files" => Files!OrderOfFilesIrrelevant
  /\ component = "good_files" => GoodFiles!OrderOfFilesIrrelevant
=============================================================================
