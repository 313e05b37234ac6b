-------------------------- MODULE ChainRefinement ---------------------------
(***************************************************************************)
(* The validator implements ChainState: the state a reader sees is the     *)
(* committed one, and what it was before a block is where the stored diffs *)
(* of the block start.                                                     *)
(***************************************************************************)
EXTENDS Validator

StatesBefore == [h \in DOMAIN stored |-> stored[h].start]

Chain == INSTANCE ChainState
           WITH EmptyState <- EmptyDbs, Good <- DbsInv, Keep <- KeepBlocks,
                state <- saved.dbs, before <- StatesBefore

\* The many steps of connect_block and disconnect_block, their rejections and
\* the crashes between them look to a reader of the databases like blocks that
\* are connected at once or not at all, and disconnected at once, with
\* exactly the state before the block coming back.
ImplementsChainState == Chain!Chained
=============================================================================
