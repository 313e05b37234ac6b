----------------------------- MODULE BlockTree ------------------------------
(***************************************************************************)
(* The tree of mainchain blocks that the enforcer sees the node move in.   *)
(* Parent gives a block's prev_blockhash; NoBlock is the all-zeros hash    *)
(* that the first block has there, and stands for an absent tip.           *)
(***************************************************************************)
EXTENDS Integers, Sequences, SequencesExt

CONSTANTS Block, NoBlock, Parent

ASSUME TreeAssumption ==
  NoBlock \notin Block /\ Parent \in [Block -> Block \cup {NoBlock}]

ChainOf[b \in Block] ==
  IF Parent[b] = NoBlock THEN <<b>> ELSE Append(ChainOf[Parent[b]], b)

\* The blocks up to b, first block first, and the set of them with NoBlock.
Chain == [b \in Block \cup {NoBlock} |-> IF b = NoBlock THEN <<>> ELSE ChainOf[b]]
Ancestors == [b \in Block \cup {NoBlock} |-> Range(Chain[b]) \cup {NoBlock}]

ChainTo(b) == Chain[b]
Height(b) == Len(Chain[b]) - 1
OnChain(a, b) == a \in Ancestors[b]
=============================================================================
