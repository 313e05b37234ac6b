---------------------------- MODULE MCChainSync -----------------------------
(***************************************************************************)
(* Instances of ChainSync for TLC: a block tree with two forks             *)
(*                                                                         *)
(*     g - a1 - a2 - a3 - a4 - a5                                          *)
(*           \    \ c3 - c4                                                *)
(*            b2 - b3 - b4                                                 *)
(*                                                                         *)
(* of which each run takes a part.                                         *)
(***************************************************************************)
EXTENDS ChainSync

CONSTANTS g, a1, a2, a3, a4, a5, b2, b3, b4, c3, c4

Tree ==
  [b \in Block |->
     CASE b = g -> NoBlock [] b = a1 -> g
       [] b \in {a2, b2} -> a1 [] b \in {a3, c3} -> a2
       [] b = a4 -> a3 [] b = a5 -> a4 [] b = c4 -> c3
       [] b = b3 -> b2 [] b = b4 -> b3]

NoSnapshot == -1
=============================================================================
