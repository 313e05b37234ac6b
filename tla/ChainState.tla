----------------------------- MODULE ChainState -----------------------------
(***************************************************************************)
(* What the validator promises its readers, with no mention of messages,   *)
(* diffs or write transactions: the databases are a function of the chain. *)
(* A block is connected at once and leaves some consistent state;          *)
(* disconnecting the tip brings back the state before it, exactly.         *)
(***************************************************************************)
EXTENDS Integers, SidechainDbs

CONSTANTS EmptyState,   \* before any block
          Good(_),      \* the states that are consistent
          Keep          \* how many blocks can be disconnected

VARIABLES tip,     \* height of the last block, -1 if there is none
          state,   \* what a reader sees
          before   \* height of a block -> what a reader saw before it

chainVars == <<tip, state, before>>

Start == tip = -1 /\ state = EmptyState /\ before = EmptyMap

Connect ==
  /\ tip' = tip + 1
  /\ Good(state')
  /\ before' = Put(Delete(before, {h \in DOMAIN before : h <= tip + 1 - Keep}),
                   tip + 1, state)

Disconnect ==
  /\ tip \in DOMAIN before
  /\ tip' = tip - 1
  /\ state' = before[tip]
  /\ before' = Delete(before, {tip})

Chained == Start /\ [][Connect \/ Disconnect]_chainVars
=============================================================================
