------------------------------ MODULE MCWallet ------------------------------
(***************************************************************************)
(* The wallet's components for TLC: the transactions it makes              *)
(* (WalletSpends), how it follows the chain (WalletSync, once replaying    *)
(* block by block while the node's tip moves, once from a birthday with    *)
(* full scans) and its locks (WalletLocks).  They share no state, so a     *)
(* behaviour runs one of them, `component`, and the others stay in an      *)
(* initial state.                                                          *)
(***************************************************************************)
EXTENDS Wallet

VARIABLE component

-----------------------------------------------------------------------------
(* The wallet's chain, in the tree                                         *)
(*                                                                         *)
(*     g - a1 - a2 - a3 - a4                                               *)
(*       \    \ c2                                                         *)
(*         b1 - b2 - b3                                                    *)

Tree == [g |-> "none", a1 |-> "g", a2 |-> "a1", a3 |-> "a2", a4 |-> "a3",
         c2 |-> "a1", b1 |-> "g", b2 |-> "b1", b3 |-> "b2"]

VARIABLES w_active, w_tip, w_wallet, w_seen, w_unlocked, w_pc, w_target, w_todo,
          w_stack, w_synced

walletsync == <<w_active, w_tip, w_wallet, w_seen, w_unlocked, w_pc, w_target, w_todo,
                w_stack, w_synced>>

Replay ==
  INSTANCE WalletSync WITH
    Block <- DOMAIN Tree, NoBlock <- "none", Parent <- Tree, Genesis <- "g",
    Birthday <- 0, BIRTHDAY_REORG_MARGIN <- 1, max_block_by_block_replay <- 99,
    NodeMovesInSync <- TRUE,
    active <- w_active, tip <- w_tip, wallet <- w_wallet, seen <- w_seen,
    unlocked <- w_unlocked, pc <- w_pc, target <- w_target, todo <- w_todo,
    stack <- w_stack, synced <- w_synced

Scan ==
  INSTANCE WalletSync WITH
    Block <- DOMAIN Tree, NoBlock <- "none", Parent <- Tree, Genesis <- "g",
    Birthday <- 2, BIRTHDAY_REORG_MARGIN <- 1, max_block_by_block_replay <- 1,
    NodeMovesInSync <- FALSE,
    active <- w_active, tip <- w_tip, wallet <- w_wallet, seen <- w_seen,
    unlocked <- w_unlocked, pc <- w_pc, target <- w_target, todo <- w_todo,
    stack <- w_stack, synced <- w_synced

-----------------------------------------------------------------------------
(* The wallet's locks: every kind of call, not all of them at once.        *)

Crews == {{"enforcer", "sync", "scan", "send"}, {"enforcer", "hook", "unlock", "scan"}}

ASSUME Replay!WalletAssumption /\ Scan!WalletAssumption

-----------------------------------------------------------------------------

MCInit ==
  /\ component \in {"replay", "scan", "spends", "locks"}
  /\ Replay!Init /\ Init /\ Locks!Init
  /\ component \in {"spends", "locks"} => w_unlocked
  /\ \E crew \in Crews :
       /\ l_calls = [p \in Locks!Proc |-> IF p \in crew THEN 0 ELSE 1]
       /\ component # "locks" => "send" \in crew

MCNext ==
  \/ component = "replay" /\ Replay!Next /\ UNCHANGED <<component, vars, locks>>
  \/ component = "scan" /\ Scan!Next /\ UNCHANGED <<component, vars, locks>>
  \/ component = "spends" /\ Next /\ UNCHANGED <<component, walletsync, locks>>
  \/ component = "locks" /\ Locks!Next /\ UNCHANGED <<component, walletsync, vars>>

MCSpec == MCInit /\ [][MCNext]_<<component, walletsync, vars, locks>>

\* The fairness of each component's FairSpec, for the one that runs: a sync
\* that has begun goes on, a connected block reaches the wallet, and a call
\* that may take its next step does.
MCFairSpec ==
  /\ MCSpec
  /\ WF_walletsync(component = "scan" /\ Scan!Sync)
  /\ WF_vars(component = "spends" /\ ConnectWallet)
  /\ \A p \in Locks!Proc : WF_locks(component = "locks" /\ Locks!Step(p))

\* A sync that returns Ok has given the wallet the transactions of every block
\* of the target's chain from the birthday's margin on; without a full scan it
\* also leaves a local chain that is the target's, whatever branch the wallet
\* was on.
SyncedWalletComplete ==
  /\ component = "replay" =>
       Replay!TypeOK /\ Replay!WalletOnActiveChain /\ Replay!NoBlockMissed
  /\ component = "scan" => Scan!TypeOK /\ Scan!NoBlockMissed

\* A sync comes to an end as long as the node's tip stays during it.
SyncEnds == component = "scan" => Scan!SyncEnds

\* Every call that takes the wallet's locks ends.
CallsEnd == Locks!CallsEnd
=============================================================================
