----------------------------- MODULE WalletSync -----------------------------
(***************************************************************************)
(* How the wallet follows the validator's chain                            *)
(* (src/lib/wallet/cusf_block_producer.rs): sync_wallet_to_tip, called for *)
(* every block the validator connects and once after the initial sync,     *)
(* and connect_missing_block, which it falls back to when BDK cannot       *)
(* connect a block.  Missing blocks are asked from the node by height, so  *)
(* the answer is the node's active chain and not the validator's.          *)
(*                                                                         *)
(* The wallet is BDK's local chain, a sequence of blocks with the block at *)
(* height h in position h + 1, and the set of blocks whose transactions    *)
(* it has been given.  Persisting is part of each update.                  *)
(***************************************************************************)
EXTENDS BlockTree, FiniteSetsExt

CONSTANTS Genesis,
          Birthday,                 \* recorded birthday height
          BIRTHDAY_REORG_MARGIN,
          max_block_by_block_replay,
          NodeMovesInSync           \* may the node's tip move during a sync?

VARIABLES
  active,           \* the node's tip
  tip,              \* the validator's tip
  wallet, seen,     \* BDK's local chain; the blocks it has been given
  unlocked,
  pc, target, todo, \* the sync: its new_tip_hash, and the rest of block_infos
  stack,            \* try_includes of connect_missing_block
  synced            \* the target of the last sync that returned Ok

chains == <<active, tip>>
bdk == <<wallet, seen>>
job == <<target, todo, stack>>
vars == <<chains, bdk, unlocked, pc, job, synced>>

WalletAssumption ==
  /\ Genesis \in Block /\ Parent[Genesis] = NoBlock
  /\ Birthday \in Nat /\ BIRTHDAY_REORG_MARGIN \in Nat
  /\ max_block_by_block_replay \in Nat /\ NodeMovesInSync \in BOOLEAN

-----------------------------------------------------------------------------
(* BDK                                                                     *)

TipHeight(w) == Len(w) - 1
Holds(w, h, b) == h \in 0..TipHeight(w) /\ w[h + 1] = b

\* apply_block merges the update <<prev block, block>> into the local chain.
\* It needs a block in common; a block that differs replaces the one that is
\* there and everything above it.
Connects(w, b) == Holds(w, Height(b) - 1, Parent[b]) \/ Holds(w, Height(b), b)

apply_block(w, b) ==
  LET h == Height(b)
  IN  IF h = 0 \/ Holds(w, h - 1, Parent[b])
      THEN IF Holds(w, h, b) THEN w ELSE Append(SubSeq(w, 1, h), b)
      ELSE [SubSeq(w, 1, h + 1) EXCEPT ![h] = Parent[b]]

\* CannotConnectError: the highest block of the local chain below the update.
try_include_height(w, b) == Min({TipHeight(w), Height(b) - 2})

\* get_chain_checkpoint: the local chain's tip extended with the validator's
\* headers above it, up to up_to_height.
get_chain_checkpoint(w, up_to_height) ==
  w \o SubSeq(Chain[tip], Len(w) + 1, Min({up_to_height, Height(tip)}) + 1)

-----------------------------------------------------------------------------
(* sync_wallet_to_tip                                                      *)

NoJob == target' = NoBlock /\ todo' = <<>> /\ stack' = <<>>

Finish(pc1, done) == pc' = pc1 /\ synced' = done /\ NoJob

\* An error ends the enforcer's task; it starts again with an initial sync.
Fail == Finish("down", NoBlock) /\ UNCHANGED <<chains, bdk, unlocked>>

Begin ==
  /\ pc = "begin"
  /\ IF unlocked /\ Last(wallet) # target
     THEN pc' = "birthday" /\ UNCHANGED <<job, synced>>
     ELSE Finish("idle", IF unlocked THEN target ELSE NoBlock)
  /\ UNCHANGED <<chains, bdk, unlocked>>

FirstHeld == Max({0, Birthday - BIRTHDAY_REORG_MARGIN})

\* Mutant of skip_below: no block below the birthday's is kept.
skip_below_NoMargin == Min({Birthday, Height(target)})

skip_below == Min({FirstHeld, Height(target)})

\* fast_forward_chain
FastForward ==
  /\ pc = "birthday"
  /\ wallet' = IF TipHeight(wallet) < skip_below
               THEN get_chain_checkpoint(wallet, skip_below) ELSE wallet
  /\ pc' = "gap"
  /\ UNCHANGED <<chains, seen, unlocked, job, synced>>

blocks_behind == Height(target) - TipHeight(wallet)

\* block_infos: the expected_blocks newest blocks up to the target, the
\* newest first.
block_infos(w) ==
  LET expected_blocks == Max({1, Height(target) - TipHeight(w)})
  IN  Reverse(SubSeq(Chain[target], Len(Chain[target]) - expected_blocks + 1,
                     Len(Chain[target])))

\* Too far behind with no chain source, the wallet replays all the same.
Replay ==
  /\ pc = "gap"
  /\ todo' = block_infos(wallet)
  /\ pc' = "connect"
  /\ UNCHANGED <<chains, bdk, unlocked, target, stack, synced>>

\* full_scan: one checkpoint up to the validator's tip, and the chain source's
\* account of every transaction up to there.
FullScan ==
  /\ pc = "gap"
  /\ blocks_behind > max_block_by_block_replay
  /\ LET w == get_chain_checkpoint(wallet, Height(tip))
     IN  wallet' = w /\ todo' = block_infos(w)
  /\ seen' = seen \cup Range(Chain[tip])
  /\ pc' = "connect"
  /\ UNCHANGED <<chains, unlocked, target, stack, synced>>

\* The scan, or a request to the node, fails.
RequestFails == pc \in {"gap", "connect", "missing"} /\ Fail

\* handle_connect_block applies and persists in one step under the locks.
Apply(b) == wallet' = apply_block(wallet, b) /\ seen' = seen \cup {b}

\* Mutant of IncludeFrom: as BDK recommends.
IncludeFrom_Recommended(b) == try_include_height(wallet, b)

\* The recommended height connects as it is: the block above it is missing.
IncludeFrom(b) == try_include_height(wallet, b) + 1

ConnectBlockInfo ==
  /\ pc = "connect"
  /\ LET b == Head(todo)
     IN  IF Connects(wallet, b)
         THEN /\ Apply(b)
              /\ IF Len(todo) = 1 THEN Finish("idle", target)
                 ELSE todo' = Tail(todo) /\ UNCHANGED <<pc, target, stack, synced>>
         ELSE /\ stack' = <<[height |-> IncludeFrom(b), block |-> NoBlock]>>
              /\ pc' = "missing"
              /\ UNCHANGED <<bdk, target, todo, synced>>
  /\ UNCHANGED <<chains, unlocked>>

FetchMissing ==
  /\ pc = "missing" /\ Last(stack).block = NoBlock
  /\ IF Last(stack).height > Height(active) THEN Fail
     ELSE /\ stack' = [stack EXCEPT ![Len(stack)].block =
                         Chain[active][Last(stack).height + 1]]
          /\ UNCHANGED <<chains, bdk, unlocked, pc, target, todo, synced>>

\* Step down one height at a time; the reported height only shows that there
\* is still a way down.
NextInclude(top) == top.height - 1

ConnectMissing ==
  /\ pc = "missing" /\ Last(stack).block # NoBlock
  /\ LET top == Last(stack)
     IN  IF Connects(wallet, top.block)
         THEN /\ Apply(top.block)
              /\ stack' = Front(stack)
              /\ pc' = IF Len(stack) = 1 THEN "connect" ELSE pc
              /\ UNCHANGED <<chains, unlocked, target, todo, synced>>
         ELSE IF try_include_height(wallet, top.block) < top.height
         THEN /\ stack' = Append(stack, [height |-> NextInclude(top), block |-> NoBlock])
              /\ UNCHANGED <<chains, bdk, unlocked, pc, target, todo, synced>>
         ELSE Fail

-----------------------------------------------------------------------------
(* The enforcer's task, and what it meets                                  *)

Start(b) == target' = b /\ pc' = "begin" /\ synced' = NoBlock /\ UNCHANGED <<todo, stack>>

\* Wallet::connect_block, for the next block towards the node's tip.
ConnectBlock ==
  /\ pc = "idle" /\ tip # active /\ OnChain(tip, active)
  /\ tip' = Chain[active][Height(tip) + 2]
  /\ IF unlocked THEN Start(tip') ELSE UNCHANGED <<pc, job, synced>>
  /\ UNCHANGED <<active, bdk, unlocked>>

\* Wallet::disconnect_block leaves the BDK wallet alone.
DisconnectBlock ==
  /\ pc = "idle" /\ ~OnChain(tip, active)
  /\ tip' = Parent[tip]
  /\ synced' = NoBlock
  /\ UNCHANGED <<active, bdk, unlocked, pc, job>>

\* Wallet::sync_to_tip: the validator first, then the wallet.
SyncToTip ==
  /\ pc = "down"
  /\ tip' = active
  /\ Start(active)
  /\ UNCHANGED <<active, bdk, unlocked>>

NodeMoves ==
  /\ NodeMovesInSync \/ pc \in {"idle", "down"}
  /\ \E b \in Block \ {active} :
       /\ pc \in {"idle", "down"} \/ Height(b) >= Height(active)
       /\ active' = b
  /\ UNCHANGED <<tip, bdk, unlocked, pc, job, synced>>

Unlock == ~unlocked /\ unlocked' = TRUE /\ UNCHANGED <<chains, bdk, pc, job, synced>>

\* The process is shut down, or dies, between two awaits.
Shutdown == pc # "down" /\ Fail

Init ==
  /\ active = Genesis /\ tip = Genesis
  /\ wallet = <<Genesis>> /\ seen = {Genesis}
  /\ unlocked \in BOOLEAN
  /\ pc = "down" /\ target = NoBlock /\ todo = <<>> /\ stack = <<>> /\ synced = NoBlock

Sync ==
  \/ Begin \/ FastForward \/ Replay \/ FullScan
  \/ ConnectBlockInfo \/ FetchMissing \/ ConnectMissing

Next ==
  \/ Sync \/ RequestFails
  \/ ConnectBlock \/ DisconnectBlock \/ SyncToTip
  \/ NodeMoves \/ Unlock \/ Shutdown

Spec == Init /\ [][Next]_vars
FairSpec == Spec /\ WF_vars(Sync)

-----------------------------------------------------------------------------
(* Properties                                                              *)

\* The wallet's chain starts at the first block, and the sync's working
\* state has the shape its step expects.
TypeOK ==
  /\ active \in Block /\ tip \in Block /\ unlocked \in BOOLEAN
  /\ wallet[1] = Genesis /\ Range(wallet) \subseteq Block /\ seen \subseteq Block
  /\ pc \in {"down", "idle", "begin", "birthday", "gap", "connect", "missing"}
  /\ pc = "connect" => todo # <<>> /\ stack = <<>>
  /\ pc = "missing" => todo # <<>> /\ stack # <<>>
  /\ pc \in {"down", "idle"} => target = NoBlock

\* A sync that returns Ok leaves a local chain that holds its target, with
\* the target's own ancestors below it, whatever branch the wallet was on.
WalletOnActiveChain ==
  synced # NoBlock =>
    /\ Holds(wallet, Height(synced), synced)
    /\ SubSeq(wallet, 1, Height(synced) + 1) = Chain[synced]

\* By then the wallet has been given the transactions of every block of that
\* chain from the birthday's margin on: through replays, missing blocks,
\* reorganizations, interrupted syncs and the blocks it missed while locked.
NoBlockMissed ==
  synced # NoBlock =>
    \A b \in Range(Chain[synced]) : Height(b) > FirstHeld => b \in seen

\* A sync comes to an end, so the handler of the connected block returns.
SyncEnds == pc \notin {"idle", "down"} ~> pc \in {"idle", "down"}
=============================================================================
