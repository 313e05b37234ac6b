---------------------------- MODULE WalletSpends ----------------------------
(***************************************************************************)
(* The transactions the wallet creates (src/lib/wallet/mod.rs: deposits,   *)
(* ordinary sends, BMM requests) and how it learns of them and forgets     *)
(* them: apply_unconfirmed_tx at the end of a call, the accept_tx hook's   *)
(* task, the sync task and the eviction of stale BMM requests at a block   *)
(* (sync.rs, cusf_block_producer.rs).                                      *)
(*                                                                         *)
(* A transaction spends one output.  It is selected under the wallet's     *)
(* lock, which is not held while it is broadcast.  A BMM request bids on   *)
(* the block after prev; blocks are counted.                               *)
(***************************************************************************)
EXTENDS Integers, FiniteSets

CONSTANTS Utxo, Caller,
          MaxTxs, MaxTip, MaxStops   \* bounds

VARIABLES
  tip,             \* the validator's tip
  behind,          \* has the wallet yet to handle the validator's last block?
  mempool,         \* the node's
  confirmed,       \* in blocks
  memory, disk,    \* unconfirmed transactions the wallet knows, and has persisted
  hooks,           \* spawned tasks of accept_tx that have yet to run
  job,             \* each caller's call
  syncing,         \* the sync task: holds the wallet's lock unless idle
  made, reported,  \* transactions made; those whose call returned Ok
  stops

chain == <<tip, behind, confirmed>>
wallet == <<memory, disk>>
vars == <<chain, mempool, wallet, hooks, job, syncing, made, reported, stops>>

ASSUME BoundsAssumption == MaxTxs \in Nat /\ MaxTip \in Nat \ {0} /\ MaxStops \in Nat

Kinds == {"deposit", "send", "bmm"}
NoTx == [n |-> 0]
NoSync == [pc |-> "idle", view |-> {}]
Idle == [pc |-> "idle", tx |-> NoTx, success |-> FALSE]

Unlocked == syncing = NoSync
Stale(t, at) == t.kind = "bmm" /\ t.prev # at
Spent(known) == {t.utxo : t \in known \cup confirmed}
Conflicts(t, txs) == \E s \in txs : s # t /\ s.utxo = t.utxo

\* evict_stale_bmm_requests
Evicted(known, at) == {t \in known : ~Stale(t, at)}

-----------------------------------------------------------------------------
(* create_deposit, send_wallet_transaction, create_bmm_request             *)

FirstStep == [deposit |-> "rpc", send |-> "rpc", bmm |-> "p2p"]

Build(c) ==
  /\ job[c].pc = "idle" /\ Unlocked /\ made < MaxTxs
  /\ \E kind \in Kinds, u \in Utxo \ Spent(memory), prev \in {tip, tip - 1} \cap Nat :
       job' = [job EXCEPT ![c] =
                 [pc |-> FirstStep[kind], success |-> FALSE,
                  tx |-> [n |-> made + 1, utxo |-> u, kind |-> kind,
                          prev |-> IF kind = "bmm" THEN prev ELSE 0]]]
  /\ made' = made + 1
  /\ UNCHANGED <<chain, mempool, wallet, hooks, syncing, reported, stops>>

Return(c, ok) ==
  /\ job' = [job EXCEPT ![c] = Idle]
  /\ reported' = IF ok THEN reported \cup {job[c].tx} ELSE reported

\* The node takes a transaction that conflicts with nothing it has; the
\* accept_tx hook then has the wallet apply it in a task of its own.
NodeTakes(t) ==
  /\ ~Conflicts(t, mempool \cup confirmed)
  /\ mempool' = mempool \cup {t}
  /\ hooks' = hooks \cup {t}

\* Mutant of AfterRpc: the transaction is not applied to the wallet.
AfterRpc_NoApply(c, success) ==
  IF job[c].tx.kind = "deposit"
  THEN job' = [job EXCEPT ![c].pc = "p2p", ![c].success = success] /\ UNCHANGED reported
  ELSE Return(c, success)

\* Where a call goes after its broadcast: an unsupported OP_DRIVECHAIN is no
\* success but no error for a deposit either.
AfterRpc(c, success) ==
  CASE job[c].tx.kind = "bmm" -> Return(c, TRUE)
    [] job[c].tx.kind = "send" /\ success ->
         job' = [job EXCEPT ![c].pc = "apply"] /\ UNCHANGED reported
    [] job[c].tx.kind = "send" /\ ~success -> Return(c, FALSE)
    [] job[c].tx.kind = "deposit" ->
         job' = [job EXCEPT ![c].pc = "p2p", ![c].success = success] /\ UNCHANGED reported

RpcAccepts(c) ==
  /\ job[c].pc = "rpc" /\ NodeTakes(job[c].tx)
  /\ AfterRpc(c, TRUE)
  /\ UNCHANGED <<chain, wallet, syncing, made, stops>>

RpcUnsupported(c) ==
  /\ job[c].pc = "rpc"
  /\ AfterRpc(c, FALSE)
  /\ UNCHANGED <<chain, mempool, wallet, hooks, syncing, made, stops>>

\* The node refuses the transaction, or cannot be reached.
RpcError(c) ==
  /\ job[c].pc = "rpc" /\ Return(c, FALSE)
  /\ UNCHANGED <<chain, mempool, wallet, hooks, syncing, made, stops>>

\* All peers have answered; one that took the transaction relays it.  A BMM
\* request that no peer took is an error, unless no peers are configured.
P2pDone(c) ==
  /\ job[c].pc = "p2p"
  /\ \E peers \in BOOLEAN, taken \in BOOLEAN :
       /\ taken => peers
       /\ IF taken THEN NodeTakes(job[c].tx) ELSE UNCHANGED <<mempool, hooks>>
       /\ CASE job[c].tx.kind = "bmm" /\ (taken \/ ~peers) ->
                 job' = [job EXCEPT ![c].pc = "rpc"] /\ UNCHANGED reported
            [] job[c].tx.kind = "deposit" /\ (taken \/ job[c].success) ->
                 job' = [job EXCEPT ![c].pc = "apply"] /\ UNCHANGED reported
            [] OTHER -> Return(c, FALSE)
  /\ UNCHANGED <<chain, wallet, syncing, made, stops>>

\* try_next()? returns with the first peer's error.
P2pError(c) ==
  /\ job[c].pc = "p2p" /\ Return(c, FALSE)
  /\ UNCHANGED <<chain, mempool, wallet, hooks, syncing, made, stops>>

apply_unconfirmed_tx(t) == memory' = memory \cup {t} /\ disk' = disk \cup {t}

ApplyAndReturn(c) ==
  /\ job[c].pc = "apply" /\ Unlocked
  /\ IF job[c].tx \in confirmed THEN UNCHANGED wallet ELSE apply_unconfirmed_tx(job[c].tx)
  /\ Return(c, TRUE)
  /\ UNCHANGED <<chain, mempool, hooks, syncing, made, stops>>

-----------------------------------------------------------------------------
(* The accept_tx hook, blocks and the sync task                            *)

Hook(t) ==
  /\ Unlocked
  /\ hooks' = hooks \ {t}
  /\ IF t \in confirmed THEN UNCHANGED wallet ELSE apply_unconfirmed_tx(t)
  /\ UNCHANGED <<chain, mempool, job, syncing, made, reported, stops>>

\* The validator connects a block with some of the node's transactions.  BMM
\* requests for another block cannot be in it, and stay in the node's mempool.
ConnectBlock ==
  /\ tip < MaxTip /\ ~behind
  /\ tip' = tip + 1 /\ behind' = TRUE
  /\ \E txs \in SUBSET Evicted(mempool, tip) :
       /\ confirmed' = confirmed \cup txs
       /\ mempool' = {t \in mempool \ txs : ~Conflicts(t, txs)}
  /\ UNCHANGED <<wallet, hooks, job, syncing, made, reported, stops>>

\* The wallet's part of connect_block: apply the block, sweep, persist.
ConnectWallet ==
  /\ behind /\ Unlocked
  /\ behind' = FALSE
  /\ memory' = Evicted(memory \ confirmed, tip) /\ disk' = memory'
  /\ UNCHANGED <<tip, confirmed, mempool, hooks, job, syncing, made, reported, stops>>

\* sync_lock: the update is fetched; unless there is none, or it would move
\* the wallet's chain, it is applied and swept, and then committed.
SyncFetch ==
  /\ Unlocked
  /\ syncing' = [pc |-> "fetched", view |-> mempool]
  /\ UNCHANGED <<chain, mempool, wallet, hooks, job, made, reported, stops>>

SyncAbort ==
  /\ syncing.pc = "fetched" /\ syncing' = NoSync
  /\ UNCHANGED <<chain, mempool, wallet, hooks, job, made, reported, stops>>

\* Mutant of SyncApply: stale requests are not evicted.
SyncApply_NoSweep ==
  /\ syncing.pc = "fetched" /\ syncing' = [pc |-> "applied", view |-> {}]
  /\ memory' = memory \cup (syncing.view \ confirmed)
  /\ UNCHANGED <<chain, mempool, disk, hooks, job, made, reported, stops>>

SyncApply ==
  /\ syncing.pc = "fetched" /\ syncing' = [pc |-> "applied", view |-> {}]
  /\ memory' = Evicted(memory \cup (syncing.view \ confirmed), tip)
  /\ UNCHANGED <<chain, mempool, disk, hooks, job, made, reported, stops>>

SyncCommit ==
  /\ syncing.pc = "applied" /\ syncing' = NoSync
  /\ disk' = memory
  /\ UNCHANGED <<chain, mempool, memory, hooks, job, made, reported, stops>>

\* The process dies and starts again; sync_to_tip brings the wallet to the
\* validator's tip but does not sweep.
Restart ==
  /\ stops < MaxStops /\ stops' = stops + 1
  /\ memory' = disk \ confirmed /\ disk' = memory'
  /\ hooks' = {} /\ syncing' = NoSync /\ behind' = FALSE
  /\ job' = [c \in Caller |-> Idle]
  /\ UNCHANGED <<tip, mempool, confirmed, made, reported>>

Init ==
  /\ tip = 1 /\ behind = FALSE
  /\ mempool = {} /\ confirmed = {} /\ memory = {} /\ disk = {} /\ hooks = {}
  /\ job = [c \in Caller |-> Idle] /\ syncing = NoSync
  /\ made = 0 /\ reported = {} /\ stops = 0

Call(c) ==
  \/ Build(c) \/ RpcAccepts(c) \/ RpcUnsupported(c) \/ RpcError(c)
  \/ P2pDone(c) \/ P2pError(c) \/ ApplyAndReturn(c)

Sync == SyncFetch \/ SyncAbort \/ SyncApply \/ SyncCommit

Next ==
  \/ \E c \in Caller : Call(c)
  \/ \E t \in hooks : Hook(t)
  \/ ConnectBlock \/ ConnectWallet \/ Sync \/ Restart

Spec == Init /\ [][Next]_vars
FairSpec == Spec /\ WF_vars(ConnectWallet)

-----------------------------------------------------------------------------
(* Properties                                                              *)

\* What the wallet has persisted is no more than it knows, between syncs.
TypeOK ==
  /\ tip \in 1..MaxTip /\ made \in 0..MaxTxs
  /\ Unlocked => disk = memory
  /\ syncing.pc \in {"idle", "fetched", "applied"}
  /\ \A t \in mempool \cup memory \cup hooks : t.utxo \in Utxo /\ t.kind \in Kinds

\* A deposit or a send that was reported as sent keeps its output reserved in
\* the wallet until a block has it, through syncs, sweeps and restarts.
ReportedSpendsReserved ==
  \A t \in reported : t.kind # "bmm" => t.utxo \in Spent(memory) \cap Spent(disk)

\* As long as syncs with the chain source keep succeeding, a BMM request that
\* can no longer be mined releases its output, though the node's mempool keeps
\* offering it to the wallet.
LocksOutput(n) == \E t \in memory : t.n = n /\ Stale(t, tip)
StaleBidsReleased ==
  []<><<SyncApply>>_vars => \A n \in 1..MaxTxs : LocksOutput(n) ~> ~LocksOutput(n)
=============================================================================
