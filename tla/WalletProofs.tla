---------------------------- MODULE WalletProofs ----------------------------
(***************************************************************************)
(* The wallet: the outputs of reported transactions stay reserved, and the *)
(* database holds what memory does except inside a sync, for any number of *)
(* outputs, callers, transactions, blocks and restarts; whoever writes to  *)
(* the database is alone with the wallet, for any number of callers and    *)
(* calls.                                                                  *)
(***************************************************************************)
EXTENDS Wallet, TLAPS

-----------------------------------------------------------------------------
(* The transactions it makes                                               *)


Tx == [n : Int, utxo : Utxo, kind : Kinds, prev : Int]
Active == [pc : {"rpc", "p2p", "apply"}, tx : Tx, success : BOOLEAN]
Job == {Idle} \cup Active

JobsInv == made \in Int /\ tip \in Int /\ job \in [Caller -> Job]

\* A reported deposit or send is itself, and not only its output, in the
\* wallet's memory and in its database until it is in a block: a sweep looks at
\* the kind of a transaction and not at its output.
Kept ==
  \A t \in reported :
    t.kind # "bmm" => t \in memory \cup confirmed /\ t \in disk \cup confirmed

SpendsInv == JobsInv /\ Kept

\* Memory and database part only between the apply and the commit of a sync,
\* where sync_lock holds the wallet.
WalletInv ==
  /\ JobsInv
  /\ tip \in 1..MaxTip /\ made \in 0..MaxTxs
  /\ mempool \subseteq Tx /\ memory \subseteq Tx /\ disk \subseteq Tx /\ hooks \subseteq Tx
  /\ syncing \in {NoSync} \cup [pc : {"fetched", "applied"}, view : SUBSET Tx]
  /\ syncing.pc # "applied" => disk = memory

-----------------------------------------------------------------------------
(* Calls                                                                   *)

\* A call that has begun carries a transaction.
LEMMA ActiveCalls ==
  ASSUME JobsInv, NEW c \in Caller, job[c].pc # "idle"
  PROVE  job[c] \in Active /\ job[c].tx \in Tx /\ job[c].tx.kind \in Kinds
<1>1. job[c] \in Active
  BY DEF JobsInv, Job, Idle
<1>2. job[c].tx \in Tx
  BY <1>1 DEF Active
<1> QED  BY <1>1, <1>2 DEF Tx

\* A call keeps its transaction from one step to the next.
LEMMA CallGoesOn ==
  ASSUME JobsInv, NEW c \in Caller, job[c].pc # "idle",
         NEW step \in {"rpc", "p2p", "apply"}, NEW success \in BOOLEAN,
         \/ job' = [job EXCEPT ![c].pc = step]
         \/ job' = [job EXCEPT ![c].pc = step, ![c].success = success]
  PROVE  job' \in [Caller -> Job]
<1>1. job[c] \in Active
  BY ActiveCalls
<1>2. /\ [job[c] EXCEPT !.pc = step] \in Active
      /\ [job[c] EXCEPT !.pc = step, !.success = success] \in Active
  BY <1>1 DEF Active
<1>3. \/ job' = [job EXCEPT ![c] = [job[c] EXCEPT !.pc = step]]
      \/ job' = [job EXCEPT ![c] = [job[c] EXCEPT !.pc = step, !.success = success]]
  BY DEF JobsInv
<1> QED  BY <1>2, <1>3 DEF JobsInv, Job

\* A caller that has its answer may call again.
LEMMA CallReturns ==
  ASSUME JobsInv, NEW c \in Caller, NEW ok \in BOOLEAN, Return(c, ok)
  PROVE  job' \in [Caller -> Job]
BY DEF JobsInv, Job, Return

\* Returning an error reports nothing.
LEMMA ReturnErrorKeepsInv ==
  ASSUME SpendsInv, NEW c \in Caller, Return(c, FALSE),
         UNCHANGED <<chain, wallet, made>>
  PROVE  SpendsInv'
<1>1. JobsInv'
  BY CallReturns DEF SpendsInv, JobsInv, chain
<1>2. Kept'
  BY DEF SpendsInv, Kept, Return, chain, wallet
<1> QED  BY <1>1, <1>2 DEF SpendsInv

\* Only a BMM request is reported without having been applied.
LEMMA AfterRpcKeepsInv ==
  ASSUME SpendsInv, NEW c \in Caller, NEW success \in BOOLEAN, job[c].pc = "rpc",
         AfterRpc(c, success), UNCHANGED <<chain, wallet, made>>
  PROVE  SpendsInv'
<1>1. job[c].tx.kind \in Kinds /\ JobsInv
  BY ActiveCalls DEF SpendsInv
<1>2. CASE job[c].tx.kind = "bmm"
  <2>1. Return(c, TRUE)
    BY <1>2 DEF AfterRpc
  <2>2. JobsInv'
    BY <1>1, <2>1, CallReturns DEF JobsInv, chain
  <2>3. Kept'
    BY <1>2, <2>1 DEF SpendsInv, Kept, Return, chain, wallet
  <2> QED  BY <2>2, <2>3 DEF SpendsInv
<1>3. CASE job[c].tx.kind = "send" /\ ~success
  <2>1. Return(c, FALSE)
    BY <1>3 DEF AfterRpc
  <2> QED  BY <2>1, ReturnErrorKeepsInv
<1>4. CASE job[c].tx.kind = "deposit" \/ (job[c].tx.kind = "send" /\ success)
  <2>1. /\ \/ job' = [job EXCEPT ![c].pc = "apply"]
           \/ job' = [job EXCEPT ![c].pc = "p2p", ![c].success = success]
        /\ UNCHANGED reported
    BY <1>4 DEF AfterRpc
  <2>2. JobsInv'
    BY <1>1, <2>1, CallGoesOn DEF JobsInv, chain
  <2>3. Kept'
    BY <2>1 DEF SpendsInv, Kept, chain, wallet
  <2> QED  BY <2>2, <2>3 DEF SpendsInv
<1> QED  BY <1>1, <1>2, <1>3, <1>4 DEF Kinds

\* Whatever step a call takes, what is reported was applied and persisted first.
LEMMA CallKeepsInv ==
  ASSUME SpendsInv, NEW c \in Caller, Call(c)
  PROVE  SpendsInv'
<1>1. CASE Build(c)
  <2>1. PICK kind \in Kinds, u \in Utxo \ Spent(memory), prev \in {tip, tip - 1} \cap Nat :
          job' = [job EXCEPT ![c] =
                    [pc |-> FirstStep[kind], success |-> FALSE,
                     tx |-> [n |-> made + 1, utxo |-> u, kind |-> kind,
                             prev |-> IF kind = "bmm" THEN prev ELSE 0]]]
    BY <1>1 DEF Build
  <2>2. FirstStep[kind] \in {"rpc", "p2p", "apply"}
    BY DEF FirstStep, Kinds
  <2>3. [n |-> made + 1, utxo |-> u, kind |-> kind,
         prev |-> IF kind = "bmm" THEN prev ELSE 0] \in Tx
    BY DEF Tx, SpendsInv, JobsInv
  <2>4. job' \in [Caller -> Job]
    BY <2>1, <2>2, <2>3 DEF SpendsInv, JobsInv, Job, Active
  <2>5. Kept'
    BY <1>1 DEF Build, SpendsInv, Kept, chain, wallet
  <2> QED  BY <1>1, <2>4, <2>5 DEF Build, SpendsInv, JobsInv, chain
<1>2. CASE RpcAccepts(c)
  BY <1>2, AfterRpcKeepsInv DEF RpcAccepts
<1>3. CASE RpcUnsupported(c)
  BY <1>3, AfterRpcKeepsInv DEF RpcUnsupported
<1>4. CASE RpcError(c)
  BY <1>4, ReturnErrorKeepsInv DEF RpcError
<1>5. CASE P2pDone(c)
  <2>1. UNCHANGED <<chain, wallet, made>> /\ job[c].pc = "p2p"
    BY <1>5 DEF P2pDone
  <2>2. CASE Return(c, FALSE)
    BY <2>1, <2>2, ReturnErrorKeepsInv
  <2>3. CASE \E step \in {"rpc", "apply"} :
               job' = [job EXCEPT ![c].pc = step] /\ UNCHANGED reported
    <3>1. JobsInv'
      BY <2>1, <2>3, CallGoesOn DEF SpendsInv, JobsInv, chain
    <3>2. Kept'
      BY <2>1, <2>3 DEF SpendsInv, Kept, chain, wallet
    <3> QED  BY <3>1, <3>2 DEF SpendsInv
  <2> QED  BY <1>5, <2>2, <2>3 DEF P2pDone
<1>6. CASE P2pError(c)
  BY <1>6, ReturnErrorKeepsInv DEF P2pError
<1>7. CASE ApplyAndReturn(c)
  <2>1. JobsInv'
    BY <1>7, CallReturns DEF ApplyAndReturn, SpendsInv, JobsInv, chain
  <2>2. Kept'
    BY <1>7 DEF ApplyAndReturn, apply_unconfirmed_tx, Return, SpendsInv, Kept, chain, wallet
  <2> QED  BY <2>1, <2>2 DEF SpendsInv
<1> QED  BY <1>1, <1>2, <1>3, <1>4, <1>5, <1>6, <1>7 DEF Call

\* Every step of the wallet, the node or the process keeps SpendsInv.
LEMMA SpendsInvariance == Spec => []SpendsInv
<1>1. Init => SpendsInv
  BY DEF Init, SpendsInv, JobsInv, Kept, Job
<1>2. SpendsInv /\ [Next]_vars => SpendsInv'
  <2> SUFFICES ASSUME SpendsInv, [Next]_vars PROVE SpendsInv'
    OBVIOUS
  <2>1. CASE \E c \in Caller : Call(c)
    BY <2>1, CallKeepsInv
  <2> USE DEF SpendsInv, JobsInv, Kept, chain, wallet
  <2>2. CASE \E t \in hooks : Hook(t)
    BY <2>2 DEF Hook, apply_unconfirmed_tx
  <2>3. CASE ConnectBlock
    BY <2>3 DEF ConnectBlock
  <2>4. CASE ConnectWallet
    BY <2>4 DEF ConnectWallet, Evicted, Stale
  <2>5. CASE Sync
    BY <2>5 DEF Sync, SyncFetch, SyncAbort, SyncApply, SyncCommit, Evicted, Stale
  <2>6. CASE Restart
    BY <2>6 DEF Restart, Job
  <2>7. CASE UNCHANGED vars
    BY <2>7 DEF vars
  <2> QED  BY <2>1, <2>2, <2>3, <2>4, <2>5, <2>6, <2>7 DEF Next
<1> QED  BY <1>1, <1>2, PTL DEF Spec

\* A deposit or a send that was reported as sent keeps its output reserved in
\* the wallet until a block has it, through syncs, sweeps and restarts
\* (apply_unconfirmed_tx, evict_stale_bmm_requests, sync_lock).
THEOREM ReservedForever == Spec => []ReportedSpendsReserved
<1>1. SpendsInv => ReportedSpendsReserved
  BY DEF SpendsInv, Kept, ReportedSpendsReserved, Spent
<1> QED  BY <1>1, SpendsInvariance, PTL

-----------------------------------------------------------------------------
(* Memory and database                                                     *)

\* A call changes memory and database together, and only while no sync holds
\* the wallet; what the node takes from it is a transaction of the wallet.
LEMMA CallKeepsWallet ==
  ASSUME WalletInv, JobsInv', NEW c \in Caller, Call(c)
  PROVE  WalletInv'
<1>1. job[c].pc # "idle" => job[c].tx \in Tx
  BY ActiveCalls DEF WalletInv
<1>2. UNCHANGED <<tip, syncing>> /\ made' \in 0..MaxTxs
  <2>1. CASE Build(c)
    <3>1. UNCHANGED <<tip, syncing>> /\ made < MaxTxs /\ made' = made + 1
      BY <2>1 DEF Build, chain
    <3> QED  BY <3>1, BoundsAssumption DEF WalletInv
  <2>2. CASE ~Build(c)
    BY <2>2 DEF WalletInv, Call, RpcAccepts, RpcUnsupported, RpcError, P2pDone, P2pError,
       ApplyAndReturn, chain
  <2> QED  BY <2>1, <2>2
<1>3. mempool' \subseteq Tx /\ hooks' \subseteq Tx
  BY <1>1 DEF WalletInv, Call, Build, RpcAccepts, RpcUnsupported, RpcError, P2pDone,
     P2pError, ApplyAndReturn, NodeTakes
<1>4. \/ UNCHANGED <<memory, disk>>
      \/ /\ syncing = NoSync /\ job[c].tx \in Tx
         /\ memory' = memory \cup {job[c].tx} /\ disk' = disk \cup {job[c].tx}
  BY <1>1 DEF Call, Build, RpcAccepts, RpcUnsupported, RpcError, P2pDone, P2pError,
     ApplyAndReturn, apply_unconfirmed_tx, Unlocked, wallet
<1> QED  BY <1>2, <1>3, <1>4 DEF WalletInv, NoSync

\* So do blocks, the hook of accept_tx and restarts; a sync does not write the
\* database before it commits.
LEMMA OthersKeepWallet ==
  ASSUME WalletInv, JobsInv',
         \/ \E t \in hooks : Hook(t)
         \/ ConnectBlock \/ ConnectWallet \/ Sync \/ Restart
  PROVE  WalletInv'
<1> USE DEF WalletInv, chain, wallet, Unlocked, NoSync
<1>1. CASE \E t \in hooks : Hook(t)
  BY <1>1 DEF Hook, apply_unconfirmed_tx
<1>2. CASE ConnectBlock
  BY <1>2, BoundsAssumption DEF ConnectBlock
<1>3. CASE ConnectWallet
  BY <1>3 DEF ConnectWallet, Evicted
<1>4. CASE SyncFetch \/ SyncAbort
  BY <1>4 DEF SyncFetch, SyncAbort
<1>5. CASE SyncApply
  BY <1>5 DEF SyncApply, Evicted
<1>6. CASE SyncCommit
  BY <1>6 DEF SyncCommit
<1>7. CASE Restart
  BY <1>7 DEF Restart
<1> QED  BY <1>1, <1>2, <1>3, <1>4, <1>5, <1>6, <1>7 DEF Sync

\* The database has what the memory has whenever no sync holds the wallet, so
\* that a restart forgets no unconfirmed transaction (sync_lock,
\* apply_unconfirmed_tx, persist).
THEOREM PersistedBetweenSyncs == Spec => []TypeOK
<1>1. Init => WalletInv
  BY BoundsAssumption DEF Init, WalletInv, JobsInv, Job, NoSync
<1>2. SpendsInv' /\ WalletInv /\ [Next]_vars => WalletInv'
  <2> SUFFICES ASSUME SpendsInv', WalletInv, [Next]_vars PROVE WalletInv'
    OBVIOUS
  <2>1. JobsInv'
    BY DEF SpendsInv
  <2>2. CASE UNCHANGED vars
    BY <2>2 DEF vars, chain, wallet, WalletInv, JobsInv
  <2> QED  BY <2>1, <2>2, CallKeepsWallet, OthersKeepWallet DEF Next
<1>3. WalletInv => TypeOK
  BY DEF WalletInv, TypeOK, Unlocked, NoSync, Tx
<1> QED  BY <1>1, <1>2, <1>3, SpendsInvariance, PTL DEF Spec


-----------------------------------------------------------------------------
(* The locks                                                               *)

Ops ==
  {"stop?", "slot", "try_slot", "release_slot", "upgradable", "upgrade", "read", "write",
   "db", "release"}

\* What the order of the operations in every call comes to: the database is
\* locked right after the wallet was locked for writing and until the next
\* release, and the scan slot is not waited for with the wallet locked.
Orderly(c) ==
  /\ c \in Seq(Ops)
  /\ \A i \in 2..Len(c) :
       /\ c[i] = "db" => c[i - 1] \in {"write", "upgrade"}
       /\ c[i] = "slot" => c[i - 1] = "release"
       /\ c[i] # "try_slot"
  /\ \A i \in 1..Len(c) :
       c[i] = "db" => i + 2 <= Len(c) /\ c[i + 1] = "stop?" /\ c[i + 2] = "release"

\* A call ends with the release of what it holds.
Closed(c) == Len(c) >= 1 => c[Len(c)] = "release"

\* Between joining the database's queue and the release.
Persisting(c) ==
  /\ Len(c) >= 1
  /\ c[1] \in {"db", "stop?", "release"}
  /\ c[1] = "stop?" => Len(c) >= 2 /\ c[2] = "release"

QueuesInv ==
  /\ l_slot \in Seq(Locks!Proc) /\ l_mutex \in Seq(Locks!Proc) /\ l_db \in Seq(Locks!Proc)
  /\ Locks!EachOnce(l_slot) /\ Locks!EachOnce(l_mutex) /\ Locks!EachOnce(l_db)
  /\ l_readers \subseteq Locks!Proc
  /\ l_writer => Len(l_mutex) >= 1

CodeInv ==
  /\ l_code \in [Locks!Proc -> Seq(Ops)]
  /\ \A p \in Locks!Proc : Orderly(l_code[p]) /\ Closed(l_code[p])

AloneWithWallet(p) == Locks!Holds(l_mutex, p) /\ l_writer /\ l_readers = {}

DbInv ==
  \A p \in Locks!Proc :
    /\ Locks!Op(p) = "db" => AloneWithWallet(p)
    /\ Locks!Waits(l_db, p) => AloneWithWallet(p) /\ Persisting(l_code[p])

SlotInv ==
  \A p \in Locks!Proc :
    /\ Locks!Waits(l_slot, p) => Locks!Holds(l_slot, p) \/ Locks!Op(p) = "slot"
    /\ Locks!Op(p) \in {"idle", "slot", "try_slot"} => ~Locks!Waits(l_mutex, p)
    /\ Locks!Op(p) \in {"idle", "try_slot"} => ~Locks!Waits(l_slot, p)

LocksInv == l_writer \in BOOLEAN /\ QueuesInv /\ CodeInv /\ DbInv /\ SlotInv

\* Whoever leaves a queue is gone from it; the others stay in order, so that the
\* holder of the lock stays the holder.
LEMMA Left ==
  ASSUME NEW S, NEW q \in Seq(S), Locks!EachOnce(q), NEW p
  PROVE  LET r == Locks!Without(q, p)
         IN  /\ r \in Seq(S) /\ Locks!EachOnce(r) /\ ~Locks!Waits(r, p)
             /\ \A x : Locks!Waits(r, x) <=> Locks!Waits(q, x) /\ x # p
             /\ \A x : x # p /\ Locks!Holds(q, x) => Locks!Holds(r, x)
             /\ Len(q) >= 1 /\ ~Locks!Holds(q, p) => Len(r) >= 1
<1> DEFINE r == Locks!Without(q, p)
<1>1. CASE ~Locks!Waits(q, p)
  <2>1. r = q
    BY <1>1 DEF Locks!Without
  <2> QED BY <1>1, <2>1
<1>2. CASE Locks!Waits(q, p)
  <2> DEFINE n == Len(q)
             at == CHOOSE i \in 1..n : q[i] = p
  <2>1. n \in Nat /\ at \in 1..n /\ q[at] = p
    BY <1>2 DEF Locks!Waits
  <2>2. r = [i \in 1..(n - 1) |-> IF i < at THEN q[i] ELSE q[i + 1]]
    BY <1>2 DEF Locks!Without
  <2> HIDE DEF n, at, r
  <2>3. \A i, j \in 1..n : q[i] = q[j] => i = j
    BY DEF Locks!EachOnce, n
  <2>4. \A i \in 1..n : q[i] \in S
    BY DEF n
  <2>5. n - 1 \in Nat /\ \A i \in 1..(n - 1) : i \in 1..n /\ i + 1 \in 1..n
    BY <2>1
  <2>6. r \in Seq(S) /\ Len(r) = n - 1
    <3>1. \A i \in 1..(n - 1) : r[i] \in S
      BY <2>2, <2>4, <2>5
    <3>2. r \in [1..(n - 1) -> S]
      BY <2>2, <3>1
    <3> QED BY <2>5, <3>2
  <2>7. \A i \in 1..(n - 1) : r[i] = IF i < at THEN q[i] ELSE q[i + 1]
    BY <2>2
  <2>8. Locks!EachOnce(r)
    BY <2>1, <2>3, <2>5, <2>6, <2>7 DEF Locks!EachOnce
  <2>9. ASSUME NEW x PROVE Locks!Waits(r, x) <=> Locks!Waits(q, x) /\ x # p
    <3>1. ASSUME NEW i \in 1..(n - 1), r[i] = x  PROVE Locks!Waits(q, x) /\ x # p
      <4>1. PICK j \in 1..n : q[j] = x /\ j # at
        BY <2>1, <2>5, <2>7, <3>1
      <4> QED BY <2>1, <2>3, <4>1 DEF Locks!Waits, n
    <3>2. ASSUME NEW i \in 1..n, q[i] = x, x # p  PROVE \E j \in 1..(n - 1) : r[j] = x
      <4>1. i # at
        BY <2>1, <3>2
      <4>2. CASE i < at
        BY <2>1, <2>7, <3>2, <4>2
      <4>3. CASE i > at
        <5>1. i - 1 \in 1..(n - 1) /\ ~(i - 1 < at) /\ (i - 1) + 1 = i
          BY <2>1, <4>3
        <5>2. r[i - 1] = q[(i - 1) + 1]
          BY <2>7, <5>1
        <5> QED BY <3>2, <5>1, <5>2
      <4> QED BY <2>1, <4>1, <4>2, <4>3
    <3> QED BY <2>6, <3>1, <3>2 DEF Locks!Waits, n
  <2>10. ASSUME NEW x, x # p, Locks!Holds(q, x)  PROVE Locks!Holds(r, x)
    <3>1. n >= 1 /\ q[1] = x
      BY <2>10 DEF Locks!Holds, n
    <3>2. 1 < at /\ 1 \in 1..(n - 1)
      BY <2>1, <2>10, <3>1
    <3>3. r[1] = x
      BY <2>7, <3>1, <3>2
    <3> QED BY <2>6, <3>2, <3>3 DEF Locks!Holds
  <2>11. n >= 1 /\ ~Locks!Holds(q, p) => Len(r) >= 1
    <3>1. ASSUME ~Locks!Holds(q, p) PROVE at # 1
      BY <2>1, <3>1 DEF Locks!Holds, n
    <3> QED BY <2>1, <2>6, <3>1
  <2>12. ~Locks!Waits(r, p)
    BY <2>9
  <2> QED BY <2>6, <2>8, <2>9, <2>10, <2>11, <2>12 DEF r, n
<1> QED BY <1>1, <1>2

\* Whoever joins a queue comes last in it.
LEMMA Joined ==
  ASSUME NEW S, NEW q \in Seq(S), Locks!EachOnce(q), NEW p \in S, ~Locks!Waits(q, p)
  PROVE  LET r == Append(q, p)
         IN  /\ r \in Seq(S) /\ Locks!EachOnce(r) /\ Len(r) >= 1
             /\ \A x : Locks!Waits(r, x) <=> Locks!Waits(q, x) \/ x = p
             /\ \A x : Locks!Holds(q, x) => Locks!Holds(r, x)
             /\ q = <<>> => Locks!Holds(r, p)
<1> DEFINE r == Append(q, p)
           n == Len(q)
<1>1. /\ n \in Nat /\ r \in Seq(S) /\ Len(r) = n + 1 /\ r[n + 1] = p
      /\ \A i \in 1..n : r[i] = q[i]
  OBVIOUS
<1>2. \A i \in 1..(n + 1) : i \in 1..n \/ i = n + 1
  BY <1>1
<1>3. n + 1 \in 1..(n + 1) /\ 1..n \subseteq 1..(n + 1)
  BY <1>1
<1>4. /\ \A i, j \in 1..n : q[i] = q[j] => i = j
      /\ \A i \in 1..n : q[i] # p
  BY DEF Locks!EachOnce, Locks!Waits
<1>5. \A x : Locks!Holds(q, x) => n >= 1 /\ q[1] = x
  BY DEF Locks!Holds
<1>6. q = <<>> => n = 0
  OBVIOUS
<1>7. \A x : Locks!Waits(q, x) <=> \E i \in 1..n : q[i] = x
  BY DEF Locks!Waits
<1> HIDE DEF r, n
<1>8. Locks!EachOnce(r)
  BY <1>1, <1>2, <1>4 DEF Locks!EachOnce
<1>9. \A x : Locks!Waits(r, x) <=> Locks!Waits(q, x) \/ x = p
  BY <1>1, <1>2, <1>3, <1>7 DEF Locks!Waits
<1>10. \A x : Len(r) >= 1 /\ r[1] = x => Locks!Holds(r, x)
  BY <1>1 DEF Locks!Holds
<1>11. \A x : Locks!Holds(q, x) => Locks!Holds(r, x)
  BY <1>1, <1>5, <1>10
<1>12. q = <<>> => Locks!Holds(r, p)
  BY <1>1, <1>6, <1>10
<1> QED BY <1>1, <1>8, <1>9, <1>11, <1>12 DEF r

\* The holder is in the queue, and there is one.
LEMMA OneHolder ==
  ASSUME NEW S, NEW q \in Seq(S), NEW p, Locks!Holds(q, p)
  PROVE  Locks!Waits(q, p) /\ \A x : Locks!Holds(q, x) => x = p
<1>1. Len(q) >= 1 /\ q[1] = p /\ 1 \in 1..Len(q)
  BY DEF Locks!Holds
<1> QED BY <1>1 DEF Locks!Holds, Locks!Waits

\* What is left of a call stays orderly as the call goes on.
LEMMA RestOrderly ==
  ASSUME NEW c \in Seq(Ops), Orderly(c), Closed(c), Len(c) >= 1
  PROVE  /\ Orderly(Tail(c)) /\ Closed(Tail(c)) /\ Tail(c) \in Seq(Ops)
         /\ Head(c) = c[1] /\ Len(Tail(c)) = Len(c) - 1
         /\ Len(c) >= 2 => Head(Tail(c)) = c[2] /\ Tail(c)[1] = c[2]
         /\ Len(c) >= 3 => Tail(c)[2] = c[3]
<1> DEFINE t == Tail(c)
<1>1. Len(c) \in Nat /\ c # <<>>
  OBVIOUS
<1>2. /\ t \in Seq(Ops) /\ Len(t) = Len(c) - 1 /\ Head(c) = c[1]
      /\ \A i \in 1..Len(t) : i + 1 \in 1..Len(c) /\ t[i] = c[i + 1]
  BY <1>1
<1>3. /\ \A i \in 2..Len(c) :
           /\ c[i] = "db" => c[i - 1] \in {"write", "upgrade"}
           /\ c[i] = "slot" => c[i - 1] = "release"
           /\ c[i] # "try_slot"
      /\ \A i \in 1..Len(c) :
           c[i] = "db" => i + 2 <= Len(c) /\ c[i + 1] = "stop?" /\ c[i + 2] = "release"
  BY DEF Orderly
<1> HIDE DEF t
<1>4. Len(c) >= 2 => Head(t) = c[2] /\ t[1] = c[2]
  <2> SUFFICES ASSUME Len(c) >= 2 PROVE Head(t) = c[2] /\ t[1] = c[2]
    OBVIOUS
  <2>1. Len(t) \in Nat /\ Len(t) >= 1
    BY <1>1, <1>2
  <2>2. t[1] = c[1 + 1]
    BY <1>2, <2>1
  <2> QED BY <1>2, <2>1, <2>2
<1>5. ASSUME NEW i \in 2..Len(t)
      PROVE  /\ t[i] = "db" => t[i - 1] \in {"write", "upgrade"}
             /\ t[i] = "slot" => t[i - 1] = "release"
             /\ t[i] # "try_slot"
  <2>1. i \in 1..Len(t) /\ i - 1 \in 1..Len(t) /\ i + 1 \in 2..Len(c)
    BY <1>1, <1>2
  <2>2. t[i] = c[i + 1] /\ t[i - 1] = c[(i + 1) - 1]
    <3>1. t[i - 1] = c[(i - 1) + 1]
      BY <1>2, <2>1
    <3>2. (i - 1) + 1 = (i + 1) - 1
      BY <2>1
    <3> QED BY <1>2, <2>1, <3>1, <3>2
  <2> QED BY <1>3, <2>1, <2>2
<1>6. ASSUME NEW i \in 1..Len(t), t[i] = "db"
      PROVE  i + 2 <= Len(t) /\ t[i + 1] = "stop?" /\ t[i + 2] = "release"
  <2>1. i + 1 \in 1..Len(c) /\ c[i + 1] = "db"
    BY <1>2, <1>6
  <2>2. (i + 1) + 2 <= Len(c) /\ c[(i + 1) + 1] = "stop?" /\ c[(i + 1) + 2] = "release"
    BY <1>3, <2>1
  <2>3. i + 1 \in 1..Len(t) /\ i + 2 \in 1..Len(t)
    BY <1>1, <1>2, <2>1, <2>2
  <2>4. t[i + 1] = c[(i + 1) + 1] /\ t[i + 2] = c[(i + 2) + 1]
    BY <1>2, <2>3
  <2>5. (i + 2) + 1 = (i + 1) + 2 /\ i + 2 <= Len(t)
    BY <2>3
  <2> QED BY <2>2, <2>4, <2>5
<1>7. Closed(t)
  <2> SUFFICES ASSUME Len(t) >= 1 PROVE t[Len(t)] = "release"
    BY DEF Closed
  <2>1. Len(t) \in 1..Len(t) /\ Len(t) + 1 = Len(c)
    BY <1>1, <1>2
  <2> QED BY <1>2, <2>1 DEF Closed
<1>8. Len(c) >= 3 => t[2] = c[3]
  <2> SUFFICES ASSUME Len(c) >= 3 PROVE t[2] = c[3]
    OBVIOUS
  <2>1. 2 \in 1..Len(t)
    BY <1>1, <1>2
  <2> QED BY <1>2, <2>1
<1> QED BY <1>2, <1>4, <1>5, <1>6, <1>7, <1>8 DEF Orderly, t

\* A call is orderly if its parts are, and no part begins in the middle of a
\* persist or waits for the slot where the part before it has not released.
LEMMA PartsOrderly ==
  ASSUME NEW c \in Seq(Ops), NEW d \in Seq(Ops), Orderly(c), Orderly(d),
         Len(c) >= 1, Len(d) >= 1,
         d[1] \notin {"db", "try_slot"}, d[1] = "slot" => c[Len(c)] = "release"
  PROVE  /\ Orderly(c \o d) /\ Len(c \o d) >= 1
         /\ (c \o d)[1] = c[1] /\ (c \o d)[Len(c \o d)] = d[Len(d)]
<1> DEFINE e == c \o d
           m == Len(c)
           n == Len(d)
<1>1. m \in Nat /\ n \in Nat /\ m >= 1 /\ n >= 1
  OBVIOUS
<1>2. /\ e \in Seq(Ops) /\ Len(e) = m + n
      /\ \A i \in 1..(m + n) : e[i] = IF i <= m THEN c[i] ELSE d[i - m]
  BY <1>1
<1>3. /\ \A i \in 2..m :
           /\ c[i] = "db" => c[i - 1] \in {"write", "upgrade"}
           /\ c[i] = "slot" => c[i - 1] = "release"
           /\ c[i] # "try_slot"
      /\ \A i \in 1..m : c[i] = "db" => i + 2 <= m /\ c[i + 1] = "stop?" /\ c[i + 2] = "release"
  BY DEF Orderly
<1>4. /\ \A i \in 2..n :
           /\ d[i] = "db" => d[i - 1] \in {"write", "upgrade"}
           /\ d[i] = "slot" => d[i - 1] = "release"
           /\ d[i] # "try_slot"
      /\ \A i \in 1..n : d[i] = "db" => i + 2 <= n /\ d[i + 1] = "stop?" /\ d[i + 2] = "release"
  BY DEF Orderly
<1> HIDE DEF e, m, n
<1>5. \A i \in 1..m : e[i] = c[i]
  BY <1>1, <1>2
<1>6. \A i \in 1..n : e[m + i] = d[i]
  <2> TAKE i \in 1..n
  <2>1. m + i \in 1..(m + n) /\ ~(m + i <= m) /\ (m + i) - m = i
    BY <1>1
  <2>2. e[m + i] = d[(m + i) - m]
    BY <1>2, <2>1
  <2> QED BY <2>1, <2>2
<1>7. \A i \in 1..(m + n) : i \in 1..m \/ \E j \in 1..n : i = m + j
  <2> TAKE i \in 1..(m + n)
  <2>1. i \notin 1..m => i - m \in 1..n /\ i = m + (i - m)
    BY <1>1
  <2> QED BY <2>1
<1>8. ASSUME NEW i \in 2..(m + n)
      PROVE  /\ e[i] = "db" => e[i - 1] \in {"write", "upgrade"}
             /\ e[i] = "slot" => e[i - 1] = "release"
             /\ e[i] # "try_slot"
  <2>1. CASE i \in 1..m
    <3>1. i \in 2..m /\ i - 1 \in 1..m
      BY <1>1, <2>1
    <3> QED BY <1>3, <1>5, <2>1, <3>1
  <2>2. CASE i = m + 1
    <3>1. e[i] = d[1] /\ e[i - 1] = c[m]
      BY <1>1, <1>5, <1>6, <2>2
    <3> QED BY <3>1 DEF m
  <2>3. ASSUME NEW j \in 2..n, i = m + j
        PROVE  /\ e[i] = "db" => e[i - 1] \in {"write", "upgrade"}
               /\ e[i] = "slot" => e[i - 1] = "release"
               /\ e[i] # "try_slot"
    <3>1. j \in 1..n /\ j - 1 \in 1..n /\ i - 1 = m + (j - 1)
      BY <1>1, <2>3
    <3>2. e[i] = d[j] /\ e[i - 1] = d[j - 1]
      BY <1>6, <2>3, <3>1
    <3> QED BY <1>4, <3>2
  <2>4. i \in 1..m \/ i = m + 1 \/ \E j \in 2..n : i = m + j
    <3>1. i > m + 1 => i - m \in 2..n /\ i = m + (i - m)
      BY <1>1
    <3> QED BY <1>1, <3>1
  <2> QED BY <2>1, <2>2, <2>3, <2>4
<1>9. ASSUME NEW i \in 1..(m + n), e[i] = "db"
      PROVE  i + 2 <= m + n /\ e[i + 1] = "stop?" /\ e[i + 2] = "release"
  <2>1. CASE i \in 1..m
    <3>1. i + 2 <= m /\ c[i + 1] = "stop?" /\ c[i + 2] = "release"
      BY <1>3, <1>5, <1>9, <2>1
    <3>2. i + 1 \in 1..m /\ i + 2 \in 1..m /\ i + 2 <= m + n
      BY <1>1, <2>1, <3>1
    <3> QED BY <1>5, <3>1, <3>2
  <2>2. ASSUME NEW j \in 1..n, i = m + j
        PROVE  i + 2 <= m + n /\ e[i + 1] = "stop?" /\ e[i + 2] = "release"
    <3>1. j + 2 <= n /\ d[j + 1] = "stop?" /\ d[j + 2] = "release"
      BY <1>4, <1>6, <1>9, <2>2
    <3>2. /\ j + 1 \in 1..n /\ j + 2 \in 1..n /\ i + 2 <= m + n
          /\ i + 1 = m + (j + 1) /\ i + 2 = m + (j + 2)
      BY <1>1, <2>2, <3>1
    <3> QED BY <1>6, <3>1, <3>2
  <2> QED BY <1>7, <2>1, <2>2
<1>10. Len(e) >= 1 /\ e[1] = c[1] /\ e[Len(e)] = d[n]
  BY <1>1, <1>2, <1>5, <1>6
<1> QED BY <1>2, <1>8, <1>9, <1>10 DEF Orderly, e, n

\* A part of a call that another part may come before.
Part(c) == c \in Seq(Ops) /\ Orderly(c) /\ Len(c) >= 1 /\ c[1] \notin {"db", "try_slot"}
Ended(c) == c[Len(c)] = "release"

\* The parts that calls are made of: a read of the wallet, and a change of it
\* that is persisted, under the write lock or one upgraded to it.
LEMMA ShortParts ==
  /\ Part(Locks!ReadWallet) /\ Ended(Locks!ReadWallet) /\ Locks!ReadWallet[1] # "slot"
  /\ Part(Locks!Persist) /\ Ended(Locks!Persist) /\ Locks!Persist[1] # "slot"
  /\ Part(Locks!UpgradeAndPersist) /\ Ended(Locks!UpgradeAndPersist)
  /\ Locks!UpgradeAndPersist[1] # "slot"
<1>1. ASSUME NEW a \in Ops \ {"db", "slot", "try_slot"}
      PROVE  Part(<<a, "release">>) /\ Ended(<<a, "release">>) /\ <<a, "release">>[1] # "slot"
  <2> DEFINE c == <<a, "release">>
  <2>1. c \in Seq(Ops) /\ Len(c) = 2 /\ c[1] = a /\ c[2] = "release"
    BY DEF Ops
  <2>2. \A i \in 1..2 : i = 1 \/ i = 2
    OBVIOUS
  <2> HIDE DEF c
  <2>3. Orderly(c)
    BY <2>1, <2>2 DEF Orderly
  <2>4. Part(c) /\ Ended(c) /\ c[1] # "slot"
    BY <2>1, <2>3 DEF Part, Ended
  <2> QED BY <2>4 DEF c
<1>2. ASSUME NEW a \in {"write", "upgrade"}
      PROVE  /\ Part(<<a, "db", "stop?", "release">>) /\ Ended(<<a, "db", "stop?", "release">>)
             /\ <<a, "db", "stop?", "release">>[1] # "slot"
  <2> DEFINE c == <<a, "db", "stop?", "release">>
  <2>1. /\ c \in Seq(Ops) /\ Len(c) = 4
        /\ c[1] = a /\ c[2] = "db" /\ c[3] = "stop?" /\ c[4] = "release"
    BY DEF Ops
  <2>2. \A i \in 1..4 : i = 1 \/ i = 2 \/ i = 3 \/ i = 4
    OBVIOUS
  <2> HIDE DEF c
  <2>3. Orderly(c)
    BY <2>1, <2>2 DEF Orderly
  <2>4. Part(c) /\ Ended(c) /\ c[1] # "slot"
    BY <2>1, <2>3 DEF Part, Ended
  <2> QED BY <2>4 DEF c
<1>3. "read" \in Ops \ {"db", "slot", "try_slot"}
  BY DEF Ops
<1> QED BY <1>1, <1>2, <1>3 DEF Locks!ReadWallet, Locks!Persist, Locks!UpgradeAndPersist

\* The parts that call for a lock, or look whether to stop, and go on.
LEMMA Leads ==
  ASSUME NEW x \in Ops \ {"db", "try_slot"}, NEW y \in Ops \ {"db", "slot", "try_slot"},
         NEW z \in Ops \ {"db", "slot", "try_slot"}
  PROVE  /\ Part(<<x>>) /\ Part(<<x, y>>) /\ Part(<<x, y, z>>)
         /\ <<x>>[1] = x /\ <<x, y, z>>[1] = x
<1>1. ASSUME NEW n \in 1..3, NEW c \in Seq(Ops), Len(c) = n,
             \A i \in 1..n : c[i] \notin {"db", "try_slot"}, \A i \in 2..n : c[i] # "slot"
      PROVE  Part(c)
  BY <1>1 DEF Part, Orderly
<1>2. Part(<<x>>)
  <2> DEFINE c == <<x>>
  <2>1. c \in Seq(Ops) /\ Len(c) = 1 /\ c[1] = x
    OBVIOUS
  <2> HIDE DEF c
  <2>2. Part(c)
    BY <1>1, <2>1
  <2> QED BY <2>2 DEF c
<1>3. Part(<<x, y>>)
  <2> DEFINE c == <<x, y>>
  <2>1. c \in Seq(Ops) /\ Len(c) = 2 /\ c[1] = x /\ c[2] = y
    OBVIOUS
  <2> HIDE DEF c
  <2>2. \A i \in 1..2 : i = 1 \/ i = 2
    OBVIOUS
  <2>3. /\ \A i \in 1..2 : c[i] \notin {"db", "try_slot"}
        /\ \A i \in 2..2 : c[i] # "slot"
    BY <2>1, <2>2
  <2>4. Part(c)
    BY <1>1, <2>1, <2>3
  <2> QED BY <2>4 DEF c
<1>4. Part(<<x, y, z>>)
  <2> DEFINE c == <<x, y, z>>
  <2>1. c \in Seq(Ops) /\ Len(c) = 3 /\ c[1] = x /\ c[2] = y /\ c[3] = z
    OBVIOUS
  <2> HIDE DEF c
  <2>2. \A i \in 1..3 : i = 1 \/ i = 2 \/ i = 3
    OBVIOUS
  <2>3. /\ \A i \in 1..3 : c[i] \notin {"db", "try_slot"}
        /\ \A i \in 2..3 : c[i] # "slot"
    BY <2>1, <2>2
  <2>4. Part(c)
    BY <1>1, <2>1, <2>3
  <2> QED BY <2>4 DEF c
<1> QED BY <1>2, <1>3, <1>4

\* The operations that may come first in a part, and those that may come later.
LEMMA LeadOps ==
  /\ {"slot", "stop?", "upgradable", "release_slot", "read", "write"}
       \subseteq Ops \ {"db", "try_slot"}
  /\ {"stop?", "upgradable", "release"} \subseteq Ops \ {"db", "slot", "try_slot"}
  BY DEF Ops

\* A part goes before another, unless the other waits for the slot.
LEMMA PartsJoined ==
  ASSUME NEW c, NEW d, Part(c), Part(d), d[1] = "slot" => Ended(c)
  PROVE  /\ Part(c \o d)
         /\ Ended(d) => Ended(c \o d)
         /\ c[1] # "slot" => (c \o d)[1] # "slot"
<1>1. /\ c \in Seq(Ops) /\ Orderly(c) /\ Len(c) >= 1 /\ c[1] \notin {"db", "try_slot"}
      /\ d \in Seq(Ops) /\ Orderly(d) /\ Len(d) >= 1 /\ d[1] \notin {"db", "try_slot"}
      /\ d[1] = "slot" => c[Len(c)] = "release"
  BY DEF Part, Ended
<1>2. /\ Orderly(c \o d) /\ Len(c \o d) >= 1
      /\ (c \o d)[1] = c[1] /\ (c \o d)[Len(c \o d)] = d[Len(d)]
  BY <1>1, PartsOrderly
<1>3. c \o d \in Seq(Ops)
  BY <1>1
<1> QED BY <1>1, <1>2, <1>3 DEF Part, Ended

\* A full scan takes the slot first and then the wallet.
LEMMA ScanParts ==
  /\ Part(Locks!full_scan_guarded) /\ Ended(Locks!full_scan_guarded)
  /\ Locks!full_scan_guarded[1] # "slot"
  /\ Part(Locks!full_scan) /\ Ended(Locks!full_scan)
<1>1. Part(<<"stop?", "upgradable", "stop?">>) /\ <<"stop?", "upgradable", "stop?">>[1] # "slot"
  BY Leads, LeadOps
<1>2. /\ Part(Locks!full_scan_guarded) /\ Ended(Locks!full_scan_guarded)
      /\ Locks!full_scan_guarded[1] # "slot"
  BY <1>1, ShortParts, PartsJoined DEF Locks!full_scan_guarded
<1>3. Part(<<"slot">>)
  BY Leads, LeadOps
<1> QED BY <1>2, <1>3, PartsJoined DEF Locks!full_scan

\* connect_block: the wallet is read, brought to the block's parent and given
\* the block, and the BMM requests are swept.
LEMMA ConnectOrderly == \A c \in Locks!connect_block : Part(c) /\ Ended(c)
<1> DEFINE R == Locks!ReadWallet
           P == Locks!Persist
           F == Locks!full_scan
<1>1. /\ Part(R) /\ Ended(R) /\ R[1] # "slot" /\ Part(P) /\ Ended(P) /\ P[1] # "slot"
      /\ Part(F) /\ Ended(F)
  BY ShortParts, ScanParts
<1>2. Part(<<"release_slot">>) /\ <<"release_slot">>[1] # "slot"
  BY Leads, LeadOps
<1>3. \A c \in Locks!connect_block : \E gap \in {<<>>, P \o R, F \o <<"release_slot">> \o R} :
        c = R \o R \o gap \o P \o P
  BY DEF Locks!connect_block
<1> HIDE DEF R, P, F
<1>4. ASSUME NEW c, Part(c)
      PROVE  Part(c \o P) /\ Ended(c \o P)
  BY <1>1, <1>4, PartsJoined
<1>5. Part(R \o R) /\ Ended(R \o R)
  BY <1>1, PartsJoined
<1>6. Part(P \o R)
  BY <1>1, PartsJoined
<1>7. (P \o R)[1] # "slot"
  BY <1>1, PartsJoined
<1>8. Part(F \o <<"release_slot">>)
  BY <1>1, <1>2, PartsJoined
<1>9. Part(F \o <<"release_slot">> \o R)
  BY <1>1, <1>8, PartsJoined
<1>10. ASSUME NEW gap, Part(gap) PROVE Part(R \o R \o gap)
  BY <1>5, <1>10, PartsJoined
<1>11. R \o R \o <<>> = R \o R
  BY <1>5 DEF Part
<1>12. \A gap \in {<<>>, P \o R, F \o <<"release_slot">> \o R} : Part(R \o R \o gap)
  BY <1>5, <1>6, <1>9, <1>10, <1>11
<1>13. ASSUME NEW gap \in {<<>>, P \o R, F \o <<"release_slot">> \o R}
       PROVE  Part(R \o R \o gap \o P \o P) /\ Ended(R \o R \o gap \o P \o P)
  <2>1. Part(R \o R \o gap \o P)
    BY <1>4, <1>12
  <2> QED BY <1>4, <2>1
<1> QED BY <1>3, <1>13

\* The calls that change the wallet's database only have it alone, however they
\* are put together.
LEMMA CallsOrderly ==
  ASSUME NEW p \in Locks!Proc, NEW c \in Locks!Code(p)
  PROVE  c \in Seq(Ops) /\ Orderly(c) /\ Closed(c) /\ Len(c) >= 1 /\ c[1] # "db"
<1>1. ASSUME Part(c), Ended(c)
      PROVE  c \in Seq(Ops) /\ Orderly(c) /\ Closed(c) /\ Len(c) >= 1 /\ c[1] # "db"
  BY <1>1 DEF Part, Ended, Closed
<1>2. Part(Locks!sync) /\ Ended(Locks!sync)
  <2>1. Part(<<"upgradable", "stop?">>)
    BY Leads, LeadOps
  <2> QED BY <2>1, ShortParts, PartsJoined DEF Locks!sync
<1>3. Part(Locks!apply_unconfirmed_tx) /\ Ended(Locks!apply_unconfirmed_tx)
  BY ShortParts DEF Locks!apply_unconfirmed_tx
<1>4. Part(Locks!unlock) /\ Ended(Locks!unlock)
  <2>1. Part(<<"read", "stop?", "release">>)
    BY Leads, LeadOps
  <2> QED BY <2>1, ShortParts, PartsJoined DEF Locks!unlock
<1>5. Part(Locks!send) /\ Ended(Locks!send)
  <2>1. Part(<<"write", "stop?", "release">>) /\ Part(<<"stop?">>) /\ <<"stop?">>[1] # "slot"
    BY Leads, LeadOps
  <2>2. Part(<<"write", "stop?", "release">> \o Locks!ReadWallet)
    BY <2>1, ShortParts, PartsJoined
  <2>3. Part(<<"write", "stop?", "release">> \o Locks!ReadWallet \o <<"stop?">>)
    BY <2>1, <2>2, PartsJoined
  <2> QED BY <2>3, ShortParts, PartsJoined DEF Locks!send
<1>6. /\ Locks!try_full_scan \in Seq(Ops) /\ Orderly(Locks!try_full_scan)
      /\ Closed(Locks!try_full_scan) /\ Len(Locks!try_full_scan) >= 1
      /\ Locks!try_full_scan[1] # "db"
  <2> DEFINE t == <<"try_slot">>
             g == Locks!full_scan_guarded
  <2>1. t \in Seq(Ops) /\ Len(t) = 1 /\ Len(t) >= 1 /\ t[1] = "try_slot"
    BY DEF Ops
  <2> HIDE DEF t
  <2>2. Orderly(t)
    BY <2>1 DEF Orderly
  <2>3. g \in Seq(Ops) /\ Orderly(g) /\ Len(g) >= 1 /\ g[1] \notin {"db", "try_slot"}
        /\ g[1] # "slot" /\ g[Len(g)] = "release"
    BY ScanParts DEF Part, Ended
  <2> HIDE DEF g
  <2>4. /\ Orderly(t \o g) /\ Len(t \o g) >= 1 /\ (t \o g)[1] = "try_slot"
        /\ (t \o g)[Len(t \o g)] = "release"
    <3>1. g[1] = "slot" => t[Len(t)] = "release"
      BY <2>3
    <3>2. /\ Orderly(t \o g) /\ Len(t \o g) >= 1
          /\ (t \o g)[1] = t[1] /\ (t \o g)[Len(t \o g)] = g[Len(g)]
      BY <2>1, <2>2, <2>3, <3>1, PartsOrderly
    <3> QED BY <2>1, <2>3, <3>2
  <2>5. t \o g \in Seq(Ops)
    BY <2>1, <2>3
  <2>6. Locks!try_full_scan = t \o g
    BY DEF Locks!try_full_scan, t, g
  <2> QED BY <2>4, <2>5, <2>6 DEF Closed
<1>7. \/ c \in Locks!connect_block
      \/ c \in {Locks!sync, Locks!apply_unconfirmed_tx, Locks!unlock, Locks!send}
      \/ c = Locks!try_full_scan
  BY DEF Locks!Code, Locks!Proc
<1> QED BY <1>1, <1>2, <1>3, <1>4, <1>5, <1>6, <1>7, ConnectOrderly

\* The next operation of a call is the first of what is left of it.
LEMMA NextOp ==
  ASSUME CodeInv, NEW p \in Locks!Proc
  PROVE  /\ l_code[p] \in Seq(Ops) /\ Orderly(l_code[p]) /\ Closed(l_code[p])
         /\ Len(l_code[p]) \in Nat
         /\ Locks!Op(p) = "idle" <=> Len(l_code[p]) = 0
         /\ Locks!Op(p) = "idle" <=> l_code[p] = <<>>
         /\ Len(l_code[p]) >= 1 => Locks!Op(p) = l_code[p][1]
<1>1. l_code[p] \in Seq(Ops) /\ Orderly(l_code[p]) /\ Closed(l_code[p])
  BY DEF CodeInv
<1>2. Len(l_code[p]) \in Nat /\ (Len(l_code[p]) = 0 <=> l_code[p] = <<>>)
  BY <1>1
<1>3. CASE Len(l_code[p]) = 0
  BY <1>1, <1>2, <1>3 DEF Locks!Op
<1>4. CASE Len(l_code[p]) >= 1
  <2>1. Locks!Op(p) = Head(l_code[p]) /\ Head(l_code[p]) = l_code[p][1]
    BY <1>1, <1>2, <1>4 DEF Locks!Op
  <2>2. l_code[p][1] \in Ops
    BY <1>1, <1>4
  <2>3. Locks!Op(p) # "idle"
    BY <2>1, <2>2 DEF Ops
  <2> QED BY <1>1, <1>2, <1>4, <2>1, <2>3
<1> QED BY <1>2, <1>3, <1>4

\* A call that takes a step goes on to the operation that its code has there.
LEMMA CallAdvances ==
  ASSUME CodeInv, NEW p \in Locks!Proc, Locks!Op(p) # "idle", Locks!Advance(p)
  PROVE  /\ CodeInv' /\ l_code'[p] = Tail(l_code[p])
         /\ \A q \in Locks!Proc : q # p => l_code'[q] = l_code[q] /\ Locks!Op(q)' = Locks!Op(q)
         /\ Locks!Op(p)' = "db" => Locks!Op(p) \in {"write", "upgrade"}
         /\ Locks!Op(p)' = "slot" => Locks!Op(p) = "release"
         /\ Locks!Op(p)' = "idle" => Locks!Op(p) = "release" /\ Tail(l_code[p]) = <<>>
         /\ Locks!Op(p)' # "try_slot"
         /\ Locks!Op(p) = "db" \/ (Persisting(l_code[p]) /\ Locks!Op(p) = "stop?")
              => Persisting(l_code'[p])
<1> DEFINE c == l_code[p]
           t == Tail(c)
<1>1. /\ c \in Seq(Ops) /\ Orderly(c) /\ Closed(c) /\ Len(c) \in Nat /\ Len(c) >= 1
      /\ Locks!Op(p) = c[1]
  <2>1. Len(c) \in Nat /\ Len(c) # 0
    BY NextOp
  <2> QED BY <2>1, NextOp
<1>2. l_code \in [Locks!Proc -> Seq(Ops)] /\ l_code' = [l_code EXCEPT ![p] = t]
  BY DEF CodeInv, Locks!Advance
<1>3. /\ Orderly(t) /\ Closed(t) /\ t \in Seq(Ops) /\ Len(t) = Len(c) - 1
      /\ Len(c) >= 2 => Head(t) = c[2] /\ t[1] = c[2]
      /\ Len(c) >= 3 => t[2] = c[3]
  BY <1>1, RestOrderly
<1> HIDE DEF c, t
<1>4. /\ l_code' \in [Locks!Proc -> Seq(Ops)] /\ l_code'[p] = t
      /\ \A q \in Locks!Proc : q # p => l_code'[q] = l_code[q]
  BY <1>2, <1>3
<1>5. CodeInv'
  BY <1>3, <1>4 DEF CodeInv
<1>6. \A q \in Locks!Proc : q # p => Locks!Op(q)' = Locks!Op(q)
  BY <1>4 DEF Locks!Op
<1>7. Locks!Op(p)' = IF t = <<>> THEN "idle" ELSE Head(t)
  BY <1>4 DEF Locks!Op
<1>8. CASE Len(c) = 1
  <2>1. t = <<>> /\ Locks!Op(p)' = "idle"
    BY <1>3, <1>7, <1>8
  <2>2. c[1] = "release"
    BY <1>1, <1>8 DEF Closed
  <2> QED BY <1>1, <1>4, <1>5, <1>6, <2>1, <2>2 DEF c, t
<1>9. CASE Len(c) >= 2
  <2>1. t # <<>> /\ Locks!Op(p)' = c[2] /\ Len(t) >= 1 /\ t[1] = c[2]
    BY <1>1, <1>3, <1>7, <1>9
  <2>2. 2 \in 2..Len(c) /\ 2 - 1 = 1 /\ c[2] \in Ops /\ 1 \in 1..Len(c)
    BY <1>1, <1>9
  <2>3. /\ c[2] = "db" => c[1] \in {"write", "upgrade"}
        /\ c[2] = "slot" => c[1] = "release"
        /\ c[2] # "try_slot" /\ c[2] # "idle"
    <3>1. c[2] # "idle"
      BY <2>2 DEF Ops
    <3> QED BY <1>1, <2>2, <3>1 DEF Orderly
  <2>4. c[1] = "db" => Len(c) >= 3 /\ c[2] = "stop?" /\ c[3] = "release"
    <3>1. c[1] = "db" => 1 + 2 <= Len(c) /\ c[1 + 1] = "stop?" /\ c[1 + 2] = "release"
      BY <1>1, <2>2 DEF Orderly
    <3> QED BY <1>1, <3>1
  <2>5. c[1] = "db" => Persisting(t)
    BY <1>1, <1>3, <2>1, <2>4 DEF Persisting
  <2>6. Persisting(c) /\ c[1] = "stop?" => Persisting(t)
    BY <1>1, <2>1 DEF Persisting
  <2> QED BY <1>1, <1>4, <1>5, <1>6, <2>1, <2>3, <2>5, <2>6 DEF c, t
<1>10. \A n \in Nat : n >= 1 => n = 1 \/ n >= 2
  OBVIOUS
<1>11. Len(c) = 1 \/ Len(c) >= 2
  BY <1>1, <1>10
<1> QED BY <1>8, <1>9, <1>11, Zenon

\* A call that ends, or one that begins, touches no other.
LEMMA CallReplaced ==
  ASSUME CodeInv, NEW p \in Locks!Proc, NEW c \in Seq(Ops), Orderly(c), Closed(c),
         l_code' = [l_code EXCEPT ![p] = c]
  PROVE  /\ CodeInv' /\ l_code'[p] = c
         /\ \A q \in Locks!Proc : q # p => l_code'[q] = l_code[q] /\ Locks!Op(q)' = Locks!Op(q)
         /\ c = <<>> => Locks!Op(p)' = "idle"
         /\ Len(c) >= 1 => Locks!Op(p)' = c[1]
<1>1. /\ l_code' \in [Locks!Proc -> Seq(Ops)] /\ l_code'[p] = c
      /\ \A q \in Locks!Proc : q # p => l_code'[q] = l_code[q]
  BY DEF CodeInv
<1>2. CodeInv'
  BY <1>1 DEF CodeInv
<1>3. \A q \in Locks!Proc : q # p => Locks!Op(q)' = Locks!Op(q)
  BY <1>1 DEF Locks!Op
<1>4. /\ c = <<>> => Locks!Op(p)' = "idle"
      /\ Len(c) >= 1 => Locks!Op(p)' = c[1]
  <2>1. Locks!Op(p)' = IF c = <<>> THEN "idle" ELSE Head(c)
    BY <1>1 DEF Locks!Op
  <2>2. Len(c) >= 1 => c # <<>> /\ Head(c) = c[1]
    OBVIOUS
  <2> QED BY <2>1, <2>2
<1> QED BY <1>1, <1>2, <1>3, <1>4

\* A call that is over has nothing left to do.
LEMMA NoCode == <<>> \in Seq(Ops) /\ Orderly(<<>>) /\ Closed(<<>>)
<1>1. <<>> \in Seq(Ops) /\ Len(<<>>) = 0
  OBVIOUS
<1> QED BY <1>1 DEF Orderly, Closed

\* Without a call there is no lock; a call that is not at the database, nor past
\* it, is not in its queue; and the holder of the wallet is one.
LEMMA LockFacts ==
  ASSUME LocksInv, NEW p \in Locks!Proc
  PROVE  /\ Locks!Waits(l_db, p) => Locks!Op(p) \in {"db", "stop?", "release"}
         /\ Locks!Op(p) = "idle" => ~Locks!Waits(l_db, p)
         /\ \A q : Locks!Holds(l_mutex, p) /\ Locks!Holds(l_mutex, q) => p = q
         /\ Locks!Holds(l_mutex, p) => Len(l_mutex) >= 1
<1>1. QueuesInv /\ CodeInv /\ DbInv /\ SlotInv
  BY DEF LocksInv
<1>2. Locks!Waits(l_db, p) => Persisting(l_code[p])
  BY <1>1 DEF DbInv
<1>3. Locks!Waits(l_db, p) => Locks!Op(p) \in {"db", "stop?", "release"}
  BY <1>1, <1>2, NextOp DEF Persisting
<1>4. l_mutex \in Seq(Locks!Proc)
  BY <1>1 DEF QueuesInv
<1>5. \A q : Locks!Holds(l_mutex, p) /\ Locks!Holds(l_mutex, q) => p = q
  BY <1>4, OneHolder
<1>6. Locks!Holds(l_mutex, p) => Len(l_mutex) >= 1
  BY <1>4 DEF Locks!Holds
<1> QED BY <1>3, <1>5, <1>6

\* A call that begins holds nothing.
LEMMA BeginKeepsLocks ==
  ASSUME LocksInv, NEW p \in Locks!Proc, Locks!Begin(p)
  PROVE  LocksInv'
<1>1. QueuesInv /\ CodeInv /\ DbInv /\ SlotInv
  BY DEF LocksInv
<1>2. /\ Locks!Op(p) = "idle"
      /\ UNCHANGED <<l_slot, l_mutex, l_db, l_readers, l_writer>>
  BY DEF Locks!Begin
<1>3. PICK c \in Locks!Code(p) : l_code' = [l_code EXCEPT ![p] = c]
  BY DEF Locks!Begin
<1>4. c \in Seq(Ops) /\ Orderly(c) /\ Closed(c) /\ Len(c) >= 1 /\ c[1] # "db"
  BY CallsOrderly
<1>5. /\ CodeInv' /\ Locks!Op(p)' = c[1]
      /\ \A q \in Locks!Proc : q # p => l_code'[q] = l_code[q] /\ Locks!Op(q)' = Locks!Op(q)
  BY <1>1, <1>3, <1>4, CallReplaced
<1>6. ~Locks!Waits(l_mutex, p) /\ ~Locks!Waits(l_slot, p) /\ ~Locks!Waits(l_db, p)
  BY <1>1, <1>2, LockFacts DEF SlotInv
<1>7. QueuesInv'
  BY <1>1, <1>2 DEF QueuesInv
<1>8. DbInv'
  BY <1>1, <1>2, <1>4, <1>5, <1>6 DEF DbInv, AloneWithWallet
<1>9. SlotInv'
  BY <1>1, <1>2, <1>5, <1>6 DEF SlotInv
<1>10. (l_writer \in BOOLEAN)'
  BY <1>2, Zenon DEF LocksInv
<1> QED BY <1>5, <1>7, <1>8, <1>9, <1>10 DEF LocksInv

\* Joining a queue leaves the holder where it is.
LEMMA QueueKeepsLocks ==
  ASSUME LocksInv, NEW p \in Locks!Proc, Locks!Queue(p)
  PROVE  LocksInv'
<1>1. QueuesInv /\ CodeInv /\ DbInv /\ SlotInv
  BY DEF LocksInv
<1>2. UNCHANGED <<l_code, l_readers, l_writer>>
  BY DEF Locks!Queue
<1>3. CodeInv' /\ \A q \in Locks!Proc : Locks!Op(q)' = Locks!Op(q)
  BY <1>1, <1>2 DEF CodeInv, Locks!Op
<1>4. (l_writer \in BOOLEAN)'
  BY <1>2, Zenon DEF LocksInv
<1>5. CASE /\ Locks!Op(p) = "slot" /\ ~Locks!Waits(l_slot, p)
           /\ l_slot' = Append(l_slot, p) /\ UNCHANGED <<l_mutex, l_db>>
  <2>1. /\ l_slot' \in Seq(Locks!Proc) /\ Locks!EachOnce(l_slot')
        /\ \A x : Locks!Waits(l_slot', x) <=> Locks!Waits(l_slot, x) \/ x = p
        /\ \A x : Locks!Holds(l_slot, x) => Locks!Holds(l_slot', x)
    BY <1>1, <1>5, Joined DEF QueuesInv
  <2>2. QueuesInv'
    BY <1>1, <1>2, <1>5, <2>1 DEF QueuesInv
  <2>3. DbInv'
    BY <1>1, <1>2, <1>3, <1>5 DEF DbInv, AloneWithWallet
  <2>4. SlotInv'
    BY <1>1, <1>3, <1>5, <2>1 DEF SlotInv
  <2> QED BY <1>3, <1>4, <2>2, <2>3, <2>4 DEF LocksInv
<1>6. CASE /\ Locks!Op(p) \in {"upgradable", "write"} /\ ~Locks!Waits(l_mutex, p)
           /\ l_mutex' = Append(l_mutex, p) /\ UNCHANGED <<l_slot, l_db>>
  <2>1. /\ l_mutex' \in Seq(Locks!Proc) /\ Locks!EachOnce(l_mutex') /\ Len(l_mutex') >= 1
        /\ \A x : Locks!Waits(l_mutex', x) <=> Locks!Waits(l_mutex, x) \/ x = p
        /\ \A x : Locks!Holds(l_mutex, x) => Locks!Holds(l_mutex', x)
    BY <1>1, <1>6, Joined DEF QueuesInv
  <2>2. QueuesInv'
    BY <1>1, <1>2, <1>6, <2>1 DEF QueuesInv
  <2>3. DbInv'
    BY <1>1, <1>2, <1>3, <1>6, <2>1 DEF DbInv, AloneWithWallet
  <2>4. SlotInv'
    BY <1>1, <1>3, <1>6, <2>1 DEF SlotInv
  <2> QED BY <1>3, <1>4, <2>2, <2>3, <2>4 DEF LocksInv
<1>7. CASE /\ Locks!Op(p) = "db" /\ ~Locks!Waits(l_db, p)
           /\ l_db' = Append(l_db, p) /\ UNCHANGED <<l_slot, l_mutex>>
  <2>1. /\ l_db' \in Seq(Locks!Proc) /\ Locks!EachOnce(l_db')
        /\ \A x : Locks!Waits(l_db', x) <=> Locks!Waits(l_db, x) \/ x = p
    BY <1>1, <1>7, Joined DEF QueuesInv
  <2>2. QueuesInv'
    BY <1>1, <1>2, <1>7, <2>1 DEF QueuesInv
  <2>3. Persisting(l_code[p])
    <3>1. Len(l_code[p]) \in Nat /\ Len(l_code[p]) # 0 /\ Len(l_code[p]) >= 1 => l_code[p][1] = "db"
      BY <1>1, <1>7, NextOp
    <3>2. Len(l_code[p]) \in Nat /\ Len(l_code[p]) # 0
      BY <1>1, <1>7, NextOp
    <3>3. \A n \in Nat : n # 0 => n >= 1
      OBVIOUS
    <3> QED BY <3>1, <3>2, <3>3 DEF Persisting
  <2>4. DbInv'
    BY <1>1, <1>2, <1>3, <1>7, <2>1, <2>3 DEF DbInv, AloneWithWallet
  <2>5. SlotInv'
    BY <1>1, <1>3, <1>7 DEF SlotInv
  <2> QED BY <1>3, <1>4, <2>2, <2>4, <2>5 DEF LocksInv
<1> QED BY <1>5, <1>6, <1>7 DEF Locks!Queue

\* A writer announces itself with the mutex.
LEMMA AnnounceKeepsLocks ==
  ASSUME LocksInv, NEW p \in Locks!Proc, Locks!Announce(p)
  PROVE  LocksInv'
<1>1. QueuesInv /\ CodeInv /\ DbInv /\ SlotInv
  BY DEF LocksInv
<1>2. /\ l_writer' = TRUE /\ Len(l_mutex) >= 1
      /\ UNCHANGED <<l_code, l_slot, l_mutex, l_db, l_readers>>
  BY LockFacts DEF Locks!Announce
<1>3. CodeInv' /\ \A q \in Locks!Proc : Locks!Op(q)' = Locks!Op(q)
  BY <1>1, <1>2 DEF CodeInv, Locks!Op
<1>4. QueuesInv'
  BY <1>1, <1>2 DEF QueuesInv
<1>5. DbInv'
  BY <1>1, <1>2, <1>3 DEF DbInv, AloneWithWallet
<1>6. SlotInv'
  BY <1>1, <1>2, <1>3 DEF SlotInv
<1>7. (l_writer \in BOOLEAN)'
  BY <1>2, Zenon
<1> QED BY <1>3, <1>4, <1>5, <1>6, <1>7 DEF LocksInv

\* A lock is acquired: a reader comes in only while no writer is announced, and
\* an upgradable reader only with the mutex; a writer only when the readers have
\* left.  The database is asked for by nobody but the writer.
LEMMA AcquireKeepsLocks ==
  ASSUME LocksInv, NEW p \in Locks!Proc, Locks!Acquire(p)
  PROVE  LocksInv'
<1>1. QueuesInv /\ CodeInv /\ DbInv /\ SlotInv
  BY DEF LocksInv
<1>2. Locks!Advance(p) /\ UNCHANGED <<l_slot, l_mutex, l_db, l_writer>>
  BY DEF Locks!Acquire
<1>3. Locks!Op(p) \in {"slot", "db", "read", "upgradable", "write", "upgrade"}
  BY DEF Locks!Acquire
<1>4. /\ CodeInv'
      /\ \A q \in Locks!Proc : q # p => l_code'[q] = l_code[q] /\ Locks!Op(q)' = Locks!Op(q)
      /\ Locks!Op(p)' = "db" => Locks!Op(p) \in {"write", "upgrade"}
      /\ Locks!Op(p)' \notin {"idle", "slot", "try_slot"}
      /\ Locks!Op(p) = "db" => Persisting(l_code'[p])
  BY <1>1, <1>2, <1>3, CallAdvances
<1>5. (l_writer \in BOOLEAN)'
  BY <1>2, Zenon DEF LocksInv
<1>6. Locks!Op(p) = "slot" => Locks!Holds(l_slot, p)
  BY DEF Locks!Acquire
<1>7. SlotInv'
  BY <1>1, <1>2, <1>3, <1>4, <1>6 DEF SlotInv
<1>8. ASSUME DbInv', l_readers' \subseteq Locks!Proc PROVE LocksInv'
  <2>1. QueuesInv'
    BY <1>1, <1>2, <1>8 DEF QueuesInv
  <2> QED BY <1>4, <1>5, <1>7, <1>8, <2>1 DEF LocksInv
<1>9. Locks!Op(p) # "db" => ~Locks!Waits(l_db, p)
  BY <1>3, LockFacts
<1>10. \A q \in Locks!Proc :
         Locks!Op(q) = "db" \/ Locks!Waits(l_db, q) => AloneWithWallet(q)
  BY <1>1 DEF DbInv
<1>11. \A q \in Locks!Proc : Locks!Waits(l_db, q) => Persisting(l_code[q])
  BY <1>1 DEF DbInv
<1>12. CASE Locks!Op(p) \in {"slot", "db"} /\ UNCHANGED l_readers
  <2>1. DbInv'
    BY <1>2, <1>4, <1>9, <1>10, <1>11, <1>12 DEF DbInv, AloneWithWallet
  <2> QED BY <1>1, <1>8, <1>12, <2>1 DEF QueuesInv
<1>13. CASE \/ Locks!Op(p) = "read" /\ ~l_writer /\ l_readers' = l_readers \cup {p}
            \/ /\ Locks!Op(p) = "upgradable" /\ Locks!Holds(l_mutex, p)
               /\ l_readers' = l_readers \cup {p}
  <2>1. \A q \in Locks!Proc : ~(Locks!Op(q) = "db" \/ Locks!Waits(l_db, q))
    <3> SUFFICES ASSUME NEW q \in Locks!Proc, Locks!Op(q) = "db" \/ Locks!Waits(l_db, q)
                 PROVE  FALSE
      OBVIOUS
    <3>1. Locks!Holds(l_mutex, q) /\ l_writer
      BY <1>10 DEF AloneWithWallet
    <3>2. q = p
      BY <1>13, <3>1, LockFacts
    <3> QED BY <1>9, <1>13, <3>2
  <2>2. DbInv'
    BY <1>2, <1>4, <1>13, <2>1 DEF DbInv
  <2> QED BY <1>1, <1>8, <1>13, <2>2 DEF QueuesInv
<1>14. CASE /\ Locks!Op(p) \in {"write", "upgrade"} /\ Locks!Holds(l_mutex, p) /\ l_writer
            /\ l_readers' = {}
  <2>1. AloneWithWallet(p)'
    BY <1>2, <1>14 DEF AloneWithWallet
  <2>2. \A q \in Locks!Proc : AloneWithWallet(q) => AloneWithWallet(q)'
    BY <1>2, <1>14 DEF AloneWithWallet
  <2>3. DbInv'
    BY <1>2, <1>4, <1>9, <1>10, <1>11, <1>14, <2>1, <2>2 DEF DbInv
  <2> QED BY <1>8, <1>14, <2>3
<1> QED BY <1>12, <1>13, <1>14 DEF Locks!Acquire

\* WalletLocks::try_full_scan takes the slot only if nobody has it.
LEMMA TrySlotKeepsLocks ==
  ASSUME LocksInv, NEW p \in Locks!Proc, Locks!TrySlot(p)
  PROVE  LocksInv'
<1>1. QueuesInv /\ CodeInv /\ DbInv /\ SlotInv
  BY DEF LocksInv
<1>2. Locks!Op(p) = "try_slot" /\ UNCHANGED <<l_mutex, l_db, l_readers, l_writer>>
  BY DEF Locks!TrySlot
<1>3. ~Locks!Waits(l_mutex, p) /\ ~Locks!Waits(l_slot, p) /\ ~Locks!Waits(l_db, p)
  BY <1>1, <1>2, LockFacts DEF SlotInv
<1>4. (l_writer \in BOOLEAN)'
  BY <1>2, Zenon DEF LocksInv
<1>5. CASE Locks!SlotTaken
  <2>1. l_code' = [l_code EXCEPT ![p] = <<>>] /\ l_slot' = l_slot
    BY <1>5 DEF Locks!TrySlot, Locks!End
  <2>2. /\ CodeInv' /\ Locks!Op(p)' = "idle"
        /\ \A q \in Locks!Proc : q # p => l_code'[q] = l_code[q] /\ Locks!Op(q)' = Locks!Op(q)
    BY <1>1, <2>1, CallReplaced, NoCode
  <2>3. QueuesInv'
    BY <1>1, <1>2, <2>1 DEF QueuesInv
  <2>4. DbInv'
    BY <1>1, <1>2, <1>3, <2>2 DEF DbInv, AloneWithWallet
  <2>5. SlotInv'
    BY <1>1, <1>2, <1>3, <2>1, <2>2 DEF SlotInv
  <2> QED BY <1>4, <2>2, <2>3, <2>4, <2>5 DEF LocksInv
<1>6. CASE ~Locks!SlotTaken
  <2>1. Locks!Advance(p) /\ l_slot = <<>> /\ l_slot' = Append(l_slot, p)
    BY <1>6 DEF Locks!TrySlot, Locks!SlotTaken
  <2>2. /\ CodeInv'
        /\ \A q \in Locks!Proc : q # p => l_code'[q] = l_code[q] /\ Locks!Op(q)' = Locks!Op(q)
        /\ Locks!Op(p)' # "db" /\ Locks!Op(p)' \notin {"idle", "slot", "try_slot"}
    BY <1>1, <1>2, <2>1, CallAdvances
  <2>3. /\ l_slot' \in Seq(Locks!Proc) /\ Locks!EachOnce(l_slot')
        /\ \A x : Locks!Waits(l_slot', x) <=> Locks!Waits(l_slot, x) \/ x = p
        /\ \A x : Locks!Holds(l_slot, x) => Locks!Holds(l_slot', x)
        /\ Locks!Holds(l_slot', p)
    <3>1. l_slot \in Seq(Locks!Proc) /\ Locks!EachOnce(l_slot)
      BY <1>1 DEF QueuesInv
    <3> DEFINE r == Append(l_slot, p)
    <3>2. /\ r \in Seq(Locks!Proc) /\ Locks!EachOnce(r)
          /\ \A x : Locks!Waits(r, x) <=> Locks!Waits(l_slot, x) \/ x = p
          /\ \A x : Locks!Holds(l_slot, x) => Locks!Holds(r, x)
          /\ l_slot = <<>> => Locks!Holds(r, p)
      BY <1>3, <3>1, Joined
    <3>3. l_slot' = r
      BY <2>1
    <3> HIDE DEF r
    <3> QED BY <2>1, <3>2, <3>3
  <2>4. QueuesInv'
    BY <1>1, <1>2, <2>3 DEF QueuesInv
  <2>5. DbInv'
    BY <1>1, <1>2, <1>3, <2>2 DEF DbInv, AloneWithWallet
  <2>6. SlotInv'
    BY <1>1, <1>2, <1>3, <2>2, <2>3 DEF SlotInv
  <2> QED BY <1>4, <2>2, <2>4, <2>5, <2>6 DEF LocksInv
<1> QED BY <1>5, <1>6

\* Whoever drops the guards on the wallet and its database leaves the queues of
\* both, and takes the announcement of a writer only if it was its own.
LEMMA WalletReleased ==
  ASSUME LocksInv, NEW p \in Locks!Proc, Locks!ReleaseWallet(p)
  PROVE  /\ l_mutex' \in Seq(Locks!Proc) /\ Locks!EachOnce(l_mutex')
         /\ l_db' \in Seq(Locks!Proc) /\ Locks!EachOnce(l_db')
         /\ l_readers' \subseteq Locks!Proc /\ l_writer' \in BOOLEAN
         /\ l_writer' => Len(l_mutex') >= 1
         /\ \A q : Locks!Waits(l_mutex', q) => Locks!Waits(l_mutex, q) /\ q # p
         /\ \A q : Locks!Waits(l_db', q) => Locks!Waits(l_db, q) /\ q # p
         /\ \A q \in Locks!Proc : q # p /\ AloneWithWallet(q) => AloneWithWallet(q)'
<1>1. /\ l_mutex' = Locks!Without(l_mutex, p) /\ l_db' = Locks!Without(l_db, p)
      /\ l_readers' = l_readers \ {p}
      /\ l_writer' = (l_writer /\ ~Locks!Holds(l_mutex, p))
  BY DEF Locks!ReleaseWallet
<1>2. /\ l_mutex \in Seq(Locks!Proc) /\ Locks!EachOnce(l_mutex)
      /\ l_db \in Seq(Locks!Proc) /\ Locks!EachOnce(l_db)
      /\ l_readers \subseteq Locks!Proc
      /\ l_writer => Len(l_mutex) >= 1
  BY DEF LocksInv, QueuesInv
<1>3. /\ l_mutex' \in Seq(Locks!Proc) /\ Locks!EachOnce(l_mutex')
      /\ \A q : Locks!Waits(l_mutex', q) <=> Locks!Waits(l_mutex, q) /\ q # p
      /\ \A q : q # p /\ Locks!Holds(l_mutex, q) => Locks!Holds(l_mutex', q)
      /\ Len(l_mutex) >= 1 /\ ~Locks!Holds(l_mutex, p) => Len(l_mutex') >= 1
  BY <1>1, <1>2, Left
<1>4. /\ l_db' \in Seq(Locks!Proc) /\ Locks!EachOnce(l_db')
      /\ \A q : Locks!Waits(l_db', q) <=> Locks!Waits(l_db, q) /\ q # p
  BY <1>1, <1>2, Left
<1>5. l_writer' \in BOOLEAN
  BY <1>1, Zenon
<1>6. l_writer' => l_writer /\ ~Locks!Holds(l_mutex, p)
  BY <1>1, Zenon
<1>7. ASSUME NEW q \in Locks!Proc, q # p, AloneWithWallet(q)  PROVE AloneWithWallet(q)'
  <2>1. Locks!Holds(l_mutex, q) /\ l_writer /\ l_readers = {}
    BY <1>7 DEF AloneWithWallet
  <2>2. ~Locks!Holds(l_mutex, p)
    BY <1>2, <1>7, <2>1, OneHolder
  <2>3. l_writer'
    BY <1>1, <2>1, <2>2
  <2>4. Locks!Holds(l_mutex', q) /\ l_readers' = {}
    BY <1>1, <1>3, <1>7, <2>1
  <2> QED BY <2>3, <2>4 DEF AloneWithWallet
<1> QED BY <1>1, <1>2, <1>3, <1>4, <1>5, <1>6, <1>7

\* What remains after a release is in order if the slot's queue is.
LEMMA ReleaseKeepsLocks ==
  ASSUME LocksInv, NEW p \in Locks!Proc, Locks!ReleaseWallet(p), CodeInv',
         \A q \in Locks!Proc : q # p => l_code'[q] = l_code[q] /\ Locks!Op(q)' = Locks!Op(q),
         Locks!Op(p)' \notin {"db", "try_slot"},
         \/ l_slot' = l_slot /\ Locks!Op(p) # "slot" /\ Locks!Op(p)' # "idle"
         \/ l_slot' = Locks!Without(l_slot, p)
  PROVE  LocksInv'
<1>1. QueuesInv /\ DbInv /\ SlotInv
  BY DEF LocksInv
<1>2. /\ l_mutex' \in Seq(Locks!Proc) /\ Locks!EachOnce(l_mutex')
      /\ l_db' \in Seq(Locks!Proc) /\ Locks!EachOnce(l_db')
      /\ l_readers' \subseteq Locks!Proc /\ l_writer' \in BOOLEAN
      /\ l_writer' => Len(l_mutex') >= 1
      /\ \A q : Locks!Waits(l_mutex', q) => Locks!Waits(l_mutex, q) /\ q # p
      /\ \A q : Locks!Waits(l_db', q) => Locks!Waits(l_db, q) /\ q # p
      /\ \A q \in Locks!Proc : q # p /\ AloneWithWallet(q) => AloneWithWallet(q)'
  BY WalletReleased
<1>3. l_slot \in Seq(Locks!Proc) /\ Locks!EachOnce(l_slot)
  BY <1>1 DEF QueuesInv
<1>4. /\ l_slot' \in Seq(Locks!Proc) /\ Locks!EachOnce(l_slot')
      /\ \A q : Locks!Waits(l_slot', q) => Locks!Waits(l_slot, q)
      /\ \A q : q # p /\ Locks!Holds(l_slot, q) => Locks!Holds(l_slot', q)
      /\ Locks!Waits(l_slot', p) => l_slot' = l_slot
  <2>1. CASE l_slot' = l_slot
    BY <1>3, <2>1
  <2>2. CASE l_slot' = Locks!Without(l_slot, p)
    BY <1>3, <2>2, Left
  <2> QED BY <2>1, <2>2
<1>5. QueuesInv'
  BY <1>2, <1>4 DEF QueuesInv
<1>6. DbInv'
  BY <1>1, <1>2 DEF DbInv
<1>7. SlotInv'
  <2>1. ~Locks!Waits(l_mutex', p)
    BY <1>2
  <2>2. Locks!Op(p)' \in {"idle", "try_slot"} => ~Locks!Waits(l_slot', p)
    BY <1>3, Left
  <2>3. Locks!Waits(l_slot', p) => Locks!Holds(l_slot', p) \/ Locks!Op(p)' = "slot"
    <3>1. CASE l_slot' = l_slot /\ Locks!Op(p) # "slot"
      BY <1>1, <3>1 DEF SlotInv
    <3>2. CASE l_slot' = Locks!Without(l_slot, p)
      BY <1>3, <3>2, Left
    <3> QED BY <3>1, <3>2
  <2>4. ASSUME NEW q \in Locks!Proc, q # p
        PROVE  /\ Locks!Waits(l_slot', q) => Locks!Holds(l_slot', q) \/ Locks!Op(q)' = "slot"
               /\ Locks!Op(q)' \in {"idle", "slot", "try_slot"} => ~Locks!Waits(l_mutex', q)
               /\ Locks!Op(q)' \in {"idle", "try_slot"} => ~Locks!Waits(l_slot', q)
    BY <1>1, <1>2, <1>4, <2>4 DEF SlotInv
  <2> QED BY <2>1, <2>2, <2>3, <2>4 DEF SlotInv
<1> QED BY <1>2, <1>5, <1>6, <1>7, Zenon DEF LocksInv

\* A release, in the middle of a call or at its end, and an early return.
LEMMA DropsKeepLocks ==
  ASSUME LocksInv, NEW p \in Locks!Proc, Locks!Release(p) \/ Locks!StopEarly(p)
  PROVE  LocksInv'
<1>1. QueuesInv /\ CodeInv /\ DbInv /\ SlotInv
  BY DEF LocksInv
<1>2. CASE /\ Locks!Op(p) = "release" /\ Locks!Advance(p)
           /\ Locks!ReleaseWallet(p)
           /\ \/ Tail(l_code[p]) # <<>> /\ UNCHANGED l_slot
              \/ l_slot' = Locks!Without(l_slot, p)
  <2>1. /\ CodeInv'
        /\ \A q \in Locks!Proc : q # p => l_code'[q] = l_code[q] /\ Locks!Op(q)' = Locks!Op(q)
        /\ Locks!Op(p)' \notin {"db", "try_slot"}
        /\ Locks!Op(p)' = "idle" => Tail(l_code[p]) = <<>>
    BY <1>1, <1>2, CallAdvances
  <2> QED BY <1>2, <2>1, ReleaseKeepsLocks
<1>3. CASE /\ Locks!Op(p) = "release_slot" /\ Locks!Advance(p) /\ l_slot' = Locks!Without(l_slot, p)
           /\ UNCHANGED <<l_mutex, l_db, l_readers, l_writer>>
  <2>1. /\ CodeInv'
        /\ \A q \in Locks!Proc : q # p => l_code'[q] = l_code[q] /\ Locks!Op(q)' = Locks!Op(q)
        /\ Locks!Op(p)' # "db" /\ Locks!Op(p)' \notin {"idle", "slot", "try_slot"}
    BY <1>1, <1>3, CallAdvances
  <2>2. l_slot \in Seq(Locks!Proc) /\ Locks!EachOnce(l_slot)
    BY <1>1 DEF QueuesInv
  <2>3. /\ l_slot' \in Seq(Locks!Proc) /\ Locks!EachOnce(l_slot') /\ ~Locks!Waits(l_slot', p)
        /\ \A q : Locks!Waits(l_slot', q) => Locks!Waits(l_slot, q) /\ q # p
        /\ \A q : q # p /\ Locks!Holds(l_slot, q) => Locks!Holds(l_slot', q)
    BY <1>3, <2>2, Left
  <2>4. QueuesInv'
    BY <1>1, <1>3, <2>3 DEF QueuesInv
  <2>5. ~Locks!Waits(l_db, p)
    BY <1>3, LockFacts
  <2>6. DbInv'
    BY <1>1, <1>3, <2>1, <2>5 DEF DbInv, AloneWithWallet
  <2>7. SlotInv'
    BY <1>1, <1>3, <2>1, <2>3 DEF SlotInv
  <2>8. (l_writer \in BOOLEAN)'
    BY <1>3, Zenon DEF LocksInv
  <2> QED BY <2>1, <2>4, <2>6, <2>7, <2>8 DEF LocksInv
<1>4. CASE Locks!StopEarly(p)
  <2>1. /\ l_code' = [l_code EXCEPT ![p] = <<>>]
        /\ Locks!ReleaseWallet(p) /\ l_slot' = Locks!Without(l_slot, p)
    BY <1>4 DEF Locks!StopEarly, Locks!End, Locks!ReleaseAll
  <2>2. /\ CodeInv' /\ Locks!Op(p)' = "idle"
        /\ \A q \in Locks!Proc : q # p => l_code'[q] = l_code[q] /\ Locks!Op(q)' = Locks!Op(q)
    BY <1>1, <2>1, CallReplaced, NoCode
  <2> QED BY <2>1, <2>2, ReleaseKeepsLocks
<1>5. CASE Locks!Release(p)
  BY <1>2, <1>3, <1>5 DEF Locks!Release, Locks!ReleaseAll
<1> QED BY <1>4, <1>5

\* A call that goes on keeps what it holds.
LEMMA GoOnKeepsLocks ==
  ASSUME LocksInv, NEW p \in Locks!Proc, Locks!GoOn(p)
  PROVE  LocksInv'
<1>1. QueuesInv /\ CodeInv /\ DbInv /\ SlotInv
  BY DEF LocksInv
<1>2. /\ Locks!Op(p) = "stop?" /\ Locks!Advance(p)
      /\ UNCHANGED <<l_slot, l_mutex, l_db, l_readers, l_writer>>
  BY DEF Locks!GoOn
<1>3. /\ CodeInv'
      /\ \A q \in Locks!Proc : q # p => l_code'[q] = l_code[q] /\ Locks!Op(q)' = Locks!Op(q)
      /\ Locks!Op(p)' # "db" /\ Locks!Op(p)' \notin {"idle", "slot", "try_slot"}
      /\ Persisting(l_code[p]) => Persisting(l_code'[p])
  BY <1>1, <1>2, CallAdvances
<1>4. QueuesInv'
  BY <1>1, <1>2 DEF QueuesInv
<1>5. DbInv'
  BY <1>1, <1>2, <1>3 DEF DbInv, AloneWithWallet
<1>6. SlotInv'
  BY <1>1, <1>2, <1>3 DEF SlotInv
<1>7. (l_writer \in BOOLEAN)'
  BY <1>2, Zenon DEF LocksInv
<1> QED BY <1>3, <1>4, <1>5, <1>6, <1>7 DEF LocksInv

\* At the start nobody calls and no lock is held.
LEMMA LocksStart == Locks!Init => LocksInv
<1> SUFFICES ASSUME Locks!Init PROVE LocksInv
  OBVIOUS
<1>1. /\ l_code = [p \in Locks!Proc |-> <<>>]
      /\ l_slot = <<>> /\ l_mutex = <<>> /\ l_db = <<>> /\ l_readers = {} /\ l_writer = FALSE
  BY DEF Locks!Init
<1>2. CodeInv /\ \A p \in Locks!Proc : Locks!Op(p) = "idle"
  BY <1>1, NoCode DEF CodeInv, Locks!Op
<1>3. \A q : ~Locks!Waits(<<>>, q)
  BY DEF Locks!Waits
<1>4. QueuesInv
  BY <1>1 DEF QueuesInv, Locks!EachOnce
<1>5. DbInv
  BY <1>1, <1>2, <1>3 DEF DbInv
<1>6. SlotInv
  BY <1>1, <1>2, <1>3 DEF SlotInv
<1>7. l_writer \in BOOLEAN
  BY <1>1, Zenon
<1> QED BY <1>2, <1>4, <1>5, <1>6, <1>7 DEF LocksInv

\* Whoever writes to the wallet's database is alone with the wallet, and at most
\* one scan keeps the wallet or waits for it, for any number of callers of each
\* kind and of calls.
THEOREM WriterAlone == Locks!Spec => []PersistsAlone
<1>1. LocksInv /\ [Locks!Next]_(Locks!vars) => LocksInv'
  <2> SUFFICES ASSUME LocksInv, [Locks!Next]_(Locks!vars) PROVE LocksInv'
    OBVIOUS
  <2>1. CASE Locks!Next
    <3>1. PICK p \in Locks!Proc : Locks!Begin(p) \/ Locks!Step(p)
      BY <2>1 DEF Locks!Next
    <3> QED
      BY <3>1, BeginKeepsLocks, QueueKeepsLocks, AnnounceKeepsLocks, AcquireKeepsLocks,
         TrySlotKeepsLocks, DropsKeepLocks, GoOnKeepsLocks
      DEF Locks!Step
  <2>2. CASE UNCHANGED Locks!vars
    <3>1. UNCHANGED <<l_code, l_slot, l_mutex, l_db, l_readers, l_writer>>
      BY <2>2 DEF Locks!vars
    <3>2. QueuesInv' /\ CodeInv' /\ DbInv' /\ SlotInv'
      BY <3>1 DEF LocksInv, QueuesInv, CodeInv, DbInv, SlotInv, AloneWithWallet, Locks!Op
    <3>3. (l_writer \in BOOLEAN)'
      BY <3>1, Zenon DEF LocksInv
    <3> QED BY <3>2, <3>3 DEF LocksInv
  <2> QED BY <2>1, <2>2
<1>2. LocksInv => PersistsAlone
  <2> SUFFICES ASSUME LocksInv PROVE PersistsAlone
    OBVIOUS
  <2>1. QueuesInv /\ DbInv /\ SlotInv
    BY DEF LocksInv
  <2>2. /\ l_slot \in Seq(Locks!Proc) /\ l_mutex \in Seq(Locks!Proc) /\ l_db \in Seq(Locks!Proc)
        /\ Locks!EachOnce(l_slot) /\ Locks!EachOnce(l_mutex) /\ Locks!EachOnce(l_db)
        /\ l_readers \subseteq Locks!Proc
    BY <2>1 DEF QueuesInv
  <2>3. Locks!TypeOK
    <3>1. l_writer => l_mutex # <<>>
      BY <2>1 DEF QueuesInv
    <3>2. l_writer \in BOOLEAN
      BY DEF LocksInv
    <3> QED BY <2>2, <3>1, <3>2, Zenon DEF Locks!TypeOK
  <2>4. ASSUME NEW p \in Locks!Proc, Locks!Holds(l_db, p)
        PROVE  Locks!Holds(l_mutex, p) /\ l_writer /\ l_readers = {} /\ Len(l_db) = 1
    <3>1. Locks!Waits(l_db, p)
      BY <2>2, <2>4, OneHolder
    <3>2. AloneWithWallet(p)
      BY <2>1, <3>1 DEF DbInv
    <3>3. Len(l_db) \in Nat /\ Len(l_db) >= 1
      BY <2>2, <2>4 DEF Locks!Holds
    <3>4. ASSUME Len(l_db) >= 2 PROVE FALSE
      <4>1. /\ 1 \in 1..Len(l_db) /\ 2 \in 1..Len(l_db)
            /\ l_db[1] \in Locks!Proc /\ l_db[2] \in Locks!Proc
        BY <2>2, <3>3, <3>4
      <4>2. Locks!Waits(l_db, l_db[1]) /\ Locks!Waits(l_db, l_db[2])
        BY <4>1 DEF Locks!Waits
      <4>3. l_db[1] = l_db[2]
        BY <2>1, <4>1, <4>2, LockFacts DEF DbInv, AloneWithWallet
      <4> QED BY <2>2, <4>1, <4>3 DEF Locks!EachOnce
    <3>5. \A n \in Nat : n >= 1 /\ ~(n >= 2) => n = 1
      OBVIOUS
    <3>6. Len(l_db) = 1
      BY <3>3, <3>4, <3>5
    <3> QED BY <3>2, <3>6 DEF AloneWithWallet
  <2>5. ASSUME NEW p \in Locks!Proc, NEW q \in Locks!Proc, p # q,
               Locks!Waits(l_slot, p), Locks!Waits(l_slot, q),
               Locks!Waits(l_mutex, p), Locks!Waits(l_mutex, q)
        PROVE  FALSE
    <3>1. Locks!Holds(l_slot, p) /\ Locks!Holds(l_slot, q)
      BY <2>1, <2>5 DEF SlotInv
    <3> QED BY <2>2, <2>5, <3>1, OneHolder
  <2>6. Scanner \cup Enforcer \subseteq Locks!Proc
    BY DEF Locks!Proc
  <2> QED BY <2>3, <2>4, <2>5, <2>6 DEF PersistsAlone, Locks!PersistsAlone, Locks!OneScanAtATime
<1> QED BY <1>1, <1>2, LocksStart, PTL DEF Locks!Spec
=============================================================================
