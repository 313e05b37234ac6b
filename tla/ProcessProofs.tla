--------------------------- MODULE ProcessProofs ----------------------------
(***************************************************************************)
(* What runs beside the chain: the re-sync budget of run_with_resync for   *)
(* every value of MAX_CONSECUTIVE_RESYNCS, mining for any number of        *)
(* callers and blocks, and sending a transaction to any number of          *)
(* addresses.                                                              *)
(***************************************************************************)
EXTENDS Process, TLAPS

-----------------------------------------------------------------------------
(* The task and main                                                       *)

\* consecutive counts the failure after an attempt that lasted, and burst does
\* not; once the task has returned neither counts any more.
Counted ==
  /\ consecutive \in Nat /\ burst \in Nat
  /\ pc # "returned" => consecutive <= burst + 1
  /\ blame = "budget" => pc = "returned"
  /\ consecutive > MAX_CONSECUTIVE_RESYNCS => pc = "returned"

ResyncInv == TypeOK /\ Counted /\ RecoversFromSpacedFailures

\* A failed attempt is counted before its error is judged.
LEMMA FailureCounted ==
  ASSUME ResyncInv, AttemptFailed
  PROVE  ResyncInv'
<1> USE ResyncAssumption
    DEF ResyncInv, TypeOK, Counted, RecoversFromSpacedFailures, Count, Blamed
<1>1. blame # "budget" /\ consecutive <= burst + 1
  BY DEF AttemptFailed
<1>2. CASE error # "resyncable" \/ cancel
  BY <1>1, <1>2 DEF AttemptFailed
<1>3. CASE ~(error # "resyncable" \/ cancel) /\ Count > MAX_CONSECUTIVE_RESYNCS
  BY <1>1, <1>3 DEF AttemptFailed
<1>4. CASE ~(error # "resyncable" \/ cancel) /\ ~(Count > MAX_CONSECUTIVE_RESYNCS)
  BY <1>1, <1>4 DEF AttemptFailed
<1> QED  BY <1>2, <1>3, <1>4

\* Every step of the task and of main keeps the count and the slot in order.
LEMMA ResyncInvariance == Spec => []ResyncInv
<1>1. Init => ResyncInv
  BY ResyncAssumption DEF Init, ResyncInv, TypeOK, Counted, RecoversFromSpacedFailures
<1>2. ResyncInv /\ [Next]_vars => ResyncInv'
  <2> SUFFICES ASSUME ResyncInv, [Next]_vars PROVE ResyncInv'
    OBVIOUS
  <2> USE ResyncAssumption DEF ResyncInv, TypeOK, Counted, RecoversFromSpacedFailures
  <2>1. CASE SyncMempool
    BY <2>1 DEF SyncMempool
  <2>2. CASE PublishServer
    BY <2>2 DEF PublishServer
  <2>3. CASE BuildFails
    BY <2>3 DEF BuildFails, Blamed
  <2>4. CASE StopServing
    BY <2>4 DEF StopServing, Blamed
  <2>5. CASE AttemptFailed
    BY <2>5, FailureCounted
  <2>6. CASE Delay
    BY <2>6 DEF Delay, StartAttempt
  <2>7. CASE MempoolDies
    BY <2>7 DEF MempoolDies
  <2>8. CASE TimePasses
    BY <2>8 DEF TimePasses
  <2>9. CASE TaskJoined \/ OtherTaskEnds \/ CtrlC
    <3>1. /\ pc' = pc /\ consecutive' = consecutive /\ server' = server /\ burst' = burst
          /\ main' = "draining" /\ cancel' = TRUE
      BY <2>9 DEF TaskJoined, OtherTaskEnds, CtrlC, Shutdown, task
    <3>2. blame' = "budget" => blame = "budget"
      BY <2>9 DEF TaskJoined, OtherTaskEnds, CtrlC, Shutdown, Blamed
    <3>3. server' => pc' = "serving"
      BY <3>1, Zenon
    <3> QED  BY <3>1, <3>2, <3>3
  <2>10. CASE Drained \/ DrainTimeout
    BY <2>10 DEF Drained, DrainTimeout, End
  <2>11. CASE UNCHANGED vars
    <3>1. /\ pc' = pc /\ consecutive' = consecutive /\ server' = server
          /\ burst' = burst /\ cancel' = cancel /\ main' = main /\ blame' = blame
      BY <2>11 DEF vars, task
    <3> QED  BY <3>1, Zenon
  <2> QED
    BY <2>1, <2>2, <2>3, <2>4, <2>5, <2>6, <2>7, <2>8, <2>9, <2>10, <2>11
       DEF Next, Task
<1> QED  BY <1>1, <1>2, PTL DEF Spec

\* The re-syncs never exceed the budget of run_with_resync by more than the
\* failure that spends it, no server is left in the slot by an attempt that has
\* ended, and the token is cancelled exactly when main shuts down.
THEOREM BudgetAndSlotKept == Spec => []TypeOK
<1>1. ResyncInv => TypeOK
  BY DEF ResyncInv
<1> QED  BY <1>1, ResyncInvariance, PTL

\* Recoverable failures alone do not end the process unless, in a row, as many
\* attempts as the budget of run_with_resync have failed before they lasted:
\* for a budget of any size.
THEOREM BudgetSpentInARow == Spec => []RecoversFromSpacedFailures
<1>1. ResyncInv => RecoversFromSpacedFailures
  BY DEF ResyncInv
<1> QED  BY <1>1, ResyncInvariance, PTL


-----------------------------------------------------------------------------
(* Mining                                                                  *)

Phases == {"idle", "generate", "template", "finalize", "submit", "await"}

\* A block's path leads from the first block to it.
Path(s, n) ==
  /\ s \in Seq(Nat) /\ Len(s) >= 1 /\ s[1] = 1
  /\ \A i \in 1..Len(s) : s[i] \in 1..n

PathsOK ==
  /\ m_path \in Seq(Seq(Nat)) /\ Len(m_path) >= 1
  /\ \A b \in 1..Len(m_path) :
       Path(m_path[b], Len(m_path)) /\ m_path[b][Len(m_path[b])] = b
  /\ \A b \in 1..Len(m_path) : \A i \in 1..Len(m_path[b]) : Len(m_path[m_path[b][i]]) = i

Job == [pc : Phases, left : Nat, tip : Nat, block : Nat]

\* At most one caller has the permit, and its block is one of the node's.
JobsOK ==
  /\ m_job \in [Caller -> Job]
  /\ m_permit = {c \in Caller : m_job[c].pc # "idle"}
  /\ \A c, d \in m_permit : c = d
  /\ \A c \in Caller : m_job[c].pc # "idle" => m_job[c].left >= 1
  /\ \A c \in Caller : m_job[c].pc \in {"submit", "await"} => m_job[c].block \in 1..Len(m_path)

TipsOK ==
  /\ m_best \in 1..Len(m_path) /\ m_tip \in 1..Len(m_path) /\ m_served \in 1..Len(m_path)
  /\ m_info \subseteq 1..Len(m_path)
  /\ m_others \in Nat /\ m_lost \in Nat /\ m_rejected \in Nat

OneChain(path) ==
  \A b \in 1..Len(path) : Len(path[b]) = b /\ \A i \in 1..b : path[b][i] = i

\* Alone, the miner's blocks are one chain, the last of them is the node's tip,
\* and the validator is behind only while the miner waits for it.
Alone ==
  /\ m_rejected = 0
  /\ OneChain(m_path)
  /\ m_best = Len(m_path) /\ m_info = 1..m_tip
  /\ (\A c \in Caller : m_job[c].pc # "await") => m_tip = Len(m_path)
  /\ \A c \in Caller : m_job[c].pc \in {"submit", "await"} => m_job[c].block = Len(m_path)

MiningInv ==
  /\ PathsOK /\ JobsOK /\ TipsOK
  /\ m_others = 0 /\ m_lost = 0 => Alone

\* At the start the node has one block, which the validator has seen, and no
\* caller asks for more.
LEMMA MiningStarts == Miner!Init => MiningInv
<1> SUFFICES ASSUME Miner!Init PROVE MiningInv
  OBVIOUS
<1>1. PathsOK
  <2>1. /\ m_path \in Seq(Seq(Nat)) /\ Len(m_path) = 1 /\ m_path[1] = <<1>>
        /\ <<1>> \in Seq(Nat) /\ Len(<<1>>) = 1 /\ <<1>>[1] = 1
    BY DEF Miner!Init
  <2>2. \A b \in 1..Len(m_path) : b = 1
    BY <2>1
  <2>3. \A b \in 1..Len(m_path) : \A i \in 1..Len(m_path[b]) : Len(m_path[m_path[b][i]]) = i
    BY <2>1, <2>2
  <2> QED BY <2>1, <2>2, <2>3 DEF PathsOK, Path
<1>2. JobsOK
  BY DEF Miner!Init, JobsOK, Job, Miner!Idle, Phases
<1>3. TipsOK
  BY DEF Miner!Init, TipsOK
<1>4. Alone
  <2>1. Len(m_path) = 1 /\ Len(m_path[1]) = 1 /\ m_path[1][1] = 1
    BY DEF Miner!Init
  <2>2. {1} = 1..1 /\ \A b \in 1..1 : b = 1
    OBVIOUS
  <2>3. \A b \in 1..Len(m_path) : Len(m_path[b]) = b /\ \A i \in 1..b : m_path[b][i] = i
    BY <2>1, <2>2
  <2> QED BY <2>1, <2>2, <2>3 DEF Miner!Init, Alone, OneChain, Miner!Idle
<1> QED BY <1>1, <1>2, <1>3, <1>4 DEF MiningInv

\* A path among the first n blocks is one among more.
LEMMA PathGrows ==
  ASSUME NEW n \in Nat, NEW s, Path(s, n)
  PROVE  Path(s, n + 1)
<1>1. s \in Seq(Nat) /\ Len(s) >= 1 /\ s[1] = 1 /\ \A i \in 1..Len(s) : s[i] \in 1..n
  BY DEF Path
<1>2. \A k \in 1..n : k \in 1..(n + 1)
  OBVIOUS
<1>3. \A i \in 1..Len(s) : s[i] \in 1..(n + 1)
  BY ONLY <1>1, <1>2
<1> QED BY ONLY <1>1, <1>3 DEF Path

\* new is the path s with the block n + 1 behind it.
Extends(new, s, n) ==
  /\ Path(new, n + 1)
  /\ Len(new) = Len(s) + 1 /\ new[Len(s) + 1] = n + 1
  /\ \A i \in 1..Len(s) : new[i] = s[i]
  /\ \A i \in 1..Len(new) : i \in 1..Len(s) \/ i = Len(s) + 1

\* A new block behind a path is the last of a longer path.
LEMMA PathExtended ==
  ASSUME NEW n \in Nat, NEW s, Path(s, n)
  PROVE  Extends(Append(s, n + 1), s, n)
<1> DEFINE new == Append(s, n + 1)
<1>1. s \in Seq(Nat) /\ Len(s) \in Nat /\ Len(s) >= 1 /\ s[1] = 1
  BY DEF Path
<1>2. /\ new \in Seq(Nat) /\ Len(new) = Len(s) + 1 /\ new[Len(s) + 1] = n + 1
      /\ \A i \in 1..Len(s) : new[i] = s[i]
  BY <1>1
<1>3. \A i \in 1..Len(s) : s[i] \in 1..n
  BY ONLY Path(s, n) DEF Path
<1> HIDE DEF new
<1> DEFINE k == Len(s)
<1>4. /\ new[1] = 1 /\ Len(new) >= 1
  <2>1. 1 \in 1..k
    BY ONLY <1>1
  <2> QED BY ONLY <1>1, <1>2, <2>1
<1>5. \A i \in 1..Len(new) : i \in 1..k \/ i = k + 1
  BY ONLY <1>1, <1>2
<1>6. \A j \in 1..n : j \in 1..(n + 1)
  BY ONLY n \in Nat
<1>7. n + 1 \in 1..(n + 1)
  BY ONLY n \in Nat
<1> HIDE DEF k
<1>8. \A i \in 1..Len(new) : new[i] \in 1..(n + 1)
  <2> SUFFICES ASSUME NEW i \in 1..Len(new) PROVE new[i] \in 1..(n + 1)
    OBVIOUS
  <2>1. CASE i = k + 1
    BY ONLY <1>2, <1>7, <2>1 DEF k
  <2>2. CASE i \in 1..k
    <3>1. new[i] = s[i] /\ s[i] \in 1..n
      BY ONLY <1>2, <1>3, <2>2 DEF k
    <3> QED BY ONLY <1>6, <3>1
  <2>3. i \in 1..k \/ i = k + 1
    BY ONLY <1>5, i \in 1..Len(new)
  <2> QED BY ONLY <2>1, <2>2, <2>3
<1>9. Path(new, n + 1)
  BY ONLY <1>2, <1>4, <1>8 DEF Path
<1>10. Extends(new, s, n)
  BY ONLY <1>1, <1>2, <1>5, <1>9 DEF k, Extends
<1> QED BY <1>10 DEF new

\* The node stores a block behind its parent's path; a child of the last block
\* of a single chain becomes the tip (submit_block).
LEMMA BlockAdded ==
  ASSUME PathsOK, TipsOK, NEW parent \in 1..Len(m_path), Miner!AddBlock(parent)
  PROVE  /\ PathsOK' /\ Len(m_path') = Len(m_path) + 1
         /\ m_best' \in {m_best, Len(m_path')}
         /\ OneChain(m_path) /\ m_best = Len(m_path) /\ parent = Len(m_path)
              => OneChain(m_path') /\ m_best' = Len(m_path')
<1> DEFINE n == Len(m_path)
           new == Append(m_path[parent], n + 1)
<1>1. /\ n \in Nat /\ n >= 1 /\ m_path \in Seq(Seq(Nat))
      /\ m_best \in 1..n /\ parent \in 1..n
      /\ \A b \in 1..n : Path(m_path[b], n) /\ m_path[b][Len(m_path[b])] = b
      /\ \A b \in 1..n : \A i \in 1..Len(m_path[b]) : Len(m_path[m_path[b][i]]) = i
  BY DEF PathsOK, TipsOK
<1>2. m_path' = Append(m_path, new)
  BY DEF Miner!AddBlock
<1>3. m_best' = IF Len(m_path[parent]) + 1 > Len(m_path[m_best]) THEN n + 1 ELSE m_best
  BY DEF Miner!AddBlock, Miner!Height
<1>4. /\ Len(m_path[parent]) \in Nat
      /\ \A i \in 1..Len(m_path[parent]) : m_path[parent][i] \in 1..n
  BY <1>1 DEF Path
<1>5. /\ Path(new, n + 1)
      /\ Len(new) = Len(m_path[parent]) + 1 /\ new[Len(new)] = n + 1
      /\ \A i \in 1..Len(m_path[parent]) : new[i] = m_path[parent][i]
      /\ \A i \in 1..Len(new) : i \in 1..Len(m_path[parent]) \/ i = Len(m_path[parent]) + 1
  <2>1. Path(m_path[parent], n)
    BY <1>1
  <2>2. Extends(new, m_path[parent], n)
    BY <1>1, <2>1, PathExtended
  <2> HIDE DEF n, new
  <2> QED BY ONLY <2>2 DEF Extends
<1> HIDE DEF new
<1>6. new \in Seq(Nat)
  BY ONLY <1>5 DEF Path
<1>7. /\ m_path' \in Seq(Seq(Nat)) /\ Len(m_path') = n + 1 /\ m_path'[n + 1] = new
      /\ \A b \in 1..n : m_path'[b] = m_path[b]
  BY ONLY <1>1, <1>2, <1>6 DEF n
<1> HIDE DEF n
<1>8. PathsOK'
  <2>1. \A b \in 1..(n + 1) : b = n + 1 \/ b \in 1..n
    BY ONLY <1>1
  <2>2. ASSUME NEW i \in 1..Len(new)  PROVE Len(m_path'[new[i]]) = i
    <3>1. CASE i = Len(m_path[parent]) + 1
      <4>1. new[i] = n + 1
        BY ONLY <1>5, <3>1
      <4> QED BY ONLY <1>5, <1>7, <3>1, <4>1
    <3>2. CASE i \in 1..Len(m_path[parent])
      <4>1. new[i] = m_path[parent][i] /\ m_path[parent][i] \in 1..n
        BY ONLY <1>4, <1>5, <3>2
      <4>2. Len(m_path[m_path[parent][i]]) = i
        BY ONLY <1>1, <3>2
      <4> QED BY ONLY <1>7, <4>1, <4>2
    <3>3. i \in 1..Len(m_path[parent]) \/ i = Len(m_path[parent]) + 1
      BY ONLY <1>5, i \in 1..Len(new)
    <3> QED BY ONLY <3>1, <3>2, <3>3
  <2>3. ASSUME NEW b \in 1..n
        PROVE  /\ Path(m_path[b], n + 1) /\ m_path[b][Len(m_path[b])] = b
               /\ \A i \in 1..Len(m_path[b]) : Len(m_path'[m_path[b][i]]) = i
    <3>1. Path(m_path[b], n) /\ m_path[b][Len(m_path[b])] = b
      BY ONLY <1>1, b \in 1..n
    <3>2. Path(m_path[b], n + 1)
      BY ONLY <1>1, <3>1, PathGrows
    <3>3. \A i \in 1..Len(m_path[b]) : m_path[b][i] \in 1..n
      BY ONLY <3>1 DEF Path
    <3>4. \A i \in 1..Len(m_path[b]) : Len(m_path[m_path[b][i]]) = i
      BY ONLY <1>1, b \in 1..n
    <3>5. \A i \in 1..Len(m_path[b]) : Len(m_path'[m_path[b][i]]) = i
      BY ONLY <1>7, <3>3, <3>4
    <3> QED BY ONLY <3>1, <3>2, <3>5
  <2>4. /\ m_path' \in Seq(Seq(Nat)) /\ Len(m_path') >= 1
    BY ONLY <1>1, <1>7
  <2>5. ASSUME NEW b \in 1..(n + 1)
        PROVE  /\ Path(m_path'[b], n + 1)
               /\ m_path'[b][Len(m_path'[b])] = b
               /\ \A i \in 1..Len(m_path'[b]) : Len(m_path'[m_path'[b][i]]) = i
    <3>1. CASE b = n + 1
      BY ONLY <1>5, <1>7, <2>2, <3>1
    <3>2. CASE b \in 1..n
      <4>1. m_path'[b] = m_path[b]
        BY ONLY <1>7, <3>2
      <4> QED BY ONLY <2>3, <3>2, <4>1
    <3> QED BY ONLY <2>1, <3>1, <3>2, b \in 1..(n + 1)
  <2> QED BY ONLY <1>7, <2>4, <2>5 DEF PathsOK
<1>9. ASSUME OneChain(m_path), m_best = n, parent = n
      PROVE  OneChain(m_path') /\ m_best' = n + 1
  <2>1. m_best' = n + 1
    BY <1>1, <1>3, <1>9
  <2>2. Len(m_path[n]) = n /\ \A i \in 1..n : m_path[n][i] = i
    BY <1>1, <1>9 DEF OneChain, n
  <2>3. ASSUME NEW b \in 1..(n + 1)
        PROVE  Len(m_path'[b]) = b /\ \A i \in 1..b : m_path'[b][i] = i
    <3>1. CASE b = n + 1
      <4>1. Len(new) = n + 1 /\ \A i \in 1..n : new[i] = i
        BY <1>5, <1>9, <2>2
      <4>2. \A i \in 1..(n + 1) : i \in 1..n \/ i = n + 1
        BY <1>1
      <4>3. \A i \in 1..(n + 1) : new[i] = i
        BY <1>5, <4>1, <4>2
      <4> QED BY <1>7, <3>1, <4>1, <4>3
    <3>2. CASE b # n + 1
      <4>1. b \in 1..n
        BY <1>1, <3>2
      <4>2. Len(m_path[b]) = b /\ \A i \in 1..b : m_path[b][i] = i
        BY <1>9, <4>1 DEF OneChain, n
      <4> QED BY <1>7, <4>1, <4>2
    <3> QED BY <3>1, <3>2
  <2> QED BY <1>7, <2>1, <2>3 DEF OneChain
<1> QED BY <1>3, <1>7, <1>8, <1>9 DEF n

\* The validator's next tip is a block of the node, the parent or a child of the
\* last; on a single chain it is the child.
LEMMA TipMoved ==
  ASSUME PathsOK, TipsOK, Miner!ValidatorMoves
  PROVE  /\ m_tip' \in 1..Len(m_path) /\ m_info' \subseteq 1..Len(m_path)
         /\ OneChain(m_path) /\ m_best = Len(m_path) /\ m_info = 1..m_tip
              => m_tip < Len(m_path) /\ m_tip' = m_tip + 1 /\ m_info' = 1..m_tip'
<1> DEFINE n == Len(m_path)
           s == m_path[m_tip]
           t == m_path[m_best]
<1>1. n \in Nat /\ m_tip \in 1..n /\ m_best \in 1..n /\ m_info \subseteq 1..n
  BY DEF PathsOK, TipsOK
<1>2. /\ Path(s, n) /\ s[Len(s)] = m_tip
      /\ Path(t, n) /\ t[Len(t)] = m_best
  BY <1>1 DEF PathsOK
<1>3. /\ m_tip # m_best
      /\ Miner!OnChain(m_tip, m_best) => m_tip' = t[Len(s) + 1] /\ m_info' = m_info \cup {m_tip'}
      /\ ~Miner!OnChain(m_tip, m_best) => m_tip' = s[Len(s) - 1] /\ m_info' = m_info
  BY DEF Miner!ValidatorMoves, Miner!Height
<1>4. /\ s \in Seq(Nat) /\ Len(s) \in Nat /\ Len(s) >= 1 /\ s[1] = 1
      /\ t \in Seq(Nat) /\ Len(t) \in Nat /\ Len(t) >= 1 /\ t[1] = 1
      /\ \A i \in 1..Len(s) : s[i] \in 1..n
      /\ \A i \in 1..Len(t) : t[i] \in 1..n
  BY <1>2 DEF Path
<1>5. \A i \in 1..Len(t) : t[i] = m_tip => Len(s) = i
  BY <1>1 DEF PathsOK
<1>6. Miner!OnChain(m_tip, m_best) <=> \E i \in 1..Len(t) : t[i] = m_tip
  <2>1. DOMAIN t = 1..Len(t)
    BY <1>4
  <2> QED BY <2>1, Zenon DEF Miner!OnChain
<1> HIDE DEF n, s, t
<1>7. CASE Miner!OnChain(m_tip, m_best)
  <2>1. Len(s) + 1 \in 1..Len(t)
    <3>1. PICK i \in 1..Len(t) : t[i] = m_tip
      BY <1>6, <1>7
    <3>2. Len(s) = i /\ i # Len(t)
      BY <1>2, <1>3, <1>5, <3>1
    <3> QED BY <1>4, <3>2
  <2>2. m_tip' \in 1..n /\ m_info' \subseteq 1..n
    <3>1. t[Len(s) + 1] \in 1..n
      BY <1>4, <2>1
    <3> QED BY <1>1, <1>3, <1>7, <3>1
  <2>3. ASSUME OneChain(m_path), m_best = n, m_info = 1..m_tip
        PROVE  m_tip < n /\ m_tip' = m_tip + 1 /\ m_info' = 1..m_tip'
    <3>1. Len(s) = m_tip /\ Len(t) = m_best /\ \A i \in 1..m_best : t[i] = i
      BY <1>1, <2>3 DEF OneChain, s, t, n
    <3>2. m_tip < n /\ m_tip' = m_tip + 1
      BY <1>1, <1>3, <1>7, <2>1, <2>3, <3>1
    <3>3. 1..(m_tip + 1) = (1..m_tip) \cup {m_tip + 1}
      BY <1>1
    <3> QED BY <1>3, <1>7, <2>3, <3>2, <3>3
  <2> QED BY <2>2, <2>3 DEF n
<1>8. CASE ~Miner!OnChain(m_tip, m_best)
  <2>1. Len(s) - 1 \in 1..Len(s)
    <3>1. 1 \in 1..Len(t) /\ t[1] # m_tip
      BY <1>4, <1>6, <1>8
    <3> QED BY <1>2, <1>4, <3>1
  <2>2. m_tip' \in 1..n /\ m_info' \subseteq 1..n
    <3>1. s[Len(s) - 1] \in 1..n
      BY <1>4, <2>1
    <3> QED BY <1>1, <1>3, <1>8, <3>1
  <2>3. ~(OneChain(m_path) /\ m_best = n)
    BY <1>1, <1>6, <1>8 DEF OneChain, t, n
  <2> QED BY <2>2, <2>3 DEF n
<1> QED BY <1>7, <1>8

\* While one caller has the permit all others are idle.
LEMMA OthersIdle ==
  ASSUME JobsOK, NEW c \in Caller, m_job[c].pc # "idle"
  PROVE  \A d \in Caller : d # c => m_job[d].pc = "idle"
BY DEF JobsOK

\* A request that goes on keeps the permit.
LEMMA JobGoesOn ==
  ASSUME PathsOK, JobsOK, NEW c \in Caller, m_job[c].pc # "idle", NEW r \in Job,
         r.pc # "idle", r.left >= 1, m_job' = [m_job EXCEPT ![c] = r], m_permit' = m_permit,
         Len(m_path') \in {Len(m_path), Len(m_path) + 1},
         r.pc \in {"submit", "await"} => r.block \in 1..Len(m_path')
  PROVE  /\ JobsOK' /\ m_job'[c] = r
         /\ \A d \in Caller : d # c => m_job'[d] = m_job[d] /\ m_job[d].pc = "idle"
<1>1. /\ m_job \in [Caller -> Job] /\ m_job' \in [Caller -> Job] /\ m_job'[c] = r
      /\ \A d \in Caller : d # c => m_job'[d] = m_job[d]
  BY DEF JobsOK, Job
<1>2. m_permit' = {d \in Caller : m_job'[d].pc # "idle"}
  BY <1>1 DEF JobsOK
<1>3. Len(m_path) \in Nat
  BY DEF PathsOK
<1>4. \A d \in Caller : d # c => m_job[d].pc = "idle"
  BY OthersIdle
<1>5. \A d \in Caller : m_job'[d].pc \in {"submit", "await"} => m_job'[d].block \in 1..Len(m_path')
  BY <1>1, <1>4
<1>6. /\ \A d, e \in m_permit' : d = e
      /\ \A d \in Caller : m_job'[d].pc # "idle" => m_job'[d].left >= 1
  BY <1>1, <1>4 DEF JobsOK
<1> QED BY <1>1, <1>2, <1>4, <1>5, <1>6 DEF JobsOK, Job

\* A request that returns leaves all callers idle.
LEMMA JobReturns ==
  ASSUME JobsOK, NEW c \in Caller, m_job[c].pc # "idle", Miner!Return(c)
  PROVE  JobsOK' /\ \A d \in Caller : m_job'[d].pc = "idle"
<1>1. /\ m_job \in [Caller -> Job] /\ m_job' = [m_job EXCEPT ![c] = Miner!Idle]
      /\ m_permit' = m_permit \ {c} /\ m_permit = {d \in Caller : m_job[d].pc # "idle"}
  BY DEF JobsOK, Job, Miner!Return
<1>2. Miner!Idle \in Job /\ Miner!Idle.pc = "idle"
  BY DEF Miner!Idle, Job, Phases
<1>3. \A d \in Caller : d # c => m_job[d].pc = "idle"
  BY OthersIdle
<1>4. m_job' \in [Caller -> Job] /\ \A d \in Caller : m_job'[d].pc = "idle"
  BY <1>1, <1>2, <1>3
<1>5. m_permit' = {}
  BY <1>1, <1>3
<1> QED BY <1>4, <1>5 DEF JobsOK, Job

\* Blocks of others, the validator and the template server.
LEMMA OutsideKeepsMining ==
  ASSUME MiningInv, Miner!OtherBlock \/ Miner!ValidatorMoves \/ Miner!ServerMoves
  PROVE  MiningInv'
<1>1. /\ PathsOK /\ JobsOK /\ TipsOK /\ Len(m_path) \in Nat
      /\ m_others = 0 /\ m_lost = 0 => Alone
  BY DEF MiningInv, PathsOK
<1>2. CASE Miner!OtherBlock
  <2>1. PICK parent \in 1..Len(m_path) : Miner!AddBlock(parent)
    BY <1>1, <1>2 DEF Miner!OtherBlock, Miner!Blocks, PathsOK
  <2>2. /\ m_others' = m_others + 1 /\ m_job' = m_job /\ m_permit' = m_permit
        /\ m_tip' = m_tip /\ m_info' = m_info /\ m_served' = m_served
        /\ m_lost' = m_lost /\ m_rejected' = m_rejected
    BY <1>2 DEF Miner!OtherBlock, Miner!validator
  <2>3. PathsOK' /\ Len(m_path') = Len(m_path) + 1 /\ m_best' \in {m_best, Len(m_path')}
    BY <1>1, <2>1, BlockAdded
  <2>4. JobsOK'
    BY <1>1, <2>2, <2>3 DEF JobsOK
  <2>5. TipsOK' /\ m_others' # 0
    BY <1>1, <2>2, <2>3 DEF TipsOK
  <2> QED BY <2>3, <2>4, <2>5 DEF MiningInv
<1>3. CASE Miner!ValidatorMoves
  <2>1. /\ m_path' = m_path /\ m_best' = m_best /\ m_served' = m_served /\ m_job' = m_job
        /\ m_permit' = m_permit /\ m_others' = m_others /\ m_lost' = m_lost
        /\ m_rejected' = m_rejected
    BY <1>3 DEF Miner!ValidatorMoves, Miner!node, Miner!history
  <2>2. /\ m_tip' \in 1..Len(m_path) /\ m_info' \subseteq 1..Len(m_path)
        /\ OneChain(m_path) /\ m_best = Len(m_path) /\ m_info = 1..m_tip
             => m_tip < Len(m_path) /\ m_tip' = m_tip + 1 /\ m_info' = 1..m_tip'
    BY <1>1, <1>3, TipMoved
  <2>3. PathsOK' /\ JobsOK' /\ TipsOK'
    BY <1>1, <2>1, <2>2 DEF PathsOK, JobsOK, TipsOK
  <2>4. Alone => Alone'
    BY <1>1, <2>1, <2>2 DEF Alone
  <2> QED BY <1>1, <2>1, <2>3, <2>4 DEF MiningInv
<1>4. CASE Miner!ServerMoves
  <2>1. /\ m_path' = m_path /\ m_best' = m_best /\ m_served' = m_tip /\ m_job' = m_job
        /\ m_permit' = m_permit /\ m_others' = m_others /\ m_lost' = m_lost
        /\ m_rejected' = m_rejected /\ m_tip' = m_tip /\ m_info' = m_info
    BY <1>4 DEF Miner!ServerMoves, Miner!node, Miner!history, Miner!validator
  <2> QED BY <1>1, <2>1 DEF MiningInv, PathsOK, JobsOK, TipsOK, Alone
<1> QED BY <1>2, <1>3, <1>4

\* The steps of a request before and after the submission of its block.
LEMMA RequestKeepsMining ==
  ASSUME MiningInv, NEW c \in Caller,
         \/ Miner!Request(c) \/ Miner!ReadTip(c) \/ Miner!FetchTemplate(c)
         \/ Miner!FinalizeBlock(c) \/ Miner!RequestFails(c)
  PROVE  MiningInv'
<1>1. /\ PathsOK /\ JobsOK /\ TipsOK /\ Len(m_path) \in Nat
      /\ m_others = 0 /\ m_lost = 0 => Alone
  BY DEF MiningInv, PathsOK
<1>2. /\ m_path' = m_path /\ m_best' = m_best /\ m_served' = m_served /\ m_tip' = m_tip
      /\ m_info' = m_info /\ m_others' = m_others /\ m_lost' = m_lost
      /\ m_rejected' = m_rejected
  BY DEF Miner!Request, Miner!ReadTip, Miner!FetchTemplate, Miner!FinalizeBlock,
         Miner!RequestFails, Miner!node, Miner!history, Miner!validator
<1>3. PathsOK' /\ TipsOK'
  BY <1>1, <1>2 DEF PathsOK, TipsOK
<1>4. m_job \in [Caller -> Job] /\ m_job[c].pc # "await"
  BY <1>1 DEF JobsOK, Miner!Request, Miner!ReadTip, Miner!FetchTemplate, Miner!FinalizeBlock,
              Miner!RequestFails
<1>5. ASSUME m_job[c].pc # "idle", Miner!Return(c)
      PROVE  MiningInv'
  <2>1. JobsOK' /\ \A d \in Caller : m_job'[d].pc = "idle"
    BY <1>1, <1>5, JobReturns
  <2>2. Alone => Alone'
    <3>1. \A d \in Caller : m_job[d].pc # "await"
      BY <1>1, <1>4, <1>5, OthersIdle
    <3> QED BY <1>2, <2>1, <3>1 DEF Alone
  <2> QED BY <1>1, <1>2, <1>3, <2>1, <2>2 DEF MiningInv
<1>6. ASSUME NEW r \in Job, m_job[c].pc # "idle", r.pc \in {"template", "finalize", "submit"},
             r.left = m_job[c].left,
             m_job' = [m_job EXCEPT ![c] = r], m_permit' = m_permit,
             r.pc = "submit" => r.block = m_tip
      PROVE  MiningInv'
  <2>1. /\ JobsOK' /\ m_job'[c] = r
        /\ \A d \in Caller : d # c => m_job'[d] = m_job[d] /\ m_job[d].pc = "idle"
    <3>1. r.left >= 1
      BY <1>1, <1>6 DEF JobsOK
    <3> QED BY <1>1, <1>2, <1>6, <3>1, JobGoesOn DEF TipsOK
  <2>2. Alone => Alone'
    <3>1. \A d \in Caller : m_job[d].pc # "await"
      BY <1>4, <2>1
    <3>2. \A d \in Caller : m_job'[d].pc = "submit" => m_job'[d].block = m_tip
      BY <1>6, <2>1
    <3>3. \A d \in Caller : m_job'[d].pc # "await"
      BY <1>6, <2>1
    <3> QED BY <1>2, <3>1, <3>2, <3>3 DEF Alone
  <2> QED BY <1>1, <1>2, <1>3, <2>1, <2>2 DEF MiningInv
<1>7. CASE Miner!Request(c)
  <2>1. PICK k \in 1..MaxCount : m_job' = [m_job EXCEPT ![c].pc = "generate", ![c].left = k]
    BY <1>7 DEF Miner!Request
  <2>2. m_permit = {} /\ m_permit' = {c}
    BY <1>7 DEF Miner!Request, Miner!PermitFree
  <2>3. \A d \in Caller : m_job[d].pc = "idle"
    BY <1>1, <2>2 DEF JobsOK
  <2>4. k \in Nat /\ k >= 1
    BY BesidesAssumption DEF Miner!MiningAssumption
  <2>5. /\ m_job' \in [Caller -> Job] /\ m_job'[c].pc = "generate" /\ m_job'[c].left = k
        /\ \A d \in Caller : d # c => m_job'[d] = m_job[d]
    BY <1>4, <2>1, <2>4 DEF Job, Phases
  <2>6. JobsOK'
    BY <2>2, <2>3, <2>4, <2>5 DEF JobsOK
  <2>7. Alone => Alone'
    BY <1>2, <2>3, <2>5 DEF Alone
  <2> QED BY <1>1, <1>2, <1>3, <2>6, <2>7 DEF MiningInv
<1>8. CASE Miner!ReadTip(c)
  <2> DEFINE r == [m_job[c] EXCEPT !.pc = "template", !.tip = m_tip]
  <2>1. m_job' = [m_job EXCEPT ![c] = r] /\ m_permit' = m_permit /\ m_job[c].pc # "idle"
    BY <1>4, <1>8 DEF Miner!ReadTip, Job
  <2>2. r \in Job /\ r.pc = "template" /\ r.left = m_job[c].left
    <3>1. m_tip \in Nat
      BY <1>1 DEF TipsOK
    <3> QED BY <1>4, <3>1 DEF Job, Phases
  <2> HIDE DEF r
  <2> QED BY <1>6, <2>1, <2>2
<1>9. CASE Miner!FetchTemplate(c)
  <2>1. CASE Miner!Return(c)
    BY <1>5, <1>9, <2>1 DEF Miner!FetchTemplate
  <2>2. CASE m_job' = [m_job EXCEPT ![c].pc = "finalize"] /\ m_permit' = m_permit
    <3> DEFINE r == [m_job[c] EXCEPT !.pc = "finalize"]
    <3>1. m_job' = [m_job EXCEPT ![c] = r] /\ m_job[c].pc # "idle"
      BY <1>4, <1>9, <2>2 DEF Miner!FetchTemplate, Job
    <3>2. r \in Job /\ r.pc = "finalize" /\ r.left = m_job[c].left
      BY <1>4 DEF Job, Phases
    <3> HIDE DEF r
    <3> QED BY <1>6, <2>2, <3>1, <3>2
  <2> QED BY <1>9, <2>1, <2>2 DEF Miner!FetchTemplate
<1>10. CASE Miner!FinalizeBlock(c)
  <2> DEFINE r == [m_job[c] EXCEPT !.pc = "submit", !.block = m_tip]
  <2>1. m_job' = [m_job EXCEPT ![c] = r] /\ m_permit' = m_permit /\ m_job[c].pc # "idle"
    BY <1>4, <1>10 DEF Miner!FinalizeBlock, Job
  <2>2. r \in Job /\ r.pc = "submit" /\ r.block = m_tip /\ r.left = m_job[c].left
    <3>1. m_tip \in Nat
      BY <1>1 DEF TipsOK
    <3> QED BY <1>4, <3>1 DEF Job, Phases
  <2> HIDE DEF r
  <2> QED BY <1>6, <2>1, <2>2
<1>11. CASE Miner!RequestFails(c)
  BY <1>5, <1>11 DEF Miner!RequestFails
<1> QED BY <1>7, <1>8, <1>9, <1>10, <1>11

\* The submission of a block, and the wait for the validator to connect it.
LEMMA SubmitKeepsMining ==
  ASSUME MiningInv, NEW c \in Caller,
         \/ Miner!SubmitBlock(c) \/ Miner!SubmitAnswerLost(c)
         \/ Miner!PollInfo(c) \/ Miner!PollTimesOut(c)
  PROVE  MiningInv'
<1>1. /\ PathsOK /\ JobsOK /\ TipsOK /\ Len(m_path) \in Nat
      /\ m_others = 0 /\ m_lost = 0 => Alone
  BY DEF MiningInv, PathsOK
<1>2. m_job \in [Caller -> Job] /\ m_job[c].pc \in {"submit", "await"}
  BY <1>1 DEF JobsOK, Miner!SubmitBlock, Miner!SubmitAnswerLost, Miner!PollInfo,
              Miner!PollTimesOut
<1>3. \A d \in Caller : d # c => m_job[d].pc = "idle"
  BY <1>1, <1>2, OthersIdle
<1>4. m_job[c].block \in 1..Len(m_path)
  BY <1>1, <1>2 DEF JobsOK
<1>5. ASSUME Miner!AddBlock(m_job[c].block)
      PROVE  /\ PathsOK' /\ Len(m_path') = Len(m_path) + 1
             /\ m_best' \in {m_best, Len(m_path')}
             /\ Alone => OneChain(m_path') /\ m_best' = Len(m_path')
  BY <1>1, <1>2, <1>4, <1>5, BlockAdded DEF Alone
<1>6. CASE Miner!SubmitBlock(c)
  <2>1. /\ Miner!AddBlock(m_job[c].block) /\ m_job[c].pc = "submit"
        /\ m_tip' = m_tip /\ m_info' = m_info /\ m_served' = m_served
        /\ m_others' = m_others /\ m_lost' = m_lost
    BY <1>6 DEF Miner!SubmitBlock, Miner!validator
  <2>2. /\ PathsOK' /\ Len(m_path') = Len(m_path) + 1
        /\ m_best' \in {m_best, Len(m_path')}
        /\ Alone => OneChain(m_path') /\ m_best' = Len(m_path')
    BY <1>5, <2>1
  <2>3. CASE m_best' # m_best
    <3> DEFINE r == [m_job[c] EXCEPT !.pc = "await", !.block = Len(m_path')]
    <3>1. m_job' = [m_job EXCEPT ![c] = r] /\ m_permit' = m_permit /\ m_rejected' = m_rejected
      BY <1>2, <1>6, <2>3 DEF Miner!SubmitBlock, Job
    <3>2. Len(m_path') \in Nat
      BY <1>1, <2>2
    <3>3. r \in Job /\ r.pc = "await" /\ r.block = Len(m_path') /\ r.left = m_job[c].left
      BY <1>2, <3>2 DEF Job, Phases
    <3> HIDE DEF r
    <3>4. r.block \in 1..Len(m_path')
      BY <1>1, <2>2, <3>3
    <3>5. r.left >= 1
      BY <1>1, <1>2, <3>3 DEF JobsOK
    <3>6. /\ JobsOK' /\ m_job'[c] = r
          /\ \A d \in Caller : d # c => m_job'[d] = m_job[d] /\ m_job[d].pc = "idle"
      BY <1>1, <1>2, <2>2, <3>1, <3>3, <3>4, <3>5, JobGoesOn
    <3>7. TipsOK'
      BY <1>1, <2>1, <2>2, <3>1 DEF TipsOK
    <3>8. Alone => Alone'
      <4>1. m_job'[c].pc = "await" /\ m_job'[c].block = Len(m_path')
        BY <3>3, <3>6
      <4>2. \A d \in Caller : m_job'[d].pc \in {"submit", "await"} => m_job'[d].block = Len(m_path')
        BY <3>6, <4>1
      <4> QED BY <2>1, <2>2, <3>1, <4>1, <4>2 DEF Alone
    <3> QED BY <1>1, <2>1, <2>2, <3>6, <3>7, <3>8 DEF MiningInv
  <2>4. CASE m_best' = m_best
    <3>1. Miner!Return(c) /\ m_rejected' = m_rejected + 1
      BY <1>6, <2>4 DEF Miner!SubmitBlock
    <3>2. JobsOK'
      BY <1>1, <1>2, <3>1, JobReturns
    <3>3. TipsOK'
      BY <1>1, <2>1, <2>2, <3>1 DEF TipsOK
    <3>4. ~Alone
      BY <1>1, <2>2, <2>4 DEF Alone
    <3> QED BY <1>1, <2>1, <2>2, <3>2, <3>3, <3>4 DEF MiningInv
  <2> QED BY <2>3, <2>4
<1>7. CASE Miner!SubmitAnswerLost(c)
  <2>1. /\ Miner!AddBlock(m_job[c].block) /\ Miner!Return(c)
        /\ m_tip' = m_tip /\ m_info' = m_info /\ m_served' = m_served
        /\ m_others' = m_others /\ m_lost' = m_lost + 1 /\ m_rejected' = m_rejected
    BY <1>7 DEF Miner!SubmitAnswerLost, Miner!validator
  <2>2. /\ PathsOK' /\ Len(m_path') = Len(m_path) + 1
        /\ m_best' \in {m_best, Len(m_path')}
    BY <1>5, <2>1
  <2>3. JobsOK'
    BY <1>1, <1>2, <2>1, JobReturns
  <2>4. TipsOK' /\ m_lost' # 0
    BY <1>1, <2>1, <2>2 DEF TipsOK
  <2> QED BY <2>2, <2>3, <2>4 DEF MiningInv
<1>8. CASE Miner!PollInfo(c)
  <2>1. /\ m_path' = m_path /\ m_best' = m_best /\ m_served' = m_served /\ m_tip' = m_tip
        /\ m_info' = m_info /\ m_others' = m_others /\ m_lost' = m_lost
        /\ m_rejected' = m_rejected
        /\ m_job[c].pc = "await" /\ m_job[c].block \in m_info
    BY <1>8 DEF Miner!PollInfo, Miner!node, Miner!history, Miner!validator
  <2>2. PathsOK' /\ TipsOK'
    BY <1>1, <2>1 DEF PathsOK, TipsOK
  <2>3. Alone => m_tip = Len(m_path)
    BY <1>1, <2>1 DEF Alone, TipsOK
  <2>4. JobsOK' /\ \A d \in Caller : m_job'[d].pc \in {"idle", "generate"}
    <3>1. CASE Miner!Return(c)
      BY <1>1, <1>2, <3>1, JobReturns
    <3>2. CASE ~Miner!Return(c)
      <4> DEFINE r == [Miner!Idle EXCEPT !.pc = "generate", !.left = m_job[c].left - 1]
      <4>1. m_job' = [m_job EXCEPT ![c] = r] /\ m_permit' = m_permit /\ m_job[c].left # 1
        BY <1>8, <3>2 DEF Miner!PollInfo, Miner!Generated
      <4>2. r \in Job /\ r.pc = "generate" /\ r.left >= 1
        <5>1. m_job[c].left \in Nat /\ m_job[c].left >= 1
          BY <1>1, <1>2 DEF JobsOK, Job
        <5>2. m_job[c].left - 1 \in Nat /\ m_job[c].left - 1 >= 1
          BY <4>1, <5>1
        <5>3. Miner!Idle \in Job
          BY DEF Job, Phases, Miner!Idle
        <5> QED BY <5>2, <5>3 DEF Job, Phases
      <4> HIDE DEF r
      <4>3. JobsOK' /\ m_job'[c] = r
            /\ \A d \in Caller : d # c => m_job'[d] = m_job[d] /\ m_job[d].pc = "idle"
        BY <1>1, <1>2, <2>1, <4>1, <4>2, JobGoesOn
      <4> QED BY <4>2, <4>3
    <3> QED BY <3>1, <3>2
  <2>5. Alone => Alone'
    BY <2>1, <2>3, <2>4 DEF Alone
  <2> QED BY <1>1, <2>1, <2>2, <2>4, <2>5 DEF MiningInv
<1>9. CASE Miner!PollTimesOut(c)
  <2>1. /\ m_path' = m_path /\ m_best' = m_best /\ m_served' = m_served /\ m_tip' = m_tip
        /\ m_info' = m_info /\ m_others' = m_others /\ m_lost' = m_lost + 1
        /\ m_rejected' = m_rejected /\ Miner!Return(c)
    BY <1>9 DEF Miner!PollTimesOut, Miner!node, Miner!validator
  <2>2. JobsOK'
    BY <1>1, <1>2, <2>1, JobReturns
  <2>3. PathsOK' /\ TipsOK' /\ m_lost' # 0
    BY <1>1, <2>1 DEF PathsOK, TipsOK
  <2> QED BY <2>2, <2>3 DEF MiningInv
<1> QED BY <1>6, <1>7, <1>8, <1>9

\* MiningInv holds of every request and every miner.
LEMMA MiningInvariance == Miner!Spec => []MiningInv
<1>1. MiningInv /\ [Miner!Next]_(Miner!vars) => MiningInv'
  <2> SUFFICES ASSUME MiningInv, [Miner!Next]_(Miner!vars) PROVE MiningInv'
    OBVIOUS
  <2>1. CASE Miner!OtherBlock \/ Miner!ValidatorMoves \/ Miner!ServerMoves
    BY <2>1, OutsideKeepsMining
  <2>2. CASE \E c \in Caller : Miner!Request(c) \/ Miner!Step(c)
    BY <2>2, RequestKeepsMining, SubmitKeepsMining DEF Miner!Step
  <2>3. CASE UNCHANGED Miner!vars
    <3>1. UNCHANGED <<m_path, m_best, m_tip, m_info, m_served, m_permit, m_job, m_others,
                      m_lost, m_rejected>>
      BY <2>3 DEF Miner!vars, Miner!node, Miner!validator, Miner!history
    <3> QED BY <3>1 DEF MiningInv, PathsOK, JobsOK, TipsOK, Alone
  <2> QED BY <2>1, <2>2, <2>3 DEF Miner!Next
<1> QED BY <1>1, MiningStarts, PTL DEF Miner!Spec

\* A miner that is alone on the chain and has kept track of its blocks never has
\* one refused, for any number of callers, requests and blocks
\* (generate_to_address, generate_block, await_block_connection).
THEOREM SoleMinerAccepted == Miner!Spec => []SoleMinerNeverRejected
<1>1. MiningInv => SoleMinerNeverRejected
  <2> SUFFICES ASSUME MiningInv PROVE SoleMinerNeverRejected
    OBVIOUS
  <2>1. Miner!TypeOK
    <3>1. DOMAIN m_path = 1..Len(m_path)
      BY DEF MiningInv, PathsOK
    <3> QED BY <3>1 DEF MiningInv, JobsOK, TipsOK, Miner!TypeOK, Miner!Blocks
  <2>2. Miner!SoleMinerNeverRejected
    BY DEF MiningInv, Alone, Miner!SoleMinerNeverRejected
  <2> QED BY <2>1, <2>2 DEF SoleMinerNeverRejected
<1> QED BY <1>1, MiningInvariance, PTL


-----------------------------------------------------------------------------
(* Sending a transaction                                                   *)

Words == {"version", "verack", "inv", "tx", "ping", "pong"}
Script == <<"version", "verack", "inv", "tx", "ping">>
States == {"connecting", "AwaitingVersion", "AwaitingVerack", "AwaitingGetData", "Done",
           "Flushing", "ended"}

\* How many messages of the script have been written in each state.
Written(st) ==
  CASE st = "connecting" -> 0
    [] st = "AwaitingVersion" -> 1
    [] st = "AwaitingVerack" -> 2
    [] st = "AwaitingGetData" -> 3
    [] st = "Done" -> 4
    [] OTHER -> 5

Incoming == Sender!Unsolicited \cup {Sender!Message("ourpong")}

\* What was written to an address is the script up to some place.
Follows(s) ==
  /\ s \in Seq(Words) /\ Len(s) <= 5
  /\ \A i \in 1..Len(s) : s[i] = Script[i]

\* The state says how much was written to the address being tried; those before
\* it were given up before the transaction, those after it were not tried.
SentOK ==
  /\ s_peer \in 1..Addresses /\ s_state \in States
  /\ s_result \in {"none", "true", "false", "error"}
  /\ s_state = "ended" <=> s_result # "none"
  /\ s_sent \in [1..Addresses -> Seq(Words)]
  /\ \A a \in 1..Addresses : Follows(s_sent[a])
  /\ \A a \in 1..Addresses : a # s_peer => Len(s_sent[a]) <= 3
  /\ \A a \in 1..Addresses : a > s_peer => Len(s_sent[a]) = 0
  /\ s_state # "ended" => Len(s_sent[s_peer]) = Written(s_state)
  /\ s_state = "ended" => (s_result = "true" <=> Len(s_sent[s_peer]) >= 4)
  /\ s_result = "error" => s_peer = Addresses

\* The connection keeps order: a ping is behind the transaction, so that the
\* pong that answers it is too.
QueuesOK ==
  /\ s_out \in Seq(Words) /\ s_in \in Seq(Incoming)
  /\ \A j \in 1..Len(s_out) :
       s_out[j] = "ping" => s_peer \in s_processed \/ \E i \in 1..(j - 1) : s_out[i] = "tx"
  /\ \A i \in 1..Len(s_in) : s_in[i].type = "ourpong" => s_peer \in s_processed
  /\ s_state \in {"Done", "Flushing"} =>
       s_peer \in s_processed \/ \E i \in 1..Len(s_out) : s_out[i] = "tx"
  /\ s_confirmed \subseteq s_processed

SendInv == SentOK /\ QueuesOK /\ s_open \in BOOLEAN

\* At the start the first address is about to be tried, and nothing was written.
LEMMA SendStarts == Sender!Init => SendInv
<1> SUFFICES ASSUME Sender!Init PROVE SendInv
  OBVIOUS
<1>1. Addresses \in Nat \ {0}
  BY BesidesAssumption DEF Sender!AddressesAssumption
<1>2. \A a \in 1..Addresses : s_sent[a] = <<>>
  BY DEF Sender!Init, Sender!socket_addrs
<1>3. s_sent \in [1..Addresses -> Seq(Words)]
  BY DEF Sender!Init, Sender!socket_addrs
<1>4. SentOK
  BY <1>1, <1>2, <1>3 DEF Sender!Init, SentOK, Follows, States, Written
<1>5. QueuesOK
  BY DEF Sender!Init, QueuesOK
<1>6. s_open \in BOOLEAN
  BY Zenon DEF Sender!Init
<1> QED BY <1>4, <1>5, <1>6 DEF SendInv

\* The transaction is the fourth message of the script and the ping the fifth.
LEMMA ScriptAt ==
  ASSUME NEW k \in 0..4
  PROVE  /\ Script[k + 1] \in Words /\ Script[k + 1] # "pong"
         /\ Script[k + 1] = "ping" <=> k = 4
         /\ Script[k + 1] = "tx" <=> k = 3
<1>1. k = 0 \/ k = 1 \/ k = 2 \/ k = 3 \/ k = 4
  OBVIOUS
<1> QED BY <1>1 DEF Script, Words

\* Writing the next message of the script goes one further in it.
LEMMA ScriptGrows ==
  ASSUME SentOK, NEW m \in Words, m # "pong", Sender!Write(m),
         Len(s_sent[s_peer]) < 5, m = Script[Len(s_sent[s_peer]) + 1]
  PROVE  /\ s_sent' \in [1..Addresses -> Seq(Words)]
         /\ \A a \in 1..Addresses : Follows(s_sent'[a])
         /\ \A a \in 1..Addresses : a # s_peer => s_sent'[a] = s_sent[a]
         /\ Len(s_sent'[s_peer]) = Len(s_sent[s_peer]) + 1
<1> DEFINE s == s_sent[s_peer]
<1>1. s_sent' = [s_sent EXCEPT ![s_peer] = Append(s, m)]
  BY DEF Sender!Write
<1>2. /\ s_peer \in 1..Addresses /\ s_sent \in [1..Addresses -> Seq(Words)]
      /\ \A a \in 1..Addresses : Follows(s_sent[a])
  BY DEF SentOK
<1>3. s \in Seq(Words) /\ Len(s) \in Nat /\ \A i \in 1..Len(s) : s[i] = Script[i]
  BY <1>2 DEF Follows
<1>4. /\ Append(s, m) \in Seq(Words) /\ Len(Append(s, m)) = Len(s) + 1
      /\ Append(s, m)[Len(s) + 1] = m
      /\ \A i \in 1..Len(s) : Append(s, m)[i] = s[i]
  BY <1>3
<1>5. s_sent'[s_peer] = Append(s, m) /\ \A a \in 1..Addresses : a # s_peer => s_sent'[a] = s_sent[a]
  BY <1>1, <1>2
<1>6. s_sent' \in [1..Addresses -> Seq(Words)]
  BY <1>1, <1>2, <1>4
<1> HIDE DEF s
<1>7. Follows(Append(s, m))
  <2>1. ASSUME NEW i \in 1..Len(Append(s, m))  PROVE Append(s, m)[i] = Script[i]
    <3>1. i \in 1..Len(s) \/ i = Len(s) + 1
      BY <1>3, <1>4
    <3> QED BY <1>3, <1>4, <3>1 DEF s
  <2> QED BY <1>3, <1>4, <2>1 DEF Follows, s
<1> QED BY <1>2, <1>4, <1>5, <1>6, <1>7 DEF s

\* A message that is written comes last; a ping is written behind the
\* transaction.
LEMMA QueueGrows ==
  ASSUME QueuesOK, NEW m \in Words, Sender!Write(m),
         m = "ping" => s_peer \in s_processed \/ \E i \in 1..Len(s_out) : s_out[i] = "tx"
  PROVE  /\ s_out' \in Seq(Words)
         /\ \A j \in 1..Len(s_out') :
              s_out'[j] = "ping" => s_peer \in s_processed \/ \E i \in 1..(j - 1) : s_out'[i] = "tx"
         /\ (\E i \in 1..Len(s_out) : s_out[i] = "tx") => \E i \in 1..Len(s_out') : s_out'[i] = "tx"
         /\ m = "tx" => \E i \in 1..Len(s_out') : s_out'[i] = "tx"
<1>1. s_out \in Seq(Words) /\ Len(s_out) \in Nat /\ s_out' = Append(s_out, m)
  BY DEF QueuesOK, Sender!Write
<1>2. /\ s_out' \in Seq(Words) /\ Len(s_out') = Len(s_out) + 1
      /\ s_out'[Len(s_out) + 1] = m
      /\ \A i \in 1..Len(s_out) : s_out'[i] = s_out[i]
  BY <1>1
<1>3. \A j \in 1..Len(s_out) :
        s_out[j] = "ping" => s_peer \in s_processed \/ \E i \in 1..(j - 1) : s_out[i] = "tx"
  BY DEF QueuesOK
<1>4. ASSUME NEW j \in 1..Len(s_out'), s_out'[j] = "ping", s_peer \notin s_processed
      PROVE  \E i \in 1..(j - 1) : s_out'[i] = "tx"
  <2>1. CASE j \in 1..Len(s_out)
    <3>1. PICK i \in 1..(j - 1) : s_out[i] = "tx"
      BY <1>2, <1>3, <1>4, <2>1
    <3>2. i \in 1..Len(s_out)
      BY <1>1, <2>1
    <3> QED BY <1>2, <3>1, <3>2
  <2>2. CASE j = Len(s_out) + 1
    <3>1. PICK i \in 1..Len(s_out) : s_out[i] = "tx"
      BY <1>2, <1>4, <2>2
    <3>2. i \in 1..(j - 1)
      BY <1>1, <2>2
    <3> QED BY <1>2, <3>1, <3>2
  <2> QED BY <1>1, <1>2, <2>1, <2>2
<1>5. 1..Len(s_out) \subseteq 1..Len(s_out') /\ Len(s_out) + 1 \in 1..Len(s_out')
  BY <1>1, <1>2
<1> QED BY <1>2, <1>4, <1>5

\* What is left after reading a message was under way before.
LEMMA QueueShrinks ==
  ASSUME NEW S, NEW q \in Seq(S), q # <<>>
  PROVE  /\ Head(q) \in S /\ Head(q) = q[1] /\ 1 \in 1..Len(q)
         /\ Tail(q) \in Seq(S) /\ Len(Tail(q)) = Len(q) - 1
         /\ \A i \in 1..Len(Tail(q)) : i + 1 \in 1..Len(q) /\ Tail(q)[i] = q[i + 1]
         /\ Len(q) \in Nat
  OBVIOUS

\* The pongs still to be read are not changed by reading something else.
LEMMA ReadKeepsOrder ==
  ASSUME QueuesOK, s_in' = s_in \/ (s_in # <<>> /\ s_in' = Tail(s_in))
  PROVE  /\ s_in' \in Seq(Incoming)
         /\ \A i \in 1..Len(s_in') : s_in'[i].type = "ourpong" => s_peer \in s_processed
<1>1. /\ s_in \in Seq(Incoming)
      /\ \A i \in 1..Len(s_in) : s_in[i].type = "ourpong" => s_peer \in s_processed
  BY DEF QueuesOK
<1>2. CASE s_in # <<>> /\ s_in' = Tail(s_in)
  <2>1. /\ s_in' \in Seq(Incoming)
        /\ \A i \in 1..Len(s_in') : i + 1 \in 1..Len(s_in) /\ s_in'[i] = s_in[i + 1]
    BY <1>1, <1>2, QueueShrinks
  <2> QED BY <1>1, <2>1
<1> QED BY <1>1, <1>2

\* A call that ends closes the connection, and says true exactly when the
\* transaction was written to the address (send_to_first_reachable).
LEMMA ReturnKeepsSending ==
  ASSUME SendInv, NEW res \in {"true", "false", "error"}, Sender!Return(res),
         res = "true" <=> Len(s_sent[s_peer]) >= 4,
         res = "error" => s_peer = Addresses
  PROVE  SendInv'
<1> USE DEF Sender!Return, Sender!history
<1>1. SentOK'
  BY DEF SendInv, SentOK, States
<1>2. QueuesOK'
  BY DEF SendInv, QueuesOK
<1>3. (s_open \in BOOLEAN)'
  BY Zenon
<1> QED BY <1>1, <1>2, <1>3 DEF SendInv

\* Only an address that was not sent the transaction is given up for the next.
LEMMA NextAddressKeepsSending ==
  ASSUME SendInv,
         s_state \in {"connecting", "AwaitingVersion", "AwaitingVerack", "AwaitingGetData"},
         Sender!NextAddress
  PROVE  SendInv'
<1>1. SentOK /\ QueuesOK
  BY DEF SendInv
<1>2. s_sent[s_peer] \in Seq(Words) /\ Len(s_sent[s_peer]) <= 3
  <2>1. Len(s_sent[s_peer]) = Written(s_state) /\ s_sent[s_peer] \in Seq(Words)
    BY <1>1 DEF SentOK
  <2>2. Written(s_state) \in 0..3
    BY DEF Written
  <2> QED BY <2>1, <2>2
<1>3. CASE s_peer = Addresses
  <2>1. Sender!Return("error") /\ ~(Len(s_sent[s_peer]) >= 4)
    BY <1>2, <1>3 DEF Sender!NextAddress
  <2> QED BY <1>3, <2>1, ReturnKeepsSending
<1>4. CASE s_peer # Addresses
  <2> USE DEF Sender!NextAddress, Sender!history
  <2>1. Addresses \in Nat /\ s_peer \in 1..Addresses /\ s_peer' = s_peer + 1 /\ s_sent' = s_sent
    BY <1>1, <1>4, BesidesAssumption DEF SentOK, Sender!AddressesAssumption
  <2>2. s_peer' \in 1..Addresses /\ Len(s_sent[s_peer']) = 0
    BY <1>1, <1>4, <2>1 DEF SentOK
  <2>3. \A a \in 1..Addresses : a # s_peer' => Len(s_sent[a]) <= 3
    <3>1. \A a \in 1..Addresses : a # s_peer => Len(s_sent[a]) <= 3
      BY <1>1 DEF SentOK
    <3>2. Len(s_sent[s_peer]) <= 3
      BY <1>2
    <3> QED BY <3>1, <3>2
  <2>4. \A a \in 1..Addresses : a > s_peer' => Len(s_sent[a]) = 0
    BY <1>1, <2>1 DEF SentOK
  <2>5. s_state' = "connecting" /\ s_result' = s_result /\ s_result = "none"
    BY <1>1, <1>4 DEF SentOK
  <2>6. SentOK'
    BY <1>1, <2>1, <2>2, <2>3, <2>4, <2>5 DEF SentOK, States, Written
  <2>7. QueuesOK'
    BY <1>1, <1>4, <2>5 DEF QueuesOK
  <2>8. (s_open \in BOOLEAN)'
    BY <1>4, Zenon
  <2> QED BY <2>6, <2>7, <2>8 DEF SendInv
<1> QED BY <1>3, <1>4

\* A message of the script is written in the state that it belongs to, and the
\* exchange moves on with it: version, verack, inv, tx, ping.
LEMMA ScriptKeepsSending ==
  ASSUME SendInv, s_state \in States \ {"Flushing", "ended"}, s_state' \in States \ {"ended"},
         Written(s_state') = Written(s_state) + 1,
         Sender!Write(Script[Written(s_state')]),
         s_in' = s_in \/ (s_in # <<>> /\ s_in' = Tail(s_in)),
         UNCHANGED <<s_peer, s_processed, s_confirmed, s_result>>
  PROVE  SentOK' /\ QueuesOK'
<1>1. SentOK /\ QueuesOK
  BY DEF SendInv
<1> DEFINE k == Written(s_state)
           m == Script[Written(s_state')]
<1>2. k \in 0..4 /\ Len(s_sent[s_peer]) = k /\ Written(s_state') = k + 1
  BY <1>1 DEF SentOK, States, Written
<1>3. /\ m \in Words /\ m # "pong" /\ m = Script[k + 1]
      /\ m = "ping" <=> k = 4
      /\ m = "tx" <=> k = 3
  BY <1>2, ScriptAt
<1>4. /\ k = 4 => s_state = "Done"
      /\ s_state' \in {"Done", "Flushing"} => k \in {3, 4}
  BY <1>2 DEF States, Written
<1> HIDE DEF k, m
<1>5. /\ s_sent' \in [1..Addresses -> Seq(Words)]
      /\ \A a \in 1..Addresses : Follows(s_sent'[a])
      /\ \A a \in 1..Addresses : a # s_peer => s_sent'[a] = s_sent[a]
      /\ Len(s_sent'[s_peer]) = k + 1
  <2>1. Sender!Write(m) /\ Len(s_sent[s_peer]) < 5 /\ m = Script[Len(s_sent[s_peer]) + 1]
    BY <1>2, <1>3 DEF m
  <2> QED BY <1>1, <1>2, <1>3, <2>1, ScriptGrows
<1>6. m = "ping" => s_peer \in s_processed \/ \E i \in 1..Len(s_out) : s_out[i] = "tx"
  BY <1>1, <1>3, <1>4 DEF QueuesOK
<1>7. /\ s_out' \in Seq(Words)
      /\ \A j \in 1..Len(s_out') :
           s_out'[j] = "ping" => s_peer \in s_processed \/ \E i \in 1..(j - 1) : s_out'[i] = "tx"
      /\ (\E i \in 1..Len(s_out) : s_out[i] = "tx") => \E i \in 1..Len(s_out') : s_out'[i] = "tx"
      /\ m = "tx" => \E i \in 1..Len(s_out') : s_out'[i] = "tx"
  <2>1. Sender!Write(m)
    BY DEF m
  <2> QED BY <1>1, <1>3, <1>6, <2>1, QueueGrows
<1>8. SentOK'
  <2>1. /\ s_peer' = s_peer /\ s_result' = s_result /\ s_result = "none" /\ s_peer \in 1..Addresses
        /\ s_state' \in States /\ s_state' # "ended"
    BY <1>1 DEF SentOK, States
  <2>2. \A a \in 1..Addresses : a # s_peer => Len(s_sent'[a]) <= 3
    BY <1>1, <1>5 DEF SentOK
  <2>3. \A a \in 1..Addresses : a > s_peer => Len(s_sent'[a]) = 0
    BY <1>1, <1>5, <2>1 DEF SentOK
  <2> QED BY <1>2, <1>5, <2>1, <2>2, <2>3 DEF SentOK
<1>9. QueuesOK'
  <2>1. /\ s_in' \in Seq(Incoming)
        /\ \A i \in 1..Len(s_in') : s_in'[i].type = "ourpong" => s_peer \in s_processed
    BY <1>1, ReadKeepsOrder
  <2>2. s_state' \in {"Done", "Flushing"} =>
          s_peer \in s_processed \/ \E i \in 1..Len(s_out') : s_out'[i] = "tx"
    BY <1>1, <1>3, <1>4, <1>7 DEF QueuesOK
  <2> QED BY <1>1, <1>7, <2>1, <2>2 DEF QueuesOK
<1> QED BY <1>8, <1>9

\* A pong that is written answers the node's ping and is none of the script.
LEMMA PongKeepsSending ==
  ASSUME SendInv, s_in # <<>>, s_in' = Tail(s_in), Sender!Write("pong"),
         UNCHANGED <<s_peer, s_state, s_open, s_processed, s_confirmed, s_result>>
  PROVE  SendInv'
<1>1. SentOK /\ QueuesOK
  BY DEF SendInv
<1>2. s_sent' = s_sent
  BY DEF Sender!Write
<1>3. SentOK'
  BY <1>1, <1>2 DEF SentOK
<1>4. /\ s_out' \in Seq(Words)
      /\ \A j \in 1..Len(s_out') :
           s_out'[j] = "ping" => s_peer \in s_processed \/ \E i \in 1..(j - 1) : s_out'[i] = "tx"
      /\ (\E i \in 1..Len(s_out) : s_out[i] = "tx") => \E i \in 1..Len(s_out') : s_out'[i] = "tx"
  <2>1. "pong" \in Words /\ "pong" # "ping"
    BY DEF Words
  <2> QED BY <1>1, <2>1, QueueGrows
<1>5. QueuesOK'
  <2>1. /\ s_in' \in Seq(Incoming)
        /\ \A i \in 1..Len(s_in') : s_in'[i].type = "ourpong" => s_peer \in s_processed
    BY <1>1, ReadKeepsOrder
  <2> QED BY <1>1, <1>4, <2>1 DEF QueuesOK
<1>6. (s_open \in BOOLEAN)'
  BY Zenon DEF SendInv
<1> QED BY <1>3, <1>5, <1>6 DEF SendInv

\* Reading what Exchange::handle ignores changes nothing else.
LEMMA IgnoredKeepsSending ==
  ASSUME SendInv, s_in # <<>>, s_in' = Tail(s_in),
         UNCHANGED <<s_peer, s_state, s_out, s_open, Sender!history, s_result>>
  PROVE  SendInv'
<1> USE DEF Sender!history
<1>1. SentOK /\ QueuesOK
  BY DEF SendInv
<1>2. SentOK'
  BY <1>1 DEF SentOK
<1>3. QueuesOK'
  <2>1. /\ s_in' \in Seq(Incoming)
        /\ \A i \in 1..Len(s_in') : s_in'[i].type = "ourpong" => s_peer \in s_processed
    BY <1>1, ReadKeepsOrder
  <2> QED BY <1>1, <2>1 DEF QueuesOK
<1>4. (s_open \in BOOLEAN)'
  BY Zenon DEF SendInv
<1> QED BY <1>2, <1>3, <1>4 DEF SendInv

\* Exchange::handle: what is awaited moves the exchange on, a ping is answered,
\* and what is out of order gives the address up.
LEMMA ReadKeepsSending == ASSUME SendInv, Sender!ReadMessage PROVE SendInv'
<1>1. SentOK /\ QueuesOK /\ s_state \in Sender!Exchanging /\ s_in # <<>>
  BY DEF SendInv, Sender!ReadMessage
<1> DEFINE m == Head(s_in)
<1>2. /\ Sender!InOrder(m) => ~Sender!IsPing(m) /\ ~Sender!Ignored(m)
      /\ Sender!IsPing(m) => ~Sender!Ignored(m)
  <2>1. Sender!InOrder(m) => m.type \in {"version", "verack", "getdata"}
    BY <1>1 DEF Sender!InOrder, Sender!Exchanging, Sender!Awaited
  <2> QED BY <2>1 DEF Sender!IsPing, Sender!Ignored
<1>3. CASE Sender!InOrder(m)
  <2>1. /\ Sender!Write(Sender!Answer[s_state]) /\ s_state' = Sender!After[s_state]
        /\ s_in' = Tail(s_in)
        /\ UNCHANGED <<s_peer, s_open, s_processed, s_confirmed, s_result>>
    BY <1>2, <1>3 DEF Sender!ReadMessage
  <2>2. /\ s_state \in States \ {"Flushing", "ended"} /\ s_state' \in States \ {"ended"}
        /\ Written(s_state') = Written(s_state) + 1
        /\ Sender!Answer[s_state] = Script[Written(s_state')]
    <3>1. \/ s_state = "AwaitingVersion" /\ s_state' = "AwaitingVerack"
          \/ s_state = "AwaitingVerack" /\ s_state' = "AwaitingGetData"
          \/ s_state = "AwaitingGetData" /\ s_state' = "Done"
      BY <1>1, <2>1 DEF Sender!Exchanging, Sender!After
    <3>2. /\ s_state \in States \ {"Flushing", "ended"} /\ s_state' \in States \ {"ended"}
          /\ Written(s_state') = Written(s_state) + 1
      BY <3>1 DEF States, Written
    <3>3. Sender!Answer[s_state] = Script[Written(s_state')]
      BY <3>1 DEF Sender!Answer, Script, Written
    <3> QED BY <3>2, <3>3
  <2>3. SentOK' /\ QueuesOK'
    BY <1>1, <2>1, <2>2, ScriptKeepsSending
  <2>4. (s_open \in BOOLEAN)'
    BY <2>1, Zenon DEF SendInv
  <2> QED BY <2>3, <2>4 DEF SendInv
<1>4. CASE Sender!IsPing(m)
  <2>1. /\ Sender!Write("pong") /\ s_in' = Tail(s_in)
        /\ UNCHANGED <<s_peer, s_state, s_open, s_processed, s_confirmed, s_result>>
    BY <1>2, <1>4 DEF Sender!ReadMessage
  <2> QED BY <1>1, <2>1, PongKeepsSending
<1>5. CASE Sender!Ignored(m)
  <2>1. /\ s_in' = Tail(s_in)
        /\ UNCHANGED <<s_peer, s_state, s_out, s_open, Sender!history, s_result>>
    BY <1>2, <1>5 DEF Sender!ReadMessage
  <2> QED BY <1>1, <2>1, IgnoredKeepsSending
<1>6. CASE ~(Sender!InOrder(m) \/ Sender!IsPing(m) \/ Sender!Ignored(m))
  BY <1>1, <1>6, NextAddressKeepsSending DEF Sender!ReadMessage, Sender!Exchanging
<1> QED BY <1>3, <1>4, <1>5, <1>6

\* The pong to our ping ends the wait, and by then the node has the transaction
\* (await_processed).
LEMMA FlushKeepsSending == ASSUME SendInv, Sender!ReadFlushing PROVE SendInv'
<1> DEFINE m == Head(s_in)
<1>1. SentOK /\ QueuesOK /\ s_state = "Flushing" /\ s_in # <<>>
  BY DEF SendInv, Sender!ReadFlushing
<1>2. Len(s_sent[s_peer]) = 5
  BY <1>1 DEF SentOK, Written
<1>3. /\ Sender!IsOurPong(m) => ~Sender!IsPing(m) /\ ~Sender!Ignored(m)
      /\ Sender!IsPing(m) => ~Sender!Ignored(m)
  BY DEF Sender!IsOurPong, Sender!IsPing, Sender!Ignored
<1>4. CASE Sender!IsOurPong(m)
  <2>1. /\ s_confirmed' = s_confirmed \cup {s_peer} /\ s_state' = "ended" /\ s_result' = "true"
        /\ s_out' = <<>> /\ s_in' = <<>> /\ s_open' = FALSE
        /\ UNCHANGED <<s_peer, s_sent, s_processed>>
    BY <1>3, <1>4 DEF Sender!ReadFlushing
  <2>2. s_peer \in s_processed
    <3>1. m = s_in[1] /\ 1 \in 1..Len(s_in)
      BY <1>1, QueueShrinks DEF QueuesOK
    <3> QED BY <1>1, <1>4, <3>1 DEF QueuesOK, Sender!IsOurPong
  <2>3. SentOK'
    <3>1. Len(s_sent[s_peer]) >= 4
      BY <1>2
    <3> QED BY <1>1, <2>1, <3>1 DEF SentOK, States
  <2>4. QueuesOK'
    BY <1>1, <2>1, <2>2 DEF QueuesOK
  <2>5. (s_open \in BOOLEAN)'
    BY <2>1, Zenon
  <2> QED BY <2>3, <2>4, <2>5 DEF SendInv
<1>5. CASE Sender!IsPing(m)
  <2>1. /\ Sender!Write("pong") /\ s_in' = Tail(s_in)
        /\ UNCHANGED <<s_peer, s_state, s_open, s_processed, s_confirmed, s_result>>
    BY <1>3, <1>5 DEF Sender!ReadFlushing
  <2> QED BY <1>1, <2>1, PongKeepsSending
<1>6. CASE Sender!Ignored(m)
  <2>1. /\ s_in' = Tail(s_in)
        /\ UNCHANGED <<s_peer, s_state, s_out, s_open, Sender!history, s_result>>
    BY <1>3, <1>6 DEF Sender!ReadFlushing
  <2> QED BY <1>1, <2>1, IgnoredKeepsSending
<1>7. CASE ~(Sender!IsOurPong(m) \/ Sender!IsPing(m) \/ Sender!Ignored(m))
  BY <1>2, <1>7, ReturnKeepsSending DEF Sender!ReadFlushing
<1> QED BY <1>4, <1>5, <1>6, <1>7

\* The node reads in order, so it has read the transaction when it answers the
\* ping behind it.
LEMMA NodeReadsKeepsSending == ASSUME SendInv, Sender!NodeReads PROVE SendInv'
<1> DEFINE m == Head(s_out)
<1>1. SentOK /\ QueuesOK /\ s_out # <<>>
  BY DEF SendInv, Sender!NodeReads
<1>2. /\ s_out' = Tail(s_out)
      /\ s_processed' = IF m = "tx" THEN s_processed \cup {s_peer} ELSE s_processed
      /\ s_in' = IF m = "ping" THEN Append(s_in, Sender!Message("ourpong")) ELSE s_in
      /\ UNCHANGED <<s_peer, s_state, s_open, s_sent, s_confirmed, s_result>>
  BY DEF Sender!NodeReads
<1>3. /\ m = s_out[1] /\ 1 \in 1..Len(s_out) /\ Len(s_out) \in Nat
      /\ s_out' \in Seq(Words) /\ Len(s_out') = Len(s_out) - 1
      /\ \A i \in 1..Len(s_out') : i + 1 \in 1..Len(s_out) /\ s_out'[i] = s_out[i + 1]
  BY <1>1, <1>2, QueueShrinks DEF QueuesOK
<1> HIDE DEF m
<1>4. SentOK'
  BY <1>1, <1>2 DEF SentOK
<1>5. s_processed \subseteq s_processed' /\ s_confirmed' \subseteq s_processed'
  BY <1>1, <1>2 DEF QueuesOK
<1>6. ASSUME NEW n \in 1..Len(s_out), s_out[n] = "tx", s_peer \notin s_processed'
      PROVE  n - 1 \in 1..Len(s_out') /\ s_out'[n - 1] = "tx"
  <2>1. n # 1
    BY <1>2, <1>3, <1>6
  <2>2. n - 1 \in 1..Len(s_out')
    BY <1>3, <2>1
  <2>3. s_out'[n - 1] = s_out[(n - 1) + 1]
    BY <1>3, <2>2
  <2> QED BY <1>6, <2>2, <2>3
<1>7. ASSUME NEW j \in 1..Len(s_out'), s_out'[j] = "ping", s_peer \notin s_processed'
      PROVE  \E i \in 1..(j - 1) : s_out'[i] = "tx"
  <2>1. j + 1 \in 1..Len(s_out) /\ s_out[j + 1] = "ping"
    BY <1>3, <1>7
  <2>2. PICK n \in 1..((j + 1) - 1) : s_out[n] = "tx"
    BY <1>1, <1>5, <1>7, <2>1 DEF QueuesOK
  <2>3. n \in 1..Len(s_out) /\ n <= j
    BY <1>3, <2>1
  <2>4. n - 1 \in 1..Len(s_out') /\ s_out'[n - 1] = "tx"
    BY <1>6, <1>7, <2>2, <2>3
  <2>5. n - 1 \in 1..(j - 1)
    BY <2>3, <2>4
  <2> QED BY <2>4, <2>5
<1>8. /\ s_in' \in Seq(Incoming)
      /\ \A i \in 1..Len(s_in') : s_in'[i].type = "ourpong" => s_peer \in s_processed'
  <2>1. /\ s_in \in Seq(Incoming) /\ Len(s_in) \in Nat
        /\ \A i \in 1..Len(s_in) : s_in[i].type = "ourpong" => s_peer \in s_processed
    BY <1>1 DEF QueuesOK
  <2>2. CASE m = "ping"
    <3>1. s_peer \in s_processed
      <4>1. 1 \in 1..Len(s_out) /\ s_out[1] = "ping" /\ ~ \E i \in 1..(1 - 1) : s_out[i] = "tx"
        BY <1>3, <2>2
      <4>2. \A j \in 1..Len(s_out) :
              s_out[j] = "ping" => s_peer \in s_processed \/ \E i \in 1..(j - 1) : s_out[i] = "tx"
        BY <1>1 DEF QueuesOK
      <4> QED BY ONLY <4>1, <4>2
    <3>2. s_in' = Append(s_in, Sender!Message("ourpong")) /\ Sender!Message("ourpong") \in Incoming
      BY <1>2, <2>2 DEF Incoming
    <3>3. s_in' \in Seq(Incoming)
      BY <2>1, <3>2
    <3> QED BY <1>5, <3>1, <3>3
  <2>3. CASE m # "ping"
    BY <1>2, <1>5, <2>1, <2>3
  <2> QED BY <2>2, <2>3
<1>9. s_state' \in {"Done", "Flushing"} =>
        s_peer \in s_processed' \/ \E i \in 1..Len(s_out') : s_out'[i] = "tx"
  BY <1>1, <1>2, <1>5, <1>6 DEF QueuesOK
<1>10. QueuesOK'
  BY <1>2, <1>3, <1>5, <1>7, <1>8, <1>9 DEF QueuesOK
<1>11. (s_open \in BOOLEAN)'
  BY <1>2, Zenon DEF SendInv
<1> QED BY <1>4, <1>10, <1>11 DEF SendInv

\* What the node sends on its own is under way behind everything else, and it
\* is no pong to our ping.
LEMMA NodeSendsKeepsSending == ASSUME SendInv, Sender!NodeSends PROVE SendInv'
<1>1. SentOK /\ QueuesOK
  BY DEF SendInv
<1>2. /\ UNCHANGED <<s_peer, s_state, s_out, s_open, s_sent, s_processed, s_confirmed, s_result>>
      /\ \E m \in Sender!Unsolicited : s_in' = Append(s_in, m)
  BY DEF Sender!NodeSends, Sender!history
<1>3. PICK m \in Sender!Unsolicited : s_in' = Append(s_in, m)
  BY <1>2
<1>4. m \in Incoming /\ m.type # "ourpong"
  BY DEF Incoming, Sender!Unsolicited, Sender!Message, Sender!Spoilt
<1>5. SentOK'
  BY <1>1, <1>2 DEF SentOK
<1>6. /\ s_in \in Seq(Incoming) /\ Len(s_in) \in Nat
      /\ \A i \in 1..Len(s_in) : s_in[i].type = "ourpong" => s_peer \in s_processed
  BY <1>1 DEF QueuesOK
<1>7. /\ s_in' \in Seq(Incoming) /\ Len(s_in') = Len(s_in) + 1 /\ s_in'[Len(s_in) + 1] = m
      /\ \A i \in 1..Len(s_in) : s_in'[i] = s_in[i]
  BY <1>3, <1>4, <1>6
<1>8. ASSUME NEW i \in 1..Len(s_in'), s_in'[i].type = "ourpong"  PROVE s_peer \in s_processed
  <2>1. i \in 1..Len(s_in) \/ i = Len(s_in) + 1
    BY <1>6, <1>7
  <2> QED BY <1>4, <1>6, <1>7, <1>8, <2>1
<1>9. QueuesOK'
  BY <1>1, <1>2, <1>7, <1>8 DEF QueuesOK
<1>10. (s_open \in BOOLEAN)'
  BY <1>2, Zenon DEF SendInv
<1> QED BY <1>5, <1>9, <1>10 DEF SendInv

\* Every step of the call and of the node keeps the script and the order of the
\* connection.
LEMMA SendInvariance == SendInv /\ [Sender!Next]_(Sender!vars) => SendInv'
<1> SUFFICES ASSUME SendInv, [Sender!Next]_(Sender!vars) PROVE SendInv'
  OBVIOUS
<1>1. SentOK /\ QueuesOK
  BY DEF SendInv
<1>2. s_state # "ended" => Len(s_sent[s_peer]) = Written(s_state)
  BY <1>1 DEF SentOK
<1>3. CASE Sender!Connect
  <2>1. /\ s_state = "connecting" /\ s_state' = "AwaitingVersion" /\ s_open' = TRUE
        /\ Sender!Write("version")
        /\ UNCHANGED <<s_peer, s_in, s_processed, s_confirmed, s_result>>
    BY <1>3 DEF Sender!Connect
  <2>2. /\ s_state \in States \ {"Flushing", "ended"} /\ s_state' \in States \ {"ended"}
        /\ Written(s_state') = Written(s_state) + 1 /\ Script[Written(s_state')] = "version"
    BY <2>1 DEF States, Written, Script
  <2>3. SentOK' /\ QueuesOK'
    BY <2>1, <2>2, ScriptKeepsSending
  <2>4. (s_open \in BOOLEAN)'
    BY <2>1, Zenon
  <2> QED BY <2>3, <2>4 DEF SendInv
<1>4. CASE Sender!SendPing
  <2>1. /\ s_state = "Done" /\ s_state' = "Flushing" /\ Sender!Write("ping")
        /\ UNCHANGED <<s_peer, s_in, s_open, s_processed, s_confirmed, s_result>>
    BY <1>4 DEF Sender!SendPing
  <2>2. /\ s_state \in States \ {"Flushing", "ended"} /\ s_state' \in States \ {"ended"}
        /\ Written(s_state') = Written(s_state) + 1 /\ Script[Written(s_state')] = "ping"
    BY <2>1 DEF States, Written, Script
  <2>3. SentOK' /\ QueuesOK'
    BY <2>1, <2>2, ScriptKeepsSending
  <2>4. (s_open \in BOOLEAN)'
    BY <2>1, Zenon DEF SendInv
  <2> QED BY <2>3, <2>4 DEF SendInv
<1>5. CASE Sender!ConnectRefused \/ Sender!ConnectionLost
  BY <1>5, NextAddressKeepsSending
  DEF Sender!ConnectRefused, Sender!ConnectionLost, Sender!Exchanging
<1>6. CASE Sender!ConnectTimeout \/ Sender!SendTimeout
  <2>1. Sender!Return("false") /\ s_state \in {"connecting"} \cup Sender!Exchanging
    BY <1>6 DEF Sender!ConnectTimeout, Sender!SendTimeout
  <2>2. ~(Len(s_sent[s_peer]) >= 4)
    BY <1>2, <2>1 DEF Sender!Exchanging, Written
  <2> QED BY <2>1, <2>2, ReturnKeepsSending
<1>7. CASE Sender!FlushFails \/ Sender!FlushTimeout
  <2>1. Sender!Return("true") /\ s_state \in {"Done", "Flushing"}
    BY <1>7 DEF Sender!FlushFails, Sender!FlushTimeout
  <2>2. Len(s_sent[s_peer]) >= 4
    BY <1>2, <2>1 DEF Written
  <2> QED BY <2>1, <2>2, ReturnKeepsSending
<1>8. CASE Sender!NodeCloses
  <2>1. SentOK' /\ QueuesOK'
    BY <1>1, <1>8 DEF Sender!NodeCloses, Sender!history, SentOK, QueuesOK
  <2>2. (s_open \in BOOLEAN)'
    BY <1>8, Zenon DEF Sender!NodeCloses
  <2> QED BY <2>1, <2>2 DEF SendInv
<1>9. CASE UNCHANGED Sender!vars
  <2>1. SentOK' /\ QueuesOK'
    BY <1>1, <1>9 DEF Sender!vars, Sender!connection, Sender!history, SentOK, QueuesOK
  <2>2. (s_open \in BOOLEAN)'
    BY <1>9, Zenon DEF SendInv, Sender!vars, Sender!connection
  <2> QED BY <2>1, <2>2 DEF SendInv
<1> QED
  BY <1>3, <1>4, <1>5, <1>6, <1>7, <1>8, <1>9, ReadKeepsSending, FlushKeepsSending,
     NodeReadsKeepsSending, NodeSendsKeepsSending
  DEF Sender!Next, Sender!Ours, Sender!Timers

\* What follows the script is a prefix of it.
LEMMA PrefixOfScript ==
  ASSUME NEW s, Follows(s)
  PROVE  \E n \in 0..5 : s = SubSeq(Script, 1, n)
<1>1. Len(s) \in 0..5 /\ s \in Seq(Words) /\ \A i \in 1..Len(s) : s[i] = Script[i]
  <2>1. s \in Seq(Words) /\ \A i \in 1..Len(s) : s[i] = Script[i]
    BY DEF Follows
  <2>2. Len(s) <= 5
    BY DEF Follows
  <2>3. \A n \in Nat : n <= 5 => n \in 0..5
    OBVIOUS
  <2>4. Len(s) \in Nat
    BY <2>1
  <2> QED BY <2>1, <2>2, <2>3, <2>4
<1>2. Script \in Seq(Words) /\ Len(Script) = 5
  BY DEF Script, Words
<1> DEFINE t == SubSeq(Script, 1, Len(s))
<1>3. t \in Seq(Words) /\ Len(t) = Len(s) /\ \A i \in 1..Len(s) : t[i] = Script[i]
  BY <1>1, <1>2
<1>4. s = t
  BY <1>1, <1>3
<1> QED BY <1>1, <1>4

\* send_to_first_reachable tells what happened, whatever the node sends and
\* however many addresses there are: each address is sent the messages in order
\* and at most once, true is returned exactly if one was sent the transaction,
\* which is the last one tried, and a confirmed transaction was processed.
THEOREM SendResultTrue == Sender!Spec => []ResultMatchesSending
<1>1. SendInv => ResultMatchesSending
  <2> SUFFICES ASSUME SendInv PROVE ResultMatchesSending
    OBVIOUS
  <2>1. SentOK /\ QueuesOK
    BY DEF SendInv
  <2>2. Sender!TypeOK
    <3>1. s_open \in BOOLEAN
      BY DEF SendInv
    <3>2. /\ s_peer \in Sender!socket_addrs
          /\ s_state \in Sender!Exchanging \cup {"connecting", "Done", "Flushing", "ended"}
          /\ s_state = "ended" <=> s_result # "none"
          /\ s_result \in {"none", "true", "false", "error"}
      BY <2>1 DEF SentOK, States, Sender!Exchanging, Sender!socket_addrs
    <3> QED BY <3>1, <3>2, Zenon DEF Sender!TypeOK
  <2>3. Sender!SentInOrder
    BY <2>1, PrefixOfScript DEF SentOK, Sender!SentInOrder, Sender!socket_addrs, Script
  <2>4. Sender!ConfirmedMeansProcessed
    BY <2>1 DEF QueuesOK, Sender!ConfirmedMeansProcessed
  <2>5. Sender!ResultMatchesSending
    <3>1. ASSUME NEW a \in 1..Addresses
          PROVE  (\E i \in DOMAIN s_sent[a] : s_sent[a][i] = "tx") <=> Len(s_sent[a]) >= 4
      <4>1. s_sent[a] \in Seq(Words) /\ Len(s_sent[a]) \in Nat /\ Len(s_sent[a]) <= 5
            /\ DOMAIN s_sent[a] = 1..Len(s_sent[a])
            /\ \A i \in 1..Len(s_sent[a]) : s_sent[a][i] = Script[i]
        BY <2>1 DEF SentOK, Follows
      <4>2. \A i \in 1..5 : Script[i] = "tx" <=> i = 4
        BY DEF Script
      <4> QED BY <4>1, <4>2
    <3>2. /\ \A a \in 1..Addresses : a # s_peer => ~(Len(s_sent[a]) >= 4)
          /\ s_peer \in 1..Addresses
      <4>1. \A a \in 1..Addresses : Len(s_sent[a]) \in Nat
        BY <2>1 DEF SentOK
      <4> QED BY <2>1, <4>1 DEF SentOK
    <3>3. /\ s_result = "true" => Len(s_sent[s_peer]) >= 4
          /\ s_result \in {"false", "error"} => ~(Len(s_sent[s_peer]) >= 4)
          /\ s_result = "error" => s_peer = Addresses
      BY <2>1 DEF SentOK
    <3> QED BY <3>1, <3>2, <3>3 DEF Sender!ResultMatchesSending, Sender!socket_addrs
  <2> QED BY <2>2, <2>3, <2>4, <2>5 DEF ResultMatchesSending
<1> QED BY <1>1, SendStarts, SendInvariance, PTL DEF Sender!Spec
=============================================================================
