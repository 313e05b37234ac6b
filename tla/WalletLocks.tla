---------------------------- MODULE WalletLocks -----------------------------
(***************************************************************************)
(* The wallet's locks (src/lib/wallet/locks.rs) and the calls that take    *)
(* them: the full scan slot, the BDK wallet, its database.  Each call is   *)
(* the sequence of lock operations its code goes through; the work done    *)
(* under a lock is left out, and takes any time.                           *)
(*                                                                         *)
(* The wallet's lock is an async_lock::RwLock: a writer, or an upgradable  *)
(* reader, first takes the mutex inside it, in order of arrival; a writer  *)
(* then announces itself, which stops new readers, and waits for the       *)
(* readers to leave.  The slot and the database are tokio mutexes, which   *)
(* serve in order of arrival.                                              *)
(***************************************************************************)
EXTENDS Integers, Sequences

CONSTANTS Enforcer, SyncTask, TxHook, Scanner, Sender, Unlocker,  \* sets of callers
          MaxCalls   \* bound on the calls of each

Proc == Enforcer \cup SyncTask \cup TxHook \cup Scanner \cup Sender \cup Unlocker

CallersAssumption == MaxCalls \in Nat

VARIABLES
  code,     \* what is left of each caller's call
  calls,    \* how many it has begun, or will never begin
  slot, mutex, db,   \* queues: the head holds the lock
  readers,  \* who holds the wallet for reading
  writer    \* is a writer announced or at work?

vars == <<code, calls, slot, mutex, db, readers, writer>>

-----------------------------------------------------------------------------
(* The calls.  "stop?" is an early return, which drops every guard.        *)

Persist == <<"write", "db", "stop?", "release">>
ReadWallet == <<"read", "release">>

\* Mutant of UpgradeAndPersist: persists under the upgradable read lock.
UpgradeAndPersist_ReadOnly == <<"db", "stop?", "release">>

UpgradeAndPersist == <<"upgrade", "db", "stop?", "release">>
full_scan_guarded == <<"stop?", "upgradable", "stop?">> \o UpgradeAndPersist

\* Mutant of full_scan: the scan slot is taken inside the wallet lock.
full_scan_SlotInside == <<"upgradable", "slot", "stop?">> \o UpgradeAndPersist

full_scan == <<"slot">> \o full_scan_guarded
try_full_scan == <<"try_slot">> \o full_scan_guarded
sync == <<"upgradable", "stop?">> \o UpgradeAndPersist
apply_unconfirmed_tx == Persist

\* is_initialized, sync_wallet_to_tip (get_tip, fast_forward_chain or a full
\* scan and another look at the tip if the wallet is behind, then
\* handle_connect_block), and the sweep of the BMM requests.
connect_block ==
  {ReadWallet \o ReadWallet \o gap \o Persist \o Persist :
     gap \in {<<>>, Persist \o ReadWallet, full_scan \o <<"release_slot">> \o ReadWallet}}

\* create_deposit, send_wallet_transaction: build, sign, apply.
send == <<"write", "stop?", "release">> \o ReadWallet \o <<"stop?">> \o Persist

\* unlock_existing_wallet
unlock == <<"read", "stop?", "release">> \o Persist

Code(p) ==
  CASE p \in Enforcer -> connect_block
    [] p \in SyncTask -> {sync}
    [] p \in TxHook -> {apply_unconfirmed_tx}
    [] p \in Unlocker -> {unlock}
    [] p \in Scanner -> {try_full_scan}
    [] p \in Sender -> {send}

-----------------------------------------------------------------------------
(* The locks.  Without takes p, who is there at most once, out of a queue. *)

Waits(q, p) == \E i \in 1..Len(q) : q[i] = p
Holds(q, p) == q # <<>> /\ Head(q) = p

Without(q, p) ==
  IF ~Waits(q, p) THEN q
  ELSE LET at == CHOOSE i \in 1..Len(q) : q[i] = p
       IN  [i \in 1..(Len(q) - 1) |-> IF i < at THEN q[i] ELSE q[i + 1]]

Op(p) == IF code[p] = <<>> THEN "idle" ELSE Head(code[p])
Advance(p) == code' = [code EXCEPT ![p] = Tail(@)]
End(p) == code' = [code EXCEPT ![p] = <<>>]

\* The guards on the wallet and its database are dropped.
ReleaseWallet(p) ==
  /\ mutex' = Without(mutex, p)
  /\ db' = Without(db, p)
  /\ readers' = readers \ {p}
  /\ writer' = (writer /\ ~Holds(mutex, p))

ReleaseAll(p) == ReleaseWallet(p) /\ slot' = Without(slot, p)

Begin(p) ==
  /\ Op(p) = "idle" /\ calls[p] < MaxCalls
  /\ \E c \in Code(p) : code' = [code EXCEPT ![p] = c]
  /\ calls' = [calls EXCEPT ![p] = @ + 1]
  /\ UNCHANGED <<slot, mutex, db, readers, writer>>

\* A call that waits for a lock joins its queue.
Queue(p) ==
  /\ \/ Op(p) = "slot" /\ ~Waits(slot, p)
        /\ slot' = Append(slot, p) /\ UNCHANGED <<mutex, db>>
     \/ Op(p) \in {"upgradable", "write"} /\ ~Waits(mutex, p)
        /\ mutex' = Append(mutex, p) /\ UNCHANGED <<slot, db>>
     \/ Op(p) = "db" /\ ~Waits(db, p)
        /\ db' = Append(db, p) /\ UNCHANGED <<slot, mutex>>
  /\ UNCHANGED <<code, calls, readers, writer>>

\* With the mutex a writer announces itself; so does one that upgrades.
Announce(p) ==
  /\ Op(p) \in {"write", "upgrade"} /\ Holds(mutex, p) /\ ~writer
  /\ writer' = TRUE
  /\ UNCHANGED <<code, calls, slot, mutex, db, readers>>

Acquire(p) ==
  /\ \/ Op(p) = "slot" /\ Holds(slot, p) /\ UNCHANGED readers
     \/ Op(p) = "db" /\ Holds(db, p) /\ UNCHANGED readers
     \/ Op(p) = "read" /\ ~writer /\ readers' = readers \cup {p}
     \/ Op(p) = "upgradable" /\ Holds(mutex, p) /\ readers' = readers \cup {p}
     \/ Op(p) \in {"write", "upgrade"} /\ Holds(mutex, p) /\ writer
        /\ readers \subseteq {p} /\ readers' = {}
  /\ Advance(p)
  /\ UNCHANGED <<calls, slot, mutex, db, writer>>

SlotTaken == slot # <<>>

\* WalletLocks::try_full_scan: the slot, or ScanInProgress.
TrySlot(p) ==
  /\ Op(p) = "try_slot"
  /\ IF SlotTaken THEN End(p) /\ UNCHANGED slot
                  ELSE Advance(p) /\ slot' = Append(slot, p)
  /\ UNCHANGED <<calls, mutex, db, readers, writer>>

\* The end of a call drops whatever it still holds.
Release(p) ==
  /\ \/ Op(p) = "release" /\ Tail(code[p]) # <<>> /\ ReleaseWallet(p) /\ UNCHANGED slot
     \/ Op(p) = "release" /\ Tail(code[p]) = <<>> /\ ReleaseAll(p)
     \/ Op(p) = "release_slot" /\ slot' = Without(slot, p)
        /\ UNCHANGED <<mutex, db, readers, writer>>
  /\ Advance(p)
  /\ UNCHANGED calls

StopEarly(p) ==
  /\ Op(p) = "stop?" /\ End(p) /\ ReleaseAll(p)
  /\ UNCHANGED calls

GoOn(p) ==
  /\ Op(p) = "stop?" /\ Advance(p)
  /\ UNCHANGED <<calls, slot, mutex, db, readers, writer>>

Init ==
  /\ code = [p \in Proc |-> <<>>] /\ calls \in [Proc -> 0..MaxCalls]
  /\ slot = <<>> /\ mutex = <<>> /\ db = <<>>
  /\ readers = {} /\ writer = FALSE

Step(p) ==
  Queue(p) \/ Announce(p) \/ Acquire(p) \/ TrySlot(p) \/ Release(p) \/ StopEarly(p) \/ GoOn(p)

Next == \E p \in Proc : Begin(p) \/ Step(p)

Spec == Init /\ [][Next]_vars
FairSpec == Spec /\ \A p \in Proc : WF_vars(Step(p))

-----------------------------------------------------------------------------
(* Properties                                                              *)

EachOnce(q) == \A i, j \in 1..Len(q) : q[i] = q[j] => i = j

\* Queues hold callers; only the mutex's holder is announced as a writer.
TypeOK ==
  /\ readers \subseteq Proc /\ writer \in BOOLEAN
  /\ EachOnce(slot) /\ EachOnce(mutex) /\ EachOnce(db)
  /\ writer => mutex # <<>>

\* Who writes to the database is alone with the wallet: nobody reads a wallet
\* that is ahead of what is persisted, or persists one that another changes.
PersistsAlone ==
  \A p \in Proc : Holds(db, p) => Holds(mutex, p) /\ writer /\ readers = {} /\ Len(db) = 1

\* At most one scan keeps the wallet, or waits for it, so that a block's
\* connection never stands behind a second one.
OneScanAtATime ==
  \A p, q \in Scanner \cup Enforcer :
    p # q => ~(Waits(slot, p) /\ Waits(slot, q) /\ Waits(mutex, p) /\ Waits(mutex, q))

\* Every call ends: no two calls wait for each other, and a block that is
\* being connected gets the wallet after the calls before it.  The callers
\* make finitely many calls, so in the end there are none.
CallsEnd == <>[](\A p \in Proc : Op(p) = "idle")
=============================================================================
