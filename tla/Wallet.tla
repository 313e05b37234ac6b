------------------------------- MODULE Wallet -------------------------------
(***************************************************************************)
(* The wallet: the transactions it makes (WalletSpends) and its locks      *)
(* (WalletLocks).  They share no state: WalletSpends takes the steps that  *)
(* the code takes under a lock as one.                                     *)
(***************************************************************************)
EXTENDS WalletSpends, Sequences

CONSTANTS Enforcer, SyncTask, TxHook, Scanner, Sender, Unlocker, MaxCalls   \* of WalletLocks

VARIABLES l_code, l_calls, l_slot, l_mutex, l_db, l_readers, l_writer

locks == <<l_code, l_calls, l_slot, l_mutex, l_db, l_readers, l_writer>>

Locks ==
  INSTANCE WalletLocks WITH
    code <- l_code, calls <- l_calls, slot <- l_slot, mutex <- l_mutex, db <- l_db,
    readers <- l_readers, writer <- l_writer

ASSUME LocksAssumption == Locks!CallersAssumption

-----------------------------------------------------------------------------

\* Who writes to the database is alone with the wallet, and at most one scan
\* keeps the wallet or waits for it.
PersistsAlone == Locks!TypeOK /\ Locks!PersistsAlone /\ Locks!OneScanAtATime
=============================================================================
