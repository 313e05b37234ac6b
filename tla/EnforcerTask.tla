---------------------------- MODULE EnforcerTask ----------------------------
(***************************************************************************)
(* The process around the enforcer (src/app/main.rs): the task that keeps  *)
(* the mempool synced, its re-syncs (run_with_resync), the slot that       *)
(* serves block templates from the synced mempool (GbtSlot), and main,     *)
(* which shuts everything down when the first task ends.                   *)
(*                                                                         *)
(* Errors are abstracted to whether a re-sync can clear them (is_resyncable *)
(* in error.rs), and time to whether an attempt has lasted                 *)
(* RESYNC_BUDGET_RESET.                                                    *)
(***************************************************************************)
EXTENDS Integers

CONSTANTS MAX_CONSECUTIVE_RESYNCS

ASSUME ResyncAssumption == MAX_CONSECUTIVE_RESYNCS \in Nat

VARIABLES
  pc,           \* of the mempool task
  lasted,       \* has this attempt lasted RESYNC_BUDGET_RESET?
  consecutive,  \* re-syncs since one did
  error,        \* what the attempt's sync task has reported
  alive,        \* is the mempool of this attempt being updated?
  server,       \* does the slot hold a template server?
  cancel,       \* the token
  main,         \* "running", "draining" or "exited"
  burst,        \* attempts in a row that failed sooner than that, up to the budget + 1
  blame         \* why the process is going down

task == <<pc, lasted, consecutive, error, alive, server, burst>>
vars == <<task, cancel, main, blame>>

Attempt == {"syncing", "building", "serving"}
Reports == {"resyncable", "other", "silent"}

-----------------------------------------------------------------------------
(* An attempt: sync_mempool, build_block_template_server, wait, clear      *)

StartAttempt ==
  /\ pc' = "syncing" /\ lasted' = FALSE /\ error' = "none" /\ alive' = FALSE

SyncMempool ==
  /\ pc = "syncing"
  /\ \/ pc' = "building" /\ alive' = TRUE /\ error' = "none"
     \/ pc' = "failed" /\ alive' = FALSE /\ error' \in {"resyncable", "other"}
  /\ UNCHANGED <<lasted, consecutive, server, burst, cancel, main, blame>>

\* The sync task dies.  It reports its error, unless it was told to shut down
\* or panics.
MempoolDies ==
  /\ pc \in {"building", "serving"} /\ alive
  /\ alive' = FALSE
  /\ error' \in Reports
  /\ UNCHANGED <<pc, lasted, consecutive, server, burst, cancel, main, blame>>

TimePasses ==
  /\ pc \in Attempt /\ ~lasted
  /\ lasted' = TRUE
  /\ UNCHANGED <<pc, consecutive, error, alive, server, burst, cancel, main, blame>>

\* The server is published when the node has a template to offer, for which
\* the task waits; any other failure is fatal.
PublishServer ==
  /\ pc = "building"
  /\ pc' = "serving" /\ server' = TRUE
  /\ UNCHANGED <<lasted, consecutive, error, alive, burst, cancel, main, blame>>

\* `blame` is what took the process down first.
Blamed(why) == IF blame = "none" THEN why ELSE blame

BuildFails ==
  /\ pc = "building"
  /\ pc' = "returned" /\ blame' = Blamed("fatal")
  /\ UNCHANGED <<lasted, consecutive, error, alive, server, burst, cancel, main>>

\* wait_for_error_or_shutdown, then clear: cancellation comes first.
StopServing ==
  /\ pc = "serving" /\ (cancel \/ error # "none")
  /\ server' = FALSE
  /\ IF cancel \/ error = "silent"
       THEN pc' = "returned" /\ blame' = Blamed(IF cancel THEN "cancelled" ELSE "fatal")
       ELSE pc' = "failed" /\ UNCHANGED blame
  /\ UNCHANGED <<lasted, consecutive, error, alive, burst, cancel, main>>

-----------------------------------------------------------------------------
(* run_with_resync                                                         *)

\* Mutants of Count: never reset, or always.
Count_NeverReset == consecutive + 1

Count_AlwaysReset == 1

Count == IF lasted THEN 1 ELSE consecutive + 1

AttemptFailed ==
  /\ pc = "failed"
  /\ burst' = IF lasted THEN 0
              ELSE IF burst > MAX_CONSECUTIVE_RESYNCS THEN burst ELSE burst + 1
  /\ IF error # "resyncable" \/ cancel
       THEN /\ pc' = "returned" /\ blame' = Blamed(IF cancel THEN "cancelled" ELSE "fatal")
            /\ UNCHANGED consecutive
     ELSE IF Count > MAX_CONSECUTIVE_RESYNCS
       THEN pc' = "returned" /\ blame' = Blamed("budget") /\ consecutive' = Count
       ELSE pc' = "delay" /\ consecutive' = Count /\ UNCHANGED blame
  /\ UNCHANGED <<lasted, error, alive, server, cancel, main>>

Delay ==
  /\ pc = "delay"
  /\ IF cancel THEN pc' = "returned" /\ UNCHANGED <<lasted, error, alive>> ELSE StartAttempt
  /\ UNCHANGED <<consecutive, server, burst, cancel, main, blame>>

-----------------------------------------------------------------------------
(* main: the first task to end, or an interruption, ends all               *)

Shutdown(why) ==
  /\ main = "running"
  /\ main' = "draining" /\ cancel' = TRUE /\ blame' = Blamed(why)
  /\ UNCHANGED task

TaskJoined == pc = "returned" /\ Shutdown("task")
OtherTaskEnds == Shutdown("other task")
CtrlC == Shutdown("interrupt")

End ==
  /\ main = "draining"
  /\ main' = "exited" /\ pc' = "returned" /\ alive' = FALSE /\ server' = FALSE
  /\ UNCHANGED <<lasted, consecutive, error, burst, cancel, blame>>

Drained == pc = "returned" /\ End

\* One second has passed: the tasks that are left are aborted.
DrainTimeout == pc # "returned" /\ End

Init ==
  /\ pc = "syncing" /\ lasted = FALSE /\ consecutive = 0 /\ error = "none"
  /\ alive = FALSE /\ server = FALSE /\ burst = 0
  /\ cancel = FALSE /\ main = "running" /\ blame = "none"

Task == SyncMempool \/ PublishServer \/ BuildFails \/ StopServing \/ AttemptFailed \/ Delay

Next ==
  Task \/ MempoolDies \/ TimePasses \/ TaskJoined \/ OtherTaskEnds \/ CtrlC
    \/ Drained \/ DrainTimeout

Spec == Init /\ [][Next]_vars
FairSpec ==
  Spec /\ WF_vars(StopServing) /\ WF_vars(AttemptFailed) /\ WF_vars(Delay)
       /\ WF_vars(TaskJoined) /\ WF_vars(Drained) /\ WF_vars(DrainTimeout)

-----------------------------------------------------------------------------
(* Properties                                                              *)

\* The re-sync budget is never exceeded by more than the failure that spends
\* it, and a server is in the slot only while the task waits on its mempool.
TypeOK ==
  /\ consecutive \in 0..MAX_CONSECUTIVE_RESYNCS + 1
  /\ server => pc = "serving"
  /\ main # "running" <=> cancel

\* Recoverable failures alone do not end the process unless, in a row, as many
\* attempts as the budget has failed before they lasted.
RecoversFromSpacedFailures ==
  blame = "budget" => burst >= MAX_CONSECUTIVE_RESYNCS

\* A mempool that fails again and again, each time early, ends the process.
PersistentFailureExits ==
  ([]<>(pc = "failed") /\ <>[]~lasted) => <>(main = "exited")

\* A server whose mempool is no longer updated is taken out of the slot.
StaleServerCleared == (server /\ ~alive) ~> ~server

\* Once anything ends or interrupts it the process exits, though the task may
\* be waiting for a template and look at the token only after that.
ShutdownCompletes == cancel ~> main = "exited"
=============================================================================
