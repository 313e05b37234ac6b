----------------------------- MODULE MCProcess ------------------------------
(***************************************************************************)
(* The parts that must come to an end or recover, for TLC: the enforcer's  *)
(* task and main (EnforcerTask), the chain sync (ChainSync), mining        *)
(* requests (Mining), and sending a transaction to a node (SendTx).        *)
(* They share no state, so a behaviour runs one of them, `component`, and  *)
(* the others stay in an initial state.                                    *)
(***************************************************************************)
EXTENDS Process

VARIABLE component

-----------------------------------------------------------------------------
(* The chain sync from a snapshot, on the fork                             *)
(*                                                                         *)
(*     g - a1 - a2 - a3 - a4                                               *)
(*                \ c3                                                     *)
(*                                                                         *)
(* where a3 is rejected.                                                   *)

Tree ==
  [g |-> "none", a1 |-> "g", a2 |-> "a1", a3 |-> "a2", a4 |-> "a3",
   c3 |-> "a2"]

VARIABLES c_active, c_invalidated, c_background, c_notifications, c_header, c_height,
          c_info, c_tip, c_pc, c_rest, c_sync, c_failure, c_stops, c_view

chainsync == <<c_active, c_invalidated, c_background, c_notifications, c_header, c_height,
               c_info, c_tip, c_pc, c_rest, c_sync, c_failure, c_stops, c_view>>

Chain ==
  INSTANCE ChainSync WITH
    Block <- DOMAIN Tree, NoBlock <- "none", Parent <- Tree, Rejected <- {"a3"},
    ActivationHeight <- 1, HEADER_FETCH_BATCH_SIZE <- 3, BLOCK_FETCH_BATCH_SIZE <- 2,
    PRE_ACTIVATION_BATCH_SIZE <- 2, SnapshotHeight <- 2, MaxStops <- 1,
    active <- c_active, invalidated <- c_invalidated, background <- c_background,
    notifications <- c_notifications, header <- c_header, height <- c_height,
    info <- c_info, tip <- c_tip, pc <- c_pc, rest <- c_rest, sync <- c_sync,
    failure <- c_failure, stops <- c_stops, view <- c_view

-----------------------------------------------------------------------------

MCInit ==
  /\ component \in {"task", "chain", "mining", "sending"}
  /\ Init /\ Chain!Init /\ Miner!Init /\ Sender!Init
  /\ component # "chain" => c_active = "a2" /\ ~c_rest

MCNext ==
  \/ component = "task" /\ Next /\ UNCHANGED <<component, chainsync, mining, sending>>
  \/ component = "chain" /\ Chain!Next /\ UNCHANGED <<component, vars, mining, sending>>
  \/ component = "mining" /\ Miner!Next /\ UNCHANGED <<component, vars, chainsync, sending>>
  \/ component = "sending" /\ Sender!Next /\ UNCHANGED <<component, vars, chainsync, mining>>

\* The fairness of each component's FairSpec, for the one that runs: what the
\* process does by itself, its timers, and the node's background validation.
MCFairSpec ==
  /\ MCInit /\ [][MCNext]_<<component, vars, chainsync, mining, sending>>
  /\ WF_vars(component = "task" /\ StopServing)
  /\ WF_vars(component = "task" /\ AttemptFailed)
  /\ WF_vars(component = "task" /\ Delay)
  /\ WF_vars(component = "task" /\ TaskJoined)
  /\ WF_vars(component = "task" /\ Drained)
  /\ WF_vars(component = "task" /\ DrainTimeout)
  /\ WF_chainsync(component = "chain" /\ (Chain!Sync \/ Chain!Live))
  /\ WF_chainsync(component = "chain" /\ Chain!BackgroundValidate)
  /\ \A c \in Caller : WF_mining(component = "mining" /\ Miner!Step(c))
  /\ WF_sending(component = "sending" /\ Sender!Ours)
  /\ WF_sending(component = "sending" /\ Sender!Timers)

-----------------------------------------------------------------------------

\* A mempool that fails again and again, each time early, ends the process; a
\* template server whose mempool is no longer updated leaves the slot; and once
\* anything ends or interrupts it the process exits.
SupervisionWorks ==
  PersistentFailureExits /\ StaleServerCleared /\ ShutdownCompletes

\* The process is down or ends up live at the node's tip: no sync, from a
\* snapshot or over rejected blocks, runs for ever.
ChainConverges == component = "chain" => Chain!Converges

\* What waits for others only with a timeout ends: a mining request, whatever
\* becomes of its blocks, and a send, even if the node keeps it busy forever.
CallsReturn == Miner!RequestEnds /\ (component = "sending" => Sender!Returns)
=============================================================================
