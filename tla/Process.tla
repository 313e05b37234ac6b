------------------------------- MODULE Process ------------------------------
(***************************************************************************)
(* What runs in the enforcer's process beside the chain: the task and main *)
(* (EnforcerTask), mining requests (Mining), and sending a transaction to  *)
(* a node (SendTx).  They share no state.                                  *)
(***************************************************************************)
EXTENDS EnforcerTask, Sequences

CONSTANTS Caller, MaxCount, MaxBlocks, MaxOthers,   \* of Mining
          Addresses, MaxQueue                       \* of SendTx

VARIABLES m_path, m_best, m_tip, m_info, m_served, m_permit, m_job, m_others, m_lost,
          m_rejected

mining == <<m_path, m_best, m_tip, m_info, m_served, m_permit, m_job, m_others, m_lost,
            m_rejected>>

Miner ==
  INSTANCE Mining WITH
    path <- m_path, best <- m_best, tip <- m_tip, info <- m_info, served <- m_served,
    permit <- m_permit, job <- m_job, others <- m_others, lost <- m_lost,
    rejected <- m_rejected

VARIABLES s_peer, s_state, s_out, s_in, s_open, s_sent, s_processed, s_confirmed, s_result

sending == <<s_peer, s_state, s_out, s_in, s_open, s_sent, s_processed, s_confirmed, s_result>>

Sender ==
  INSTANCE SendTx WITH
    peer <- s_peer, state <- s_state, out <- s_out, in <- s_in, open <- s_open,
    sent <- s_sent, processed <- s_processed, confirmed <- s_confirmed, result <- s_result

ASSUME BesidesAssumption == Miner!MiningAssumption /\ Sender!AddressesAssumption

-----------------------------------------------------------------------------

\* A miner that is alone on the chain and has kept track of its blocks never
\* has one refused; requests are served one at a time.
SoleMinerNeverRejected == Miner!TypeOK /\ Miner!SoleMinerNeverRejected

\* The result of a send tells what happened: our messages went out in order and
\* at most once each, a pong that ends the wait means that the node has the
\* transaction, and true is returned exactly if the last address tried was sent
\* it.
ResultMatchesSending ==
  /\ Sender!TypeOK /\ Sender!SentInOrder
  /\ Sender!ConfirmedMeansProcessed /\ Sender!ResultMatchesSending
=============================================================================
