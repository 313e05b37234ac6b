------------------------------ MODULE PolicyDb ------------------------------
(***************************************************************************)
(* The block producer's policy tables (src/lib/block_producer/db.rs): the  *)
(* operator's own sidechain proposals and withdrawal bundles, each marked  *)
(* with the block that mined or settled it.  The marks are brought in line *)
(* with the validator's chain lazily, from the policy_tip cursor, by every *)
(* transaction that touches the tables (reconciled, reconcile), with the   *)
(* difference that chain_diff of src/lib/validator/mod.rs returns.         *)
(*                                                                         *)
(* Rows do not affect one another, so there is one proposal and one        *)
(* bundle.  Message[b] is what block b says of them.                       *)
(***************************************************************************)
EXTENDS BlockTree, FiniteSets, FiniteSetsExt

CONSTANTS Message,            \* what each block says: [m1, settles]
          ActivationHeight,
          MaxWipes            \* bound on deletions of the validator's database

VARIABLES
  tip, header,       \* the validator's tip and header store
  policy_tip,        \* the cursor, NoBlock when NULL
  proposal, bundle,  \* the rows, NoRow when absent
  wipes

chain == <<tip, header>>
vars == <<chain, policy_tip, proposal, bundle, wipes>>

Null == -1
NoRow == [mark |-> NoBlock, paid_out |-> "null", queued_at |-> Null, present |-> FALSE,
          before |-> {}]

MessageAssumption ==
  /\ Message \in [Block -> [m1 : BOOLEAN, settles : {"no", "failed", "succeeded"}]]
  /\ \A b \in Block : Height(b) < ActivationHeight =>
       ~Message[b].m1 /\ Message[b].settles = "no"

-----------------------------------------------------------------------------
(* chain_diff and reconcile                                                *)

Usable == policy_tip \in header

\* Mutant of Disconnected: reorganisations are not noticed.
Disconnected_None == {}

Disconnected == IF Usable THEN Ancestors[policy_tip] \ Ancestors[tip] ELSE {}
Connected ==
  IF Usable THEN Ancestors[tip] \ Ancestors[policy_tip]
  ELSE {b \in Ancestors[tip] \ {NoBlock} : Height(b) >= ActivationHeight}

AboveQueue(row, b) == row.queued_at = Null \/ row.queued_at < Height(b)

Unmarked(row) == [row EXCEPT !.mark = NoBlock, !.paid_out = "null"]

\* Take away the marks of disconnected blocks, then take those of the
\* connected ones in order: the last one stays.
Reconciled(row, marks, paid_out) ==
  LET kept == IF ~Usable \/ row.mark \in Disconnected THEN Unmarked(row) ELSE row
      marking == {b \in Connected \cap marks : AboveQueue(row, b)}
      last == CHOOSE b \in marking : \A c \in marking : Height(c) <= Height(b)
  IN  IF ~row.present \/ marking = {} THEN kept
      ELSE [kept EXCEPT !.mark = last, !.paid_out = paid_out[last]]

MarksProposal == {b \in Block : Message[b].m1}
MarksBundle == {b \in Block : Message[b].settles # "no"}
BundlePaidOut ==
  [b \in MarksBundle |-> IF Message[b].settles = "succeeded" THEN "true" ELSE "false"]
NeverPaidOut == [b \in MarksProposal |-> "null"]

\* Nothing happens while the validator has no tip.
ReconciledProposal ==
  IF tip \in {NoBlock, policy_tip} THEN proposal
  ELSE Reconciled(proposal, MarksProposal, NeverPaidOut)
ReconciledBundle ==
  IF tip \in {NoBlock, policy_tip} THEN bundle
  ELSE Reconciled(bundle, MarksBundle, BundlePaidOut)
ReconciledTip == IF tip = NoBlock THEN policy_tip ELSE tip

\* A row queued now, at the height of the tip.
Queued ==
  [NoRow EXCEPT !.present = TRUE, !.queued_at = IF tip = NoBlock THEN Null ELSE Height(tip),
                !.before = Ancestors[tip] \ {NoBlock}]

-----------------------------------------------------------------------------
(* The operator and the template builder                                   *)

\* get_our_sidechain_proposals, get_bundle_proposals: reconcile and read.
ReadPolicies ==
  /\ proposal' = ReconciledProposal /\ bundle' = ReconciledBundle
  /\ policy_tip' = ReconciledTip
  /\ UNCHANGED <<chain, wipes>>

\* A mined proposal is queued again; for one that is still pending the UNIQUE
\* constraint fails and the whole transaction is rolled back.
propose_sidechain ==
  /\ ~ReconciledProposal.present \/ ReconciledProposal.mark # NoBlock
  /\ proposal' = Queued
  /\ bundle' = ReconciledBundle /\ policy_tip' = ReconciledTip
  /\ UNCHANGED <<chain, wipes>>

\* Any bundle but one that was paid out is queued, again if need be.
put_withdrawal_bundle ==
  /\ ReconciledBundle.paid_out # "true"
  /\ bundle' = Queued
  /\ proposal' = ReconciledProposal /\ policy_tip' = ReconciledTip
  /\ UNCHANGED <<chain, wipes>>

\* Rows of a database without a cursor are pending as of the tip.
StartedRow(row) ==
  IF row.present /\ row.queued_at = Null
    THEN [row EXCEPT !.queued_at = Height(tip), !.before = Ancestors[tip] \ {NoBlock}]
    ELSE row

start_cursor ==
  /\ policy_tip = NoBlock /\ tip # NoBlock
  /\ policy_tip' = tip
  /\ proposal' = StartedRow(proposal) /\ bundle' = StartedRow(bundle)
  /\ UNCHANGED <<chain, wipes>>

-----------------------------------------------------------------------------
(* The validator                                                           *)

ConnectBlock ==
  \E b \in Block :
    /\ Parent[b] = tip /\ tip' = b /\ header' = header \cup {b}
    /\ UNCHANGED <<policy_tip, proposal, bundle, wipes>>

\* Header sync stores the headers of a chain ahead of its blocks.
SyncHeaders ==
  \E b \in Block :
    /\ header' = header \cup (Ancestors[b] \ {NoBlock})
    /\ UNCHANGED <<tip, policy_tip, proposal, bundle, wipes>>

DisconnectBlock ==
  /\ tip # NoBlock /\ tip' = Parent[tip]
  /\ UNCHANGED <<header, policy_tip, proposal, bundle, wipes>>

\* The validator's database is deleted and synced again from nothing.
Wipe ==
  /\ wipes < MaxWipes /\ wipes' = wipes + 1
  /\ tip' = NoBlock /\ header' = {}
  /\ UNCHANGED <<policy_tip, proposal, bundle>>

\* A fresh database, or one from before the cursor that may have rows, with
\* the validator at any block.
Init ==
  /\ tip \in Block \cup {NoBlock} /\ header = Ancestors[tip] \ {NoBlock}
  /\ policy_tip = NoBlock
  /\ proposal \in {NoRow, [NoRow EXCEPT !.present = TRUE]}
  /\ bundle \in {NoRow, [NoRow EXCEPT !.present = TRUE]}
  /\ wipes = 0

Next ==
  \/ ReadPolicies \/ propose_sidechain \/ put_withdrawal_bundle \/ start_cursor
  \/ ConnectBlock \/ SyncHeaders \/ DisconnectBlock \/ Wipe

Spec == Init /\ [][Next]_vars

-----------------------------------------------------------------------------
(* Properties                                                              *)

\* Rows are marked with blocks, and only a marked bundle is paid out or not.
TypeOK ==
  /\ tip \in Block \cup {NoBlock} /\ header \subseteq Block
  /\ policy_tip \in Block \cup {NoBlock} /\ wipes \in 0..MaxWipes
  /\ \A row \in {proposal, bundle} :
       /\ row.mark \in Block \cup {NoBlock} /\ row.paid_out \in {"null", "true", "false"}
       /\ row.mark = NoBlock => row.paid_out = "null"
       /\ row.queued_at \in Int /\ row.present \in BOOLEAN /\ row.before \subseteq Block

\* The mark a rebuild from the whole chain up to the cursor would give.
Rebuilt(row, marks) ==
  LET marking == {b \in Ancestors[policy_tip] \cap marks : AboveQueue(row, b)}
  IN  IF ~row.present \/ marking = {} THEN NoBlock
      ELSE CHOOSE b \in marking : \A c \in marking : Height(c) <= Height(b)

InLine(row, marks) ==
  IF row.queued_at # Null THEN row.mark = Rebuilt(row, marks)
  ELSE row.mark # NoBlock => row.mark \in Ancestors[policy_tip] \cap marks

\* The marks are in line with the chain up to the cursor, however the
\* validator's chain was reorganised, or synced anew, between two
\* transactions: what incremental reconciliation leaves is what a rebuild
\* gives (the comment on reconcile).  Of a row that was queued while the
\* validator had no tip only this is said: a mark names a block of the chain
\* that carries the message.
MarksInLineWithChain ==
  /\ InLine(proposal, MarksProposal) /\ InLine(bundle, MarksBundle)
  /\ bundle.mark # NoBlock => bundle.paid_out = BundlePaidOut[bundle.mark]

\* Queueing a proposal or bundle means past whatever is on the chain already:
\* a block that was on the chain then never marks it (the comment on
\* reconcile).
QueuedPastTheChain == \A row \in {proposal, bundle} : row.mark \notin row.before
=============================================================================
