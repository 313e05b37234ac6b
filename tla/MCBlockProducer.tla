-------------------------- MODULE MCBlockProducer ---------------------------
(***************************************************************************)
(* What the block producer does, for TLC: the mempool library drives the   *)
(* enforcer and has the requests auctioned (CusfEnforcer), templates are   *)
(* built (BlockTemplate), and the operator's policies kept (PolicyDb).     *)
(* They share no state, so a behaviour runs one of them, `component`, and  *)
(* the others stay in an initial state.                                    *)
(***************************************************************************)
EXTENDS CusfEnforcer

VARIABLE component

-----------------------------------------------------------------------------
(* The enforcer: a fork g - a1, g - b1, where b1 is rejected, and three    *)
(* requests on g, two of them for one sidechain, and one on a1.            *)

ForkTree == [g |-> "none", a1 |-> "g", b1 |-> "g"]
ForkBlocks == DOMAIN ForkTree

BidPrev == [m1 |-> "g", m2 |-> "g", m3 |-> "g", m4 |-> "a1"]
BidSlot == [m1 |-> 0, m2 |-> 0, m3 |-> 1, m4 |-> 0]
BidFee == [m1 |-> 1, m2 |-> 2, m3 |-> 1, m4 |-> 1]

-----------------------------------------------------------------------------
(* Templates: slot 0 holds a sidechain with a treasury and a bundle m6a    *)
(* that is being voted on; slot 1 is free, with one proposal pending.      *)

CONSTANTS d1, d2, m6a, m6b, Txids

M1(s, d) == [type |-> "M1", slot |-> s, desc |-> d]
M2(s, d) == [type |-> "M2", slot |-> s, desc |-> d]
M3(s, m) == [type |-> "M3", slot |-> s, m6id |-> m]
M4(votes) == [type |-> "M4", version |-> "OneByte", upvotes |-> votes]

DepositTx(s, v) ==
  [ins |-> {}, other |-> TRUE, shifted |-> FALSE, payout |-> m6a, m8 |-> {},
   outs |-> << [slot |-> s, value |-> v, addr |-> TRUE] >>]

Mainchain ==
  << [msgs |-> << M1(0, d1) >>, txs |-> <<>>],
     [msgs |-> << M2(0, d1) >>, txs |-> << DepositTx(0, 2) >>],
     [msgs |-> << M1(1, d1), M3(0, m6a) >>, txs |-> <<>>],
     [msgs |-> << M4(<<0>>) >>, txs |-> <<>>] >>

Only(m) == [msgs |-> <<m>>, txs |-> <<>>]

OtherBlocks ==
  {Only(M2(1, d1)), Only(M3(0, m6b)), [msgs |-> << M4(<<0>>) >>, txs |-> << DepositTx(1, 1) >>]}

Deposits01 == {DepositTx(0, 1), DepositTx(1, 1)}

Values == [m \in {m6a, m6b} |-> IF m = m6a THEN 3 ELSE 4]

Settings ==
  {[ack_policy |-> "None", acks |-> {<<1, d2>>}, bundle_policy |-> "Known",
    bundle_acks |-> {}, queued |-> {}, bundles |-> {<<0, m6a>>}],
   [ack_policy |-> "All", acks |-> {}, bundle_policy |-> "All",
    bundle_acks |-> {<<0, m6b>>}, queued |-> {<<1, d2>>, <<0, d2>>},
    bundles |-> {<<0, m6a>>, <<0, m6b>>, <<1, m6a>>}],
   [ack_policy |-> "NewSlots", acks |-> {}, bundle_policy |-> "Alarm",
    bundle_acks |-> {}, queued |-> {<<0, d2>>}, bundles |-> {<<0, m6a>>, <<1, m6b>>}]}

VARIABLES b_chain, b_pc, b_template, b_moves

builder == <<b_chain, b_pc, b_template, b_moves>>

Builder ==
  INSTANCE BlockTemplate WITH
    Slot <- {0, 1}, Description <- {d1, d2}, M6id <- {m6a, m6b}, Txid <- Txids,
    WithdrawalBundleMaxAge <- 3, WithdrawalBundleInclusionThreshold <- 2,
    UnusedSlotProposalMaxAge <- 3, UnusedSlotActivationThreshold <- 0,
    U16Max <- 65535, LeadingBy50Margin <- 50, BundleValue <- Values,
    ActivationHeight <- 0, Past <- Mainchain, OtherBlock <- OtherBlocks,
    Policy <- Settings, Deposit <- Deposits01,
    MaxChain <- 6, MaxPrefix <- 2, MaxMoves <- 1,
    chain <- b_chain, pc <- b_pc, template <- b_template, moves <- b_moves

-----------------------------------------------------------------------------
(* Policies, on the tree                                                   *)
(*                                                                         *)
(*     g - a1 - a2 - a3                                                    *)
(*       \    \ c2                                                         *)
(*         b1 - b2                                                         *)
(*                                                                         *)
(* where blocks on each branch mine the proposal and settle the bundle.    *)

PolicyTree ==
  [g |-> "none", a1 |-> "g", a2 |-> "a1", a3 |-> "a2",
   c2 |-> "a1", b1 |-> "g", b2 |-> "b1"]

Messages ==
  [x \in DOMAIN PolicyTree |->
     [m1 |-> x \in {"a2", "b2"},
      settles |-> IF x \in {"b2", "c2"} THEN "failed"
                  ELSE IF x = "a3" THEN "succeeded" ELSE "no"]]

VARIABLES p_tip, p_header, p_policy_tip, p_proposal, p_bundle, p_wipes

policies == <<p_tip, p_header, p_policy_tip, p_proposal, p_bundle, p_wipes>>

Policies ==
  INSTANCE PolicyDb WITH
    Block <- DOMAIN PolicyTree, NoBlock <- "none", Parent <- PolicyTree,
    Message <- Messages, ActivationHeight <- 1, MaxWipes <- 1,
    tip <- p_tip, header <- p_header, policy_tip <- p_policy_tip,
    proposal <- p_proposal, bundle <- p_bundle, wipes <- p_wipes

ASSUME Builder!PolicyAssumption /\ Policies!MessageAssumption

-----------------------------------------------------------------------------

MCInit ==
  /\ component \in {"enforcer", "template", "policies"}
  /\ Init /\ Builder!Init /\ Policies!Init
  /\ component # "policies" =>
       p_tip = "none" /\ p_proposal = Policies!NoRow /\ p_bundle = Policies!NoRow

MCNext ==
  \/ component = "enforcer" /\ Next /\ UNCHANGED <<component, builder, policies>>
  \/ component = "template" /\ Builder!Next /\ UNCHANGED <<component, vars, policies>>
  \/ component = "policies" /\ Policies!Next /\ UNCHANGED <<component, vars, builder>>

MCSpec == MCInit /\ [][MCNext]_<<component, vars, builder, policies>>

\* A template that was built on the tip, with the messages, payouts and
\* consolidations the policies ask for, connects.
BuiltTemplateConnects ==
  component = "template" => Builder!TypeOK /\ Builder!TemplateConnects

\* Building a template fails only if the chain moved meanwhile.
StableBuildSucceeds == component = "template" => Builder!StableBuildSucceeds

\* On a tip that stays, every bundle of ours that was approved and can be paid
\* is paid.
ApprovedBundlesPaid == component = "template" => Builder!ApprovedBundlesPaid

\* The marks of the operator's proposal and bundle are those a rebuild from the
\* chain up to the cursor would give, and never name a block that was on the
\* chain when the row was queued.
MarksInLineWithChain ==
  component = "policies" =>
    Policies!TypeOK /\ Policies!MarksInLineWithChain /\ Policies!QueuedPastTheChain
=============================================================================
