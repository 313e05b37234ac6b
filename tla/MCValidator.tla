---------------------------- MODULE MCValidator -----------------------------
(***************************************************************************)
(* Instances of Validator for TLC: the messages and transactions of the    *)
(* runs, each of which explores one part of the protocol in depth.         *)
(***************************************************************************)
EXTENDS ChainRefinement, ChainHistory

\* Every proposal and every ack of every description.
ProposalMessages ==
  M1Message \cup M2Message

\* Sidechains are activated and replaced while bundles are voted on.
ReorgMessages ==
  ProposalMessages \cup M3Message
  \cup [type : {"M4"}, version : {"OneByte"}, upvotes : {<<0>>}]
  \cup [type : {"M4"}, version : {"RepeatPrevious"}]

\* Bundles are proposed and voted on in every M4 encoding, once one sidechain
\* has been activated.
CONSTANTS Vote   \* explicit votes used, in one-byte form

TwoByteVotes == {AbstainTwoBytes, AlarmTwoBytes, 0}

ExplicitVotes(n) ==
  [type : {"M4"}, version : {"OneByte"}, upvotes : [1..n -> Vote]]
  \cup [type : {"M4"}, version : {"TwoBytes"}, upvotes : [1..n -> TwoByteVotes]]

BundleMessages ==
  M3Message
  \cup [type : {"M4"}, version : {"RepeatPrevious", "LeadingBy50"}]
  \cup ExplicitVotes(1)

(***************************************************************************)
(* Deposits and consolidations with an address, withdrawals and            *)
(* consolidations without one, a withdrawal whose treasury output is not   *)
(* the first, and BMM requests.                                            *)
(***************************************************************************)
CONSTANTS Value   \* values of treasury outputs

TreasuryMessages ==
  M3Message \cup [type : {"M4"}, version : {"OneByte"}, upvotes : {<<0>>}]
  \cup [type : {"M7"}, slot : Slot, hash : {"h1"}]

Transfers ==
  [other : BOOLEAN, shifted : BOOLEAN, payout : M6id, m8 : {{}},
   outs : {<<out>> : out \in [slot : Slot, value : Value, addr : BOOLEAN]}]

BmmRequests ==
  [other : {TRUE}, shifted : {FALSE}, payout : M6id, outs : {<<>>},
   m8 : {{r} : r \in [slot : Slot, hash : {"h1"}, prev : {"parent", "other"}]}]

TreasuryShapes ==
  {t \in Transfers : t.other = t.outs[1].addr /\ (t.shifted => ~t.other)}
  \cup BmmRequests

\* Transactions with treasury outputs of two sidechains as well; only the
\* first sidechain has bundles.
TwoSlotMessages ==
  {m \in M3Message : m.slot = 0}
  \cup [type : {"M4"}, version : {"OneByte"}, upvotes : {<<0, AbstainOneByte>>}]

TwoSlotShapes ==
  LET out == [slot : Slot, value : Value, addr : BOOLEAN]
  IN  {t \in [other : BOOLEAN, shifted : {FALSE}, payout : M6id, m8 : {{}},
              outs : {<<o>> : o \in out}
                     \cup {<<o, p>> : o \in {q \in out : q.slot = 0},
                                     p \in {q \in out : q.value = 1}}] :
         \A i \in DOMAIN t.outs : t.outs[i].addr = t.other}

NoBundleValue == [m \in M6id |-> 1]

(***************************************************************************)
(* The runs about bundles and treasuries start where every slot holds a    *)
(* sidechain that one ack activated: block k proposes the k-th slot and    *)
(* block k + 1 acks it (the activation threshold for a free slot is 0      *)
(* there).  The diffs of those blocks are forgotten.                       *)
(***************************************************************************)
ActiveSidechain(k) ==
  [desc |-> CHOOSE d \in Description : TRUE, vote_count |-> 1,
   proposal_height |-> k, activation_height |-> k + 1]

ActivatedDbs ==
  [EmptyDbs EXCEPT
     !.sidechain = [s \in Slot |-> ActiveSidechain(Cardinality({t \in Slot : t < s}))],
     !.pending_m6ids = [s \in Slot |-> <<>>]]

ActivatedInit ==
  /\ phase = "idle"
  /\ tip = Cardinality(Slot)
  /\ dbs = ActivatedDbs
  /\ utxos = {}
  /\ cur = <<>>
  /\ blk = EmptyBlk
  /\ stored = EmptyMap
  /\ saved = [dbs |-> ActivatedDbs, utxos |-> {}]

ActivatedSpec == ActivatedInit /\ [][Next]_vars
=============================================================================
