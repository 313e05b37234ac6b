------------------------------- MODULE Mining -------------------------------
(***************************************************************************)
(* GenerateToAddress (src/lib/server/mining.rs) and the mining of a block  *)
(* (src/lib/block_producer/mine.rs).  A request mines its blocks one by    *)
(* one: it reads the validator's tip, fetches a template from the          *)
(* enforcer's own template server, builds the block on the validator's     *)
(* tip, submits it to the node, and polls the validator until it has       *)
(* connected the block or ten seconds have passed.                         *)
(*                                                                         *)
(* The node, the validator that follows it and the template server that    *)
(* follows the validator move on their own between those steps.  Block 1   *)
(* is the chain everyone starts on; a block is its path from there.        *)
(***************************************************************************)
EXTENDS Integers, Sequences

CONSTANTS Caller,
          MaxCount,      \* bound on the blocks of a request
          MaxBlocks,     \* bound on the blocks of all requests
          MaxOthers      \* bound on the blocks that other miners find

VARIABLES
  path,             \* the node's blocks: path[b] leads from the first one to b
  best,             \* the node's tip
  tip, info,        \* the validator's tip, and the blocks it has connected
  served,           \* the block the template server builds on
  permit,           \* holders of generate_blocks_semaphore
  job,              \* where each caller's request is
  others, lost, rejected          \* what has happened so far

node == <<path, best>>
validator == <<tip, info>>
history == <<others, lost, rejected>>
vars == <<node, validator, served, permit, job, history>>

MiningAssumption ==
  MaxCount \in Nat \ {0} /\ MaxBlocks \in Nat \ {0} /\ MaxOthers \in Nat

Blocks == DOMAIN path
Height(b) == Len(path[b])
OnChain(a, b) == \E i \in DOMAIN path[b] : path[b][i] = a
Idle == [pc |-> "idle", left |-> 0, tip |-> 0, block |-> 0]

-----------------------------------------------------------------------------
(* The node, the validator and the template server                         *)

\* The node stores a block and takes it as its tip if that has more work.
AddBlock(parent) ==
  LET b == Len(path) + 1
  IN  /\ path' = Append(path, Append(path[parent], b))
      /\ best' = IF Height(parent) + 1 > Height(best) THEN b ELSE best

OtherBlock ==
  /\ others < MaxOthers /\ others' = others + 1
  /\ \E parent \in Blocks : AddBlock(parent)
  /\ UNCHANGED <<validator, served, permit, job, lost, rejected>>

ValidatorMoves ==
  /\ tip # best
  /\ IF OnChain(tip, best)
     THEN tip' = path[best][Height(tip) + 1] /\ info' = info \cup {tip'}
     ELSE tip' = path[tip][Height(tip) - 1] /\ UNCHANGED info
  /\ UNCHANGED <<node, served, permit, job, history>>

ServerMoves ==
  /\ served # tip /\ served' = tip
  /\ UNCHANGED <<node, validator, permit, job, history>>

-----------------------------------------------------------------------------
(* generate_to_address                                                     *)

\* A request that fails returns its permit with the error.
Return(c) == job' = [job EXCEPT ![c] = Idle] /\ permit' = permit \ {c}

PermitFree == permit = {}

Request(c) ==
  /\ job[c].pc = "idle" /\ PermitFree
  /\ permit' = permit \cup {c}
  /\ \E n \in 1..MaxCount :
       /\ Len(path) - others + n <= MaxBlocks
       /\ job' = [job EXCEPT ![c].pc = "generate", ![c].left = n]
  /\ UNCHANGED <<node, validator, served, history>>

\* generate_block
ReadTip(c) ==
  /\ job[c].pc = "generate"
  /\ job' = [job EXCEPT ![c].pc = "template", ![c].tip = tip]
  /\ UNCHANGED <<node, validator, served, permit, history>>

\* select_block_txs: the template is refused if it is for another tip.
FetchTemplate(c) ==
  /\ job[c].pc = "template"
  /\ IF served = job[c].tip
     THEN job' = [job EXCEPT ![c].pc = "finalize"] /\ UNCHANGED permit
     ELSE Return(c)
  /\ UNCHANGED <<node, validator, served, history>>

\* finalize_block reads the validator's tip again and builds on it; the block
\* is then signed, ground and sent.
FinalizeBlock(c) ==
  /\ job[c].pc = "finalize"
  /\ job' = [job EXCEPT ![c].pc = "submit", ![c].block = tip]
  /\ UNCHANGED <<node, validator, served, permit, history>>

SubmitBlock(c) ==
  /\ job[c].pc = "submit"
  /\ AddBlock(job[c].block)
  /\ IF best' # best
     THEN /\ job' = [job EXCEPT ![c].pc = "await", ![c].block = Len(path')]
          /\ UNCHANGED <<permit, rejected>>
     ELSE Return(c) /\ rejected' = rejected + 1
  /\ UNCHANGED <<validator, served, others, lost>>

\* The node has the block, but its answer does not arrive.
SubmitAnswerLost(c) ==
  /\ job[c].pc = "submit"
  /\ AddBlock(job[c].block)
  /\ Return(c)
  /\ lost' = lost + 1
  /\ UNCHANGED <<validator, served, others, rejected>>

Generated(c) ==
  IF job[c].left = 1 THEN Return(c)
  ELSE /\ job' = [job EXCEPT ![c] = [Idle EXCEPT !.pc = "generate", !.left = job[c].left - 1]]
       /\ UNCHANGED permit

\* Mutant of PollInfo: the block counts as connected at once.
PollInfo_NoWait(c) ==
  /\ job[c].pc = "await"
  /\ Generated(c)
  /\ UNCHANGED <<node, validator, served, history>>

\* await_block_connection
PollInfo(c) ==
  /\ job[c].pc = "await" /\ job[c].block \in info
  /\ Generated(c)
  /\ UNCHANGED <<node, validator, served, history>>

PollTimesOut(c) ==
  /\ job[c].pc = "await" /\ job[c].block \notin info
  /\ Return(c)
  /\ lost' = lost + 1
  /\ UNCHANGED <<node, validator, served, others, rejected>>

\* A request to the template server, the node's wallet or the node fails.
RequestFails(c) ==
  /\ job[c].pc \in {"template", "submit"}
  /\ Return(c)
  /\ UNCHANGED <<node, validator, served, history>>

Init ==
  /\ path = <<<<1>>>> /\ best = 1 /\ tip = 1 /\ info = {1} /\ served = 1
  /\ permit = {} /\ job = [c \in Caller |-> Idle]
  /\ others = 0 /\ lost = 0 /\ rejected = 0

Step(c) ==
  \/ ReadTip(c) \/ FetchTemplate(c) \/ FinalizeBlock(c) \/ SubmitBlock(c)
  \/ SubmitAnswerLost(c) \/ PollInfo(c) \/ PollTimesOut(c) \/ RequestFails(c)

Next ==
  \/ OtherBlock \/ ValidatorMoves \/ ServerMoves
  \/ \E c \in Caller : Request(c) \/ Step(c)

Spec == Init /\ [][Next]_vars
FairSpec == Spec /\ \A c \in Caller : WF_vars(Step(c))

-----------------------------------------------------------------------------
(* Properties                                                              *)

\* Every tip is a block of the node, and only the permit's holder is at work.
TypeOK ==
  /\ {best, tip, served} \cup info \subseteq Blocks
  /\ permit = {c \in Caller : job[c].pc # "idle"} /\ \A c, d \in permit : c = d
  /\ \A c \in Caller : job[c].pc = "await" => job[c].block \in Blocks

\* A miner that is alone on the chain never has a block refused, because the
\* next block is not begun before the validator has the last one.  It must
\* not have lost track of a block: given up waiting, or missed the answer.
SoleMinerNeverRejected == others = 0 /\ lost = 0 => rejected = 0

\* A request ends, whatever becomes of its blocks.  The permit is then free,
\* so at some time after any other no request is under way.
RequestEnds == []<>(permit = {})
=============================================================================
