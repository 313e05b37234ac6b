----------------------------- MODULE ChainSync -----------------------------
(***************************************************************************)
(* How the validator follows the node's active chain: header sync, block   *)
(* sync, and the live handling of connected and disconnected blocks        *)
(* (src/lib/validator/task/mod.rs, dbs/block_hashes.rs, cusf_enforcer.rs). *)
(*                                                                         *)
(* A block is an element of a fixed tree: Parent gives its prev_blockhash, *)
(* NoBlock is the all-zeros hash, and Rejected is the set of blocks that   *)
(* connect_block rejects on top of their parent (the modules Validator and *)
(* BlockHandler say which).  Every await is a step boundary: the node may  *)
(* change its active chain between two requests, and the process may stop. *)
(* The node, its notification stream and the loop that drives the enforcer *)
(* are not part of this repository; their actions are marked external.     *)
(***************************************************************************)
EXTENDS BlockTree, FiniteSets, FiniteSetsExt

CONSTANTS Rejected,            \* blocks connect_block rejects on their parent
          ActivationHeight,    \* bip300_activation_height
          HEADER_FETCH_BATCH_SIZE,
          BLOCK_FETCH_BATCH_SIZE,
          PRE_ACTIVATION_BATCH_SIZE,
          SnapshotHeight,      \* height of the assumeutxo snapshot base, -1: none
          MaxStops             \* bound on process stops

VARIABLES
  \* the node (external)
  active,        \* tip of the node's active chain
  invalidated,   \* blocks on which invalidateblock was called
  background,    \* height of the background chainstate, -1: none
  notifications, \* block connected / disconnected messages not yet handled
  \* the enforcer's database
  header, height, \* the header DB's keys, the height DB
  info,           \* keys of the DBs put_block_info writes
  tip,            \* current_chain_tip, NoBlock when absent
  \* the running process
  pc, rest,       \* rest: the REST interface is configured
  sync,           \* the local variables of sync_headers and sync_blocks
  failure,        \* why the last sync ended, if it failed
  stops,
  \* an event subscriber that follows the events from the tip it started at
  view

node == <<active, invalidated, background>>
db == <<header, height, info, tip>>
vars == <<node, notifications, db, pc, rest, sync, failure, stops, view>>

NodeBlockAt(h) == ChainTo(active)[h + 1]    \* getblockhash(h)

ASSUME RejectedAssumption == Rejected \subseteq Block

ASSUME BatchAssumption ==
  /\ HEADER_FETCH_BATCH_SIZE \in Nat \ {0, 1}
  /\ BLOCK_FETCH_BATCH_SIZE \in Nat \ {0}
  /\ PRE_ACTIVATION_BATCH_SIZE \in Nat \ {0}

-----------------------------------------------------------------------------
(* The header store                                                        *)

\* Headers hs[1], hs[2], ... at heights from, from + 1, ...; each also writes
\* the height of its parent.
HeightsWith(hs, from) ==
  LET written == (Range(hs) \cup {Parent[b] : b \in Range(hs)}) \ {NoBlock}
      new[b \in written] ==
        IF \E i \in 1..Len(hs) : hs[i] = b
          THEN from + (CHOOSE i \in 1..Len(hs) : hs[i] = b) - 1
          ELSE from + (CHOOSE i \in 1..Len(hs) : Parent[hs[i]] = b) - 2
  IN  [b \in DOMAIN height \cup written |->
         IF b \in written THEN new[b] ELSE height[b]]

put_headers(hs, from) ==
  /\ header' = header \cup Range(hs)
  /\ height' = HeightsWith(hs, from)

\* The stored headers from b towards genesis, newest first.
ancestor_headers(b) ==
  LET walk[x \in header] ==
        IF Parent[x] \in header THEN <<x>> \o walk[Parent[x]] ELSE <<x>>
  IN  IF b \in header THEN walk[b] ELSE <<>>

MissingAncestor == "MissingAncestor"

last_common_ancestor(x, y) ==
  LET m == Min({height[x], height[y]})
      below(b) == LET hs == ancestor_headers(b)
                  IN  SubSeq(hs, height[b] - m + 1, Len(hs))
      xs == below(x)
      ys == below(y)
      common == {i \in 1..(m + 1) :
                   i <= Len(xs) /\ i <= Len(ys) /\ xs[i] = ys[i]}
  IN  IF x = y THEN x
      ELSE IF NoBlock \in {x, y} THEN NoBlock
      ELSE IF common # {} THEN xs[Min(common)]
      ELSE IF Len(xs) <= m \/ Len(ys) <= m THEN MissingAncestor
      ELSE NoBlock

-----------------------------------------------------------------------------
(* Connecting and disconnecting                                            *)

\* connect_block of b on the tip t with the infos is: the parent is the tip,
\* put_block_info finds the parent's cumulative work, the handlers accept.
Connects(b, t, is) ==
  /\ Parent[b] = t
  /\ Parent[b] = NoBlock \/ Parent[b] \in is
  /\ b \notin Rejected

\* How many blocks of bs connect in order from the tip.
ConnectedPrefix(bs) ==
  LET onTip(i) == IF i = 1 THEN tip ELSE bs[i - 1]
      infos(i) == info \cup {bs[j] : j \in 1..(i - 1)}
      ok(i) == \A j \in 1..i : Connects(bs[j], onTip(j), infos(j))
  IN  Max({0} \cup {i \in 1..Len(bs) : ok(i)})

\* Mutants of RecordBlocks: only the last event is sent, or the tip is not
\* moved.
RecordBlocks_LastEvent(bs) ==
  /\ info' = info \cup Range(bs)
  /\ tip' = IF bs = <<>> THEN tip ELSE Last(bs)
  /\ view' = IF bs # <<>> /\ Parent[Last(bs)] = view THEN Last(bs) ELSE view

RecordBlocks_KeepsTip(bs) ==
  /\ info' = info \cup Range(bs)
  /\ view' = IF bs # <<>> /\ Parent[bs[1]] = view THEN Last(bs) ELSE view
  /\ UNCHANGED tip

\* Record the blocks bs, committed together, then broadcast their events.
RecordBlocks(bs) ==
  /\ info' = info \cup Range(bs)
  /\ tip' = IF bs = <<>> THEN tip ELSE Last(bs)
  /\ view' = IF bs # <<>> /\ Parent[bs[1]] = view THEN Last(bs) ELSE view

\* Mutant of DisconnectTo: nothing is disconnected.
DisconnectTo_KeepsTip(to) == UNCHANGED <<tip, view>>

\* Disconnect from the tip to its ancestor to; every diff is stored.
DisconnectTo(to) ==
  /\ tip' = to
  /\ view' = IF view = tip THEN to ELSE view

-----------------------------------------------------------------------------
(* Header sync                                                             *)

NoAncestor == [hash |-> NoBlock, height |-> -1]

NoSync ==
  [main_tip |-> NoBlock, best |-> NoAncestor, oldest |-> 0, current |-> NoAncestor,
   hashes |-> <<>>, missing |-> <<>>, gap |-> -1]

main_tip == sync.main_tip
best == sync.best
oldest == sync.oldest
current == sync.current
hashes == sync.hashes
missing == sync.missing
gap == sync.gap

Goto(label) == pc' = label /\ UNCHANGED failure

\* The sync ended with an error that a fresh sync is not tried for
\* (enforcer_task_is_resyncable): the process ends.
Fail(reason) == pc' = "down" /\ failure' = reason

\* What the steps of a sync leave alone.
Outside == <<node, notifications, rest, stops>>

\* sync_to_tip is called with the node's tip; an already known tip needs no
\* header sync.
StartSync ==
  /\ pc = "start"
  /\ sync' = [NoSync EXCEPT !.main_tip = active, !.oldest = Height(active)]
  /\ Goto(IF active \in header THEN "disconnect" ELSE "search")
  /\ UNCHANGED <<Outside, db, view>>

\* One round of the binary search of fetch_best_ancestor.  getblockhash
\* answers from the chain that is active now.
FetchBestAncestor ==
  LET midpoint == (oldest + Max({0, best.height})) \div 2
      done == midpoint \in {best.height, oldest}
      b == NodeBlockAt(midpoint)
      start == IF best = NoAncestor
                 THEN [hash |-> NodeBlockAt(0), height |-> 0] ELSE best
  IN  /\ pc = "search"
      /\ sync' =
           IF done THEN [sync EXCEPT !.current = start]
           ELSE IF b \in header
             THEN [sync EXCEPT !.best = [hash |-> b, height |-> midpoint]]
             ELSE [sync EXCEPT !.oldest = midpoint]
      /\ Goto(IF done THEN "fetch_headers" ELSE "search")
      /\ UNCHANGED <<Outside, db, view>>

HeaderBatchSize == Min({HEADER_FETCH_BATCH_SIZE, Height(main_tip) - current.height + 1})

\* Store a fetched batch and move on: to the blocks at the main tip, to the
\* next batch below its height, to an error at its height on another branch.
StoreHeaders(hs) ==
  LET last == [hash |-> Last(hs), height |-> current.height + Len(hs) - 1]
  IN  /\ put_headers(hs, current.height)
      /\ sync' = [sync EXCEPT !.current = last, !.hashes = <<>>]
      /\ IF last.hash = main_tip THEN Goto("disconnect")
         ELSE IF last.height = Height(main_tip) THEN Fail("BlockNotInActiveChain")
         ELSE Goto("fetch_headers")

FailHeaders == Fail("BlockNotInActiveChain") /\ UNCHANGED <<header, height, sync>>

\* The REST interface answers a batch from one chain, and with nothing for a
\* block that is not on it.
FetchHeadersRest ==
  LET chain == ChainTo(active)
      to == Min({current.height + HeaderBatchSize, Len(chain)})
  IN  /\ pc = "fetch_headers" /\ rest
      /\ IF OnChain(current.hash, active)
           THEN StoreHeaders(SubSeq(chain, current.height + 1, to)) ELSE FailHeaders
      /\ UNCHANGED <<Outside, info, tip, view>>

\* Over JSON-RPC each getblockhash of the batch is answered separately.
FetchHashRpc ==
  /\ pc = "fetch_headers" /\ ~rest /\ Len(hashes) < HeaderBatchSize
  /\ sync' = [sync EXCEPT !.hashes =
                Append(hashes, NodeBlockAt(current.height + Len(hashes)))]
  /\ UNCHANGED <<Outside, db, pc, failure, view>>

\* Mutant of ValidHeaderBatch: only the first header is checked.
ValidHeaderBatch_FirstOnly(hs) == hs[1] = current.hash

ValidHeaderBatch(hs) ==
  /\ hs[1] = current.hash
  /\ \A i \in 2..Len(hs) : Parent[hs[i]] = hs[i - 1]

\* The headers of these hashes are requested by hash, so the node still
\* answers; validate_rpc_header_batch checks that they form one chain.
FetchHeadersRpc ==
  /\ pc = "fetch_headers" /\ ~rest /\ Len(hashes) = HeaderBatchSize
  /\ IF ValidHeaderBatch(hashes) THEN StoreHeaders(hashes) ELSE FailHeaders
  /\ UNCHANGED <<Outside, info, tip, view>>

-----------------------------------------------------------------------------
(* Block sync                                                              *)

\* Disconnect to the last common ancestor in one write transaction, then list
\* the blocks from there to the main tip.
DisconnectToFork ==
  LET fork == last_common_ancestor(tip, main_tip)
      path == {b \in Block : OnChain(b, tip) /\ ~OnChain(b, fork)}
      chain == ancestor_headers(main_tip)
      below == {i \in 1..Len(chain) : chain[i] = fork}
      above == IF below = {} THEN chain ELSE SubSeq(chain, 1, Min(below) - 1)
  IN  /\ pc = "disconnect"
      /\ IF fork = MissingAncestor
           THEN Fail("MissingAncestor") /\ UNCHANGED <<tip, view, sync>>
           ELSE /\ path \subseteq info   \* a missing diff would loop forever
                /\ DisconnectTo(fork)
                /\ sync' = [sync EXCEPT !.missing = Reverse(above)]
                /\ Goto(IF above = <<>> THEN "synced" ELSE "pre_activation")
      /\ UNCHANGED <<Outside, header, height, info>>

\* Blocks below the activation height are recorded from their headers.
ConnectPreActivation ==
  LET below == {i \in 1..Min({PRE_ACTIVATION_BATCH_SIZE, Len(missing)}) :
                  \A j \in 1..i : height[missing[j]] < ActivationHeight}
      n == Max({0} \cup below)
  IN  /\ pc = "pre_activation"
      /\ IF n = 0 THEN Goto("gap") /\ UNCHANGED <<info, tip, sync, view>>
         ELSE IF Parent[missing[1]] # tip
           THEN Fail("BlockParent") /\ UNCHANGED <<info, tip, sync, view>>
         ELSE /\ RecordBlocks(SubSeq(missing, 1, n))
              /\ sync' = [sync EXCEPT !.missing = SubSeq(missing, n + 1, Len(missing))]
              /\ UNCHANGED <<pc, failure>>
      /\ UNCHANGED <<Outside, header, height>>

\* block_data_gap, read once before the loop over the batches.
QueryGap ==
  /\ pc = "gap"
  /\ sync' = [sync EXCEPT !.gap = background]
  /\ Goto(IF missing = <<>> THEN "synced" ELSE "fetch_blocks")
  /\ UNCHANGED <<Outside, db, view>>

InGap(background_height, h) ==
  background_height # -1 /\ background_height < h /\ h <= SnapshotHeight

NextHeight == Height(main_tip) + 1 - Len(missing)

\* Mutant of WaitForBackground: the gap is not asked for again.
WaitForBackground_KeepsGap ==
  /\ pc = "fetch_blocks" /\ InGap(gap, NextHeight)
  /\ UNCHANGED <<Outside, db, pc, failure, view, sync>>

\* The next block has no data yet: sleep, then ask for the gap again.
WaitForBackground ==
  /\ pc = "fetch_blocks" /\ InGap(gap, NextHeight)
  /\ sync' = [sync EXCEPT !.gap = background]
  /\ UNCHANGED <<Outside, db, pc, failure, view>>

BlockBatchSize ==
  IF gap # -1 /\ NextHeight <= gap
    THEN Min({BLOCK_FETCH_BATCH_SIZE, gap - NextHeight + 1}) ELSE BLOCK_FETCH_BATCH_SIZE

\* fetch_blocks_batch fails if the node lacks the body of one block.
Unreadable(bs) == \E b \in Range(bs) : InGap(background, Height(b))

\* Fetch a batch of bodies and connect it in one write transaction.  A body
\* the node cannot read fails the batch ("Block not found on disk"), which a
\* fresh sync is tried for; a rejected block ends the sync, the blocks before
\* it stay connected.
FetchBlocks ==
  LET n == Min({BlockBatchSize, Len(missing)})
      batch == SubSeq(missing, 1, n)
      k == ConnectedPrefix(batch)
  IN  /\ pc = "fetch_blocks" /\ ~InGap(gap, NextHeight)
      /\ IF Unreadable(batch)
           THEN /\ pc' = "start" /\ failure' = "BlockNotOnDisk"
                /\ UNCHANGED <<info, tip, sync, view>>
           ELSE /\ RecordBlocks(SubSeq(batch, 1, k))
                /\ sync' = [sync EXCEPT !.missing = SubSeq(missing, k + 1, Len(missing))]
                /\ Goto(IF k < n THEN "invalid"
                        ELSE IF n = Len(missing) THEN "synced" ELSE "fetch_blocks")
      /\ UNCHANGED <<Outside, header, height>>

-----------------------------------------------------------------------------
(* The node and the loop that drives the enforcer (external)               *)

Invalid(b, bad) == \E a \in bad : OnChain(a, b)

\* A message for every block the node leaves, newest first, and for every
\* block it joins.
Moves(from, to) ==
  LET left == SelectSeq(ChainTo(from), LAMBDA b : ~OnChain(b, to))
      joined == SelectSeq(ChainTo(to), LAMBDA b : ~OnChain(b, from))
  IN  [i \in 1..Len(left) |-> [kind |-> "D", block |-> Reverse(left)[i]]]
      \o [i \in 1..Len(joined) |-> [kind |-> "C", block |-> joined[i]]]

\* Messages of a move matter once the live task consumes the stream; a sync
\* that is running reads the chain itself.
Notify(ms, to) ==
  notifications' = IF pc = "live" THEN ms \o Moves(active, to) ELSE <<>>

\* The node finds a chain with more work.
NodeReorg ==
  \E t \in Block :
    /\ Height(t) > Height(active) /\ ~Invalid(t, invalidated)
    /\ active' = t
    /\ Notify(notifications, t)
    /\ UNCHANGED <<invalidated, background, db, pc, rest, sync, failure, stops, view>>

\* The node validates one more block below its assumeutxo snapshot.
BackgroundValidate ==
  /\ background # -1
  /\ background' = IF background + 1 >= SnapshotHeight THEN -1 ELSE background + 1
  /\ UNCHANGED <<active, invalidated, notifications, db, pc, rest, sync, failure,
                 stops, view>>

\* invalidateblock(b): the node leaves every chain through b, for the best one
\* it knows.
InvalidateBlock(b, ms) ==
  /\ invalidated' = invalidated \cup {b}
  /\ IF ~OnChain(b, active)
       THEN notifications' = ms /\ UNCHANGED active
       ELSE \E t \in Block :
              /\ ~Invalid(t, invalidated \cup {b})
              /\ Height(t) >= Height(b) - 1
              /\ active' = t
              /\ Notify(ms, t)

\* sync_to_tip returned InvalidBlock.
SyncInvalid ==
  /\ pc = "invalid"
  /\ InvalidateBlock(missing[1], notifications)
  /\ Goto("start") /\ sync' = NoSync
  /\ UNCHANGED <<background, db, rest, stops, view>>

\* sync_to_tip returned Ok: go live on the synced tip, or sync again.
SyncDone ==
  /\ pc = "synced"
  /\ Goto(IF active = main_tip THEN "live" ELSE "start") /\ sync' = NoSync
  /\ UNCHANGED <<node, notifications, db, rest, stops, view>>

\* A notification was lost: the gap in the stream ends the live task, and a
\* fresh sync starts.
LoseNotification ==
  /\ pc = "live" /\ notifications # <<>>
  /\ notifications' = <<>>
  /\ pc' = "start" /\ failure' = "SequenceStream"
  /\ UNCHANGED <<node, db, rest, sync, stops, view>>

-----------------------------------------------------------------------------
(* Live handling                                                           *)

\* connect_block: the header is stored if its parent's height is known and
\* stays stored if the block is rejected; a rejected block is invalidated.
ConnectBlock ==
  LET b == notifications[1].block
      orphan == b \notin header /\ Parent[b] # NoBlock /\ Parent[b] \notin DOMAIN height
      h == IF Parent[b] = NoBlock THEN 0 ELSE height[Parent[b]] + 1
      accepted == ~orphan /\ ConnectedPrefix(<<b>>) = 1
  IN  /\ pc = "live" /\ notifications # <<>> /\ notifications[1].kind = "C"
      /\ IF b \in header \/ orphan THEN UNCHANGED <<header, height>> ELSE put_headers(<<b>>, h)
      /\ IF accepted
           THEN /\ RecordBlocks(<<b>>)
                /\ notifications' = Tail(notifications)
                /\ UNCHANGED node
           ELSE /\ UNCHANGED <<info, tip, view, background>>
                /\ InvalidateBlock(b, Tail(notifications))
      /\ UNCHANGED <<pc, rest, sync, failure, stops>>

NoStoredDiff(b) == b \notin info

\* disconnect_block: nothing to do for a block without a stored diff; only the
\* tip can be disconnected.
DisconnectBlock ==
  LET b == notifications[1].block
  IN  /\ pc = "live" /\ notifications # <<>> /\ notifications[1].kind = "D"
      /\ notifications' = Tail(notifications)
      /\ IF NoStoredDiff(b) THEN UNCHANGED <<tip, view, pc, failure>>
         ELSE IF tip \notin {b, NoBlock} THEN Fail("TipHash") /\ UNCHANGED <<tip, view>>
         ELSE DisconnectTo(Parent[b]) /\ UNCHANGED <<pc, failure>>
      /\ UNCHANGED <<node, header, height, info, rest, sync, stops>>

-----------------------------------------------------------------------------
(* The process stops at any step; what it had not committed is lost        *)

Stop ==
  /\ pc # "down" /\ stops < MaxStops
  /\ pc' = "down" /\ failure' = "stopped" /\ stops' = stops + 1
  /\ notifications' = <<>> /\ sync' = NoSync
  /\ UNCHANGED <<node, db, rest, view>>

\* A subscriber starts from the tip it is told of.
Restart ==
  /\ pc = "down"
  /\ pc' = "start" /\ failure' = "none" /\ view' = tip
  /\ notifications' = <<>> /\ sync' = NoSync
  /\ UNCHANGED <<node, db, rest, stops>>

Init ==
  /\ active \in {b \in Block : Height(b) >= SnapshotHeight} /\ invalidated = {}
  /\ background = IF SnapshotHeight = -1 THEN -1 ELSE 0
  /\ notifications = <<>>
  /\ header = {} /\ height = [b \in {} |-> 0] /\ info = {} /\ tip = NoBlock
  /\ pc = "start" /\ rest \in BOOLEAN /\ sync = NoSync
  /\ failure = "none" /\ stops = 0 /\ view = NoBlock

Sync ==
  \/ StartSync \/ FetchBestAncestor
  \/ FetchHeadersRest \/ FetchHashRpc \/ FetchHeadersRpc
  \/ DisconnectToFork \/ ConnectPreActivation \/ QueryGap \/ WaitForBackground
  \/ FetchBlocks \/ SyncInvalid \/ SyncDone

Live == ConnectBlock \/ DisconnectBlock

Next ==
  \/ Sync \/ Live
  \/ NodeReorg \/ BackgroundValidate \/ LoseNotification
  \/ Stop \/ Restart

Spec == Init /\ [][Next]_vars

\* The process takes its own steps, and the node's background validation goes
\* on; nothing makes the node change its chain, the network lose a message or
\* the process stop or be restarted.
FairSpec == Spec /\ WF_vars(Sync \/ Live) /\ WF_vars(BackgroundValidate)

-----------------------------------------------------------------------------
(* Properties                                                              *)

\* The databases' keys are blocks of the tree, heights are natural numbers,
\* and the local variables of a sync are blocks or absent.
TypeOK ==
  /\ active \in Block /\ invalidated \subseteq Block /\ background \in -1..SnapshotHeight
  /\ notifications \in Seq([kind : {"C", "D"}, block : Block])
  /\ header \subseteq Block /\ info \subseteq Block /\ tip \in Block \cup {NoBlock}
  /\ DOMAIN height \subseteq Block /\ Range(height) \subseteq Nat
  /\ pc \in {"start", "search", "fetch_headers", "disconnect", "pre_activation", "gap",
             "fetch_blocks", "invalid", "synced", "live", "down"}
  /\ rest \in BOOLEAN /\ stops \in 0..MaxStops
  /\ main_tip \in Block \cup {NoBlock}
  /\ missing \in Seq(Block) /\ hashes \in Seq(Block)

\* The header store is closed under parents and every height in it is the
\* block's height, whatever the node's chain did between the requests of the
\* binary search and of the header batches (the MUST comments on the header
\* and height DBs).
HeadersClosed ==
  /\ \A b \in header : Parent[b] \in header \cup {NoBlock}
  /\ DOMAIN height = header
  /\ \A b \in header : height[b] = Height(b)

\* The DBs of put_block_info hold every ancestor of each of their blocks and
\* of the tip, all with headers, and no rejected block (the MUST comments on
\* those DBs), also after a stop between two transactions.
ChainStored ==
  /\ info \subseteq header \ Rejected
  /\ \A b \in info \cup {tip} : b # NoBlock => /\ b \in info
                                               /\ Parent[b] \in info \cup {NoBlock}

\* The enforcer has a block invalidated on the node only if the block, or an
\* ancestor of it, is one that breaks the rules: out-of-date notifications of
\* blocks that do not extend the tip never make the node drop a valid chain.
OnlyRejectedInvalidated ==
  \A b \in invalidated : \E a \in Rejected : OnChain(a, b)

\* A subscriber that applies the broadcast events one by one is at the tip
\* after every commit: no event is missing, none is sent for a block whose
\* transaction was not committed.
SubscriberAtTip == pc # "down" => view = tip

\* Between two batches, missing is the path from the tip to the tip being
\* synced to (what missing_blocks_connect_to_tip calls exactly the blocks left
\* to connect).
MissingBlocksConnect ==
  pc \in {"pre_activation", "gap", "fetch_blocks", "invalid"} =>
    ChainTo(tip) \o missing = ChainTo(main_tip)

\* The errors for a broken database never happen: a header walk that ends
\* early, a block to disconnect that is not the tip, a header-only connect
\* that does not extend the tip.
NoBrokenDatabase == failure \notin {"MissingAncestor", "TipHash", "BlockParent"}

\* The node changes its chain finitely often.  From then on the process is
\* either down or ends up live at the node's tip, with nothing left to handle:
\* no sync runs for ever, whichever blocks were rejected on the way.
Converges ==
  <>[](\/ pc = "down"
       \/ pc = "live" /\ notifications = <<>> /\ tip = active)

\* A header sync that a reorganisation of the node interrupted is tried again
\* (the comment in sync_headers: "erroring out here, and then retrying the
\* sync from further out in the call stack").
InterruptedSyncIsRetried ==
  failure = "BlockNotInActiveChain" ~> pc # "down"
=============================================================================
