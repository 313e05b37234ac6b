------------------------------- MODULE SendTx -------------------------------
(***************************************************************************)
(* Sending a transaction to a node over the P2P protocol                   *)
(* (src/lib/p2p/send_tx.rs), to the first of a host's addresses that takes *)
(* it (src/lib/p2p.rs): handshake, inv, getdata, tx, and a ping whose pong *)
(* says that the node has processed the transaction.                       *)
(*                                                                         *)
(* The node at the other end is not trusted to follow the protocol: it     *)
(* may send anything at any time, stay silent or hang up.  Only two things *)
(* are taken from it: the connection keeps order, and a pong with our      *)
(* nonce answers our ping once everything before it has been processed.    *)
(***************************************************************************)
EXTENDS Integers, Sequences

CONSTANTS Addresses,   \* how many addresses the host resolves to
          MaxQueue     \* bound on the messages under way

VARIABLES
  peer,        \* the position in socket_addrs of the address being tried
  state,       \* State of the exchange, or where send_tx is around it
  out, in,     \* messages under way to the node and from it
  open,        \* has the node kept the connection open?
  sent,        \* the messages written to each address, pongs left out
  processed,   \* addresses whose node has processed the transaction
  confirmed,   \* addresses whose node has answered the last ping
  result       \* of send_to_first_reachable

connection == <<out, in, open>>
history == <<sent, processed, confirmed>>
vars == <<peer, state, connection, history, result>>

socket_addrs == 1..Addresses

AddressesAssumption == Addresses \in Nat \ {0} /\ MaxQueue \in Nat

Exchanging == {"AwaitingVersion", "AwaitingVerack", "AwaitingGetData"}
Message(type) == [type |-> type, good |-> TRUE]
Spoilt(type) == [type |-> type, good |-> FALSE]

-----------------------------------------------------------------------------
(* send_to_first_reachable                                                 *)

Return(res) ==
  /\ state' = "ended" /\ result' = res
  /\ out' = <<>> /\ in' = <<>> /\ open' = FALSE
  /\ UNCHANGED <<peer, history>>

\* An error that is not a timeout moves on to the next address.
NextAddress ==
  IF peer = Addresses THEN Return("error")
  ELSE /\ peer' = peer + 1 /\ state' = "connecting"
       /\ out' = <<>> /\ in' = <<>> /\ open' = FALSE
       /\ UNCHANGED <<history, result>>

Write(m) ==
  /\ out' = Append(out, m)
  /\ sent' = IF m = "pong" THEN sent ELSE [sent EXCEPT ![peer] = Append(@, m)]

Connect ==
  /\ state = "connecting"
  /\ state' = "AwaitingVersion" /\ open' = TRUE
  /\ Write("version")
  /\ UNCHANGED <<peer, in, processed, confirmed, result>>

ConnectRefused == state = "connecting" /\ NextAddress
ConnectTimeout == state = "connecting" /\ Return("false")

-----------------------------------------------------------------------------
(* Exchange::handle                                                        *)

\* The message that moves the exchange on from each state, the answer to it,
\* and the state after it.
Awaited == [AwaitingVersion |-> "version", AwaitingVerack |-> "verack",
            AwaitingGetData |-> "getdata"]
Answer == [AwaitingVersion |-> "verack", AwaitingVerack |-> "inv",
           AwaitingGetData |-> "tx"]

After == [AwaitingVersion |-> "AwaitingVerack", AwaitingVerack |-> "AwaitingGetData",
          AwaitingGetData |-> "Done"]

\* A version without relay or segwit, a getdata without our transaction and
\* whatever read_message cannot decode are spoilt.
InOrder(m) == state \in Exchanging /\ m.type = Awaited[state] /\ m.good

Ignored(m) == m.type \in {"other", "pong"} /\ m.good
IsPing(m) == m.type = "ping" /\ m.good

IsOurPong(m) == m.type = "ourpong"

ReadMessage ==
  /\ state \in Exchanging /\ in # <<>>
  /\ LET m == Head(in)
     IN  CASE InOrder(m) ->
                /\ Write(Answer[state])
                /\ state' = After[state]
                /\ in' = Tail(in)
                /\ UNCHANGED <<peer, open, processed, confirmed, result>>
           [] IsPing(m) ->
                /\ Write("pong")
                /\ in' = Tail(in)
                /\ UNCHANGED <<peer, state, open, processed, confirmed, result>>
           [] Ignored(m) ->
                in' = Tail(in) /\ UNCHANGED <<peer, state, out, open, history, result>>
           [] OTHER -> NextAddress

\* The read, or a write, fails on a connection that the node has closed.
ConnectionLost == state \in Exchanging /\ ~open /\ NextAddress

\* Mutant of SendTimeout: the exchange has no timeout.
SendTimeout_Never == FALSE

SendTimeout == state \in Exchanging /\ Return("false")

-----------------------------------------------------------------------------
(* await_processed: its failure does not change the result                 *)

SendPing ==
  /\ state = "Done" /\ state' = "Flushing"
  /\ Write("ping")
  /\ UNCHANGED <<peer, in, open, processed, confirmed, result>>

ReadFlushing ==
  /\ state = "Flushing" /\ in # <<>>
  /\ LET m == Head(in)
     IN  CASE IsOurPong(m) ->
                /\ confirmed' = confirmed \cup {peer}
                /\ state' = "ended" /\ result' = "true"
                /\ out' = <<>> /\ in' = <<>> /\ open' = FALSE
                /\ UNCHANGED <<peer, sent, processed>>
           [] IsPing(m) ->
                /\ Write("pong")
                /\ in' = Tail(in)
                /\ UNCHANGED <<peer, state, open, processed, confirmed, result>>
           [] Ignored(m) ->
                in' = Tail(in) /\ UNCHANGED <<peer, state, out, open, history, result>>
           [] OTHER -> Return("true")

\* Mutant of FlushFails: a failure after the transaction was sent tries the
\* next address.
FlushFails_NextAddress == state \in {"Done", "Flushing"} /\ ~open /\ NextAddress

FlushFails == state \in {"Done", "Flushing"} /\ ~open /\ Return("true")

FlushTimeout == state \in {"Done", "Flushing"} /\ Return("true")

-----------------------------------------------------------------------------
(* The node                                                                *)

Room == Len(in) + Len(out) < MaxQueue

NodeReads ==
  /\ open /\ out # <<>>
  /\ out' = Tail(out)
  /\ processed' = IF Head(out) = "tx" THEN processed \cup {peer} ELSE processed
  /\ in' = IF Head(out) = "ping" THEN Append(in, Message("ourpong")) ELSE in
  /\ UNCHANGED <<peer, state, open, sent, confirmed, result>>

Unsolicited ==
  {Message(t) : t \in {"version", "verack", "getdata", "ping", "pong", "other"}}
    \cup {Spoilt("version"), Spoilt("getdata"), Spoilt("other")}

NodeSends ==
  /\ open /\ Room
  /\ \E m \in Unsolicited : in' = Append(in, m)
  /\ UNCHANGED <<peer, state, out, open, history, result>>

NodeCloses == open /\ open' = FALSE /\ UNCHANGED <<peer, state, out, in, history, result>>

Init ==
  /\ peer = 1 /\ state = "connecting"
  /\ out = <<>> /\ in = <<>> /\ open = FALSE
  /\ sent = [a \in socket_addrs |-> <<>>] /\ processed = {} /\ confirmed = {}
  /\ result = "none"

Ours == ReadMessage \/ ConnectionLost \/ SendPing \/ ReadFlushing \/ FlushFails

Timers == ConnectTimeout \/ SendTimeout \/ FlushTimeout

Next ==
  \/ Ours \/ Timers
  \/ Connect \/ ConnectRefused \/ NodeReads \/ NodeSends \/ NodeCloses

Spec == Init /\ [][Next]_vars
FairSpec == Spec /\ WF_vars(Ours) /\ WF_vars(Timers)

-----------------------------------------------------------------------------
(* Properties                                                              *)

\* There is a result exactly when the call has ended.
TypeOK ==
  /\ peer \in socket_addrs /\ open \in BOOLEAN
  /\ state \in Exchanging \cup {"connecting", "Done", "Flushing", "ended"}
  /\ state = "ended" <=> result # "none"
  /\ result \in {"none", "true", "false", "error"}

\* Whatever the node sends, and in whatever order, it is sent the version,
\* the verack, the inv, the transaction and the ping in that order, each at
\* most once.
SentInOrder ==
  \A a \in socket_addrs :
    \E n \in 0..5 : sent[a] = SubSeq(<<"version", "verack", "inv", "tx", "ping">>, 1, n)

\* A pong that ends the wait means that the node has the transaction, not
\* only that it was written: no earlier or stray pong is taken for it.
ConfirmedMeansProcessed == confirmed \subseteq processed

\* True is returned if and only if an address was sent the transaction; it is
\* the last one that was tried, and an error means that none is left to try.
ResultMatchesSending ==
  LET took == {a \in socket_addrs : \E i \in DOMAIN sent[a] : sent[a][i] = "tx"}
  IN  /\ took \subseteq {peer}
      /\ result = "true" => took = {peer}
      /\ result \in {"false", "error"} => took = {}
      /\ result = "error" => peer = Addresses

\* The call returns, even if the node keeps it busy forever with pings.
Returns == <>(state = "ended")
=============================================================================
