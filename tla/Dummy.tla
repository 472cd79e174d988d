-------------------------------- MODULE Dummy -------------------------------
(***************************************************************************)
(* antarc-dummy and its sample: the protocol without a network.  A manager *)
(* keeps what it sends in dummy_sender and polls what is in dummy_receiver *)
(* without blocking; two threads swap whole batches over two channels, one *)
(* batch a turn, and beat in between.                                      *)
(*                                                                         *)
(* Time plays no part here and stands still: a request and an accept have  *)
(* left their lists before the first retry, and nothing drains the         *)
(* heartbeats an end has sent reliably.                                    *)
(***************************************************************************)
EXTENDS Antarc

CONSTANTS
  client, server,
  MaxLag           \* bound: batches in a channel (mpsc::channel has none)

\* One thread of each kind; a channel holds a batch at least.
ASSUME DummyAssumption ==
  /\ Clients = {client} /\ Servers = {server}
  /\ MaxLag \in Nat \ {0}

VARIABLES
  turn,     \* what each thread does next
  outbox,   \* dummy_sender
  inbox,    \* dummy_receiver
  channel   \* the batches on their way to each end

dummyVars == <<vars, turn, outbox, inbox, channel>>

Turn == {"connect", "poll", "beat", "beatReliably", "send", "receive"}
Other(e) == IF e = client THEN server ELSE client

DummyTypeOK ==
  /\ TypeOK
  /\ turn \in [Endpoint -> Turn]
  /\ outbox \in [Endpoint -> Seq(Packet)]
  /\ inbox \in [Endpoint -> Seq(Packet)]
  /\ channel \in [Endpoint -> Seq(Seq(Packet))]

DummyInit ==
  /\ Init
  /\ turn = [e \in Endpoint |-> IF e = client THEN "connect" ELSE "poll"]
  /\ outbox = [e \in Endpoint |-> <<>>]
  /\ inbox = [e \in Endpoint |-> <<>>]
  /\ channel = [e \in Endpoint |-> <<>>]

Turns(e, next) == turn' = [turn EXCEPT ![e] = next]

\* client.connect, before the threads are spawned.
AskForConnection ==
  /\ turn[client] = "connect"
  /\ Connect(client, server)
  /\ Turns(client, "poll")
  /\ UNCHANGED <<serverVars, outbox, inbox, channel>>

\* The poll_* calls have drained every list.
Drained(e) ==
  /\ phase[e] = "send"
  /\ \A q \in Queue : scheduled[e][q] = <<>>
  /\ e = client => scheduledRequest[e] = <<>>
  /\ e = server => scheduledAccepted[e] = <<>>

\* The poll_* of the two managers create, send and record what antarc's do.
PollClient(e) == e = client /\ ClientPolls(e) /\ UNCHANGED serverVars
PollServer(e) == e = server /\ ServerPolls(e) /\ UNCHANGED clientVars

(***************************************************************************)
(* A step of poll other than a receive.  A packet goes to dummy_sender.    *)
(* When poll returns the application beats.                                *)
(***************************************************************************)
Poll(e) ==
  /\ turn[e] = "poll"
  /\ phase[e] = "poll" => inbox[e] = <<>>
  /\ PollClient(e) \/ PollServer(e)
  /\ Turns(e, IF phase[e] = "poll" THEN "beat" ELSE "poll")
  /\ outbox' = [outbox EXCEPT ![e] = @ \o SetToSeq(network' \ network)]
  /\ UNCHANGED <<inbox, channel>>

\* The loop over dummy_receiver: each packet of the batch through its handler.
Handle(e) ==
  /\ turn[e] = "poll"
  /\ Drained(e) \/ phase[e] = "poll"
  /\ inbox[e] # <<>>
  /\ inbox' = [inbox EXCEPT ![e] = Tail(@)]
  /\ \/ /\ e = client
        /\ Returns(client)
        /\ ClientOnReceived(client, Head(inbox[e]))
        /\ UNCHANGED serverVars
     \/ /\ e = server
        /\ ServerOnReceived(server, Head(inbox[e]))
        /\ UNCHANGED clientVars
  /\ UNCHANGED <<network, clock, scheduled, sent, turn, outbox, channel>>

\* The loop over an empty dummy_receiver.
HandleNothing(e) ==
  /\ turn[e] = "poll"
  /\ Drained(e)
  /\ inbox[e] = <<>>
  /\ Returns(e)
  /\ UNCHANGED <<network, clock, packetIdTracker, connected, reassembler, scheduled,
                 sent, api, clientVars, serverVars, turn, outbox, inbox, channel>>

\* heartbeat to everyone; the Err of an end without connections is ignored.
Beat(e, now, q, next) ==
  /\ turn[e] = now
  /\ Turns(e, next)
  /\ IF ConnectedIds(e) = {} THEN UNCHANGED protocolVars
     ELSE /\ MaySchedule(e)
          /\ \E ids \in SetToSeqs(ConnectedIds(e)) : Enqueue(e, q, Batch(e, ids, 1))
  /\ UNCHANGED <<clientVars, serverVars, outbox, inbox, channel>>

BeatUnreliably(e) == Beat(e, "beat", 5, "beatReliably")
BeatReliably(e) == Beat(e, "beatReliably", 6, "send")

\* tx.send: a copy of dummy_sender, also when it is empty.  The Err of a channel whose
\* receiver has stopped is ignored.
SendBatch(e) ==
  /\ turn[e] = "send"
  /\ IF phase[Other(e)] \in Stopped THEN UNCHANGED channel
     ELSE /\ Len(channel[Other(e)]) < MaxLag
          /\ channel' = [channel EXCEPT ![Other(e)] = Append(@, outbox[e])]
  /\ Turns(e, "receive")
  /\ UNCHANGED <<vars, outbox, inbox>>

\* ReceiveBatch gone wrong: dummy_sender is cleared only when a batch came.
ReceiveBatchResend(e) ==
  /\ turn[e] = "receive"
  /\ IF channel[e] = <<>> THEN UNCHANGED <<inbox, channel, outbox>>
     ELSE /\ inbox' = [inbox EXCEPT ![e] = Head(channel[e])]
          /\ channel' = [channel EXCEPT ![e] = Tail(@)]
          /\ outbox' = [outbox EXCEPT ![e] = <<>>]
  /\ Turns(e, "poll")
  /\ UNCHANGED vars

\* ReceiveBatch gone wrong: an end that has just sent something does not listen.
ReceiveBatchWhenQuiet(e) ==
  /\ turn[e] = "receive"
  /\ IF channel[e] = <<>> \/ outbox[e] # <<>> THEN UNCHANGED <<inbox, channel>>
     ELSE /\ inbox' = [inbox EXCEPT ![e] = Head(channel[e])]
          /\ channel' = [channel EXCEPT ![e] = Tail(@)]
  /\ outbox' = [outbox EXCEPT ![e] = <<>>]
  /\ Turns(e, "poll")
  /\ UNCHANGED vars

\* try_recv replaces dummy_receiver by one batch, if any; dummy_sender is cleared.
ReceiveBatch(e) ==
  /\ turn[e] = "receive"
  /\ IF channel[e] = <<>> THEN UNCHANGED <<inbox, channel>>
     ELSE /\ inbox' = [inbox EXCEPT ![e] = Head(channel[e])]
          /\ channel' = [channel EXCEPT ![e] = Tail(@)]
  /\ outbox' = [outbox EXCEPT ![e] = <<>>]
  /\ Turns(e, "poll")
  /\ UNCHANGED vars

Thread(e) ==
  \/ Poll(e)
  \/ Handle(e)
  \/ HandleNothing(e)
  \/ BeatUnreliably(e)
  \/ BeatReliably(e)
  \/ SendBatch(e)
  \/ ReceiveBatch(e)

DummyNext == AskForConnection \/ \E e \in Endpoint : Thread(e)

\* Nothing blocks: each thread keeps running.
DummySpec ==
  /\ DummyInit
  /\ [][DummyNext]_dummyVars
  /\ WF_dummyVars(AskForConnection)
  /\ \A e \in Endpoint : WF_dummyVars(Thread(e))

-----------------------------------------------------------------------------
\* The last packet e has handled, by its own trackers; 0 if none.
Heard(e) ==
  LET peers == {connected[e][id] : id \in ConnectionId}
                 \cup (IF e = client THEN {} ELSE {awaitingAck[e][id] : id \in ConnectionId})
  IN  Max({0} \cup {peer.remoteAck : peer \in peers \ {NoPeer}})

\* What was sent to e and waits to be handled, in the order it will be.
Pending(e) ==
  inbox[e] \o FlattenSeq(channel[e])
           \o (IF turn[Other(e)] = "receive" THEN <<>> ELSE outbox[Other(e)])

(***************************************************************************)
(* Batches lose, repeat and reorder nothing: what waits for an end are the *)
(* very packets after the last it has acked, one by one, to the last that  *)
(* was sent.  The two boxes are copied, replaced and cleared in separate   *)
(* steps of threads that never agree on a turn.                            *)
(***************************************************************************)
InOrderOnce ==
  \A e \in Endpoint : phase[e] \notin Stopped =>
     LET waiting == Pending(e)
     IN  /\ \A i \in DOMAIN waiting : waiting[i].sequence = Heard(e) + i
         /\ Heard(e) + Len(waiting) = Cardinality({p \in network : p.dst = e})

(***************************************************************************)
(* Over such a link no handler ever refuses a packet: each finds the peer  *)
(* of its packet in the state it expects.                                  *)
(***************************************************************************)
NothingRefused ==
  \A e \in Endpoint : \A i \in DOMAIN api[e] : api[e][i].kind # "Fail"

(***************************************************************************)
(* The last packets before the sequences run out may come too late for an  *)
(* end that runs out of its own first.  With two heartbeats a turn, that   *)
(* end is ahead by MaxLag turns at most; four more go by until the other   *)
(* beats too, and while a packet is on its way.                            *)
(***************************************************************************)
LastInTime == SequenceLimit - 2 * (MaxLag + 4)

(***************************************************************************)
(* Every packet is handled by the other end, none skipped for a later one, *)
(* however far the threads drift apart: a turn takes one batch out of a    *)
(* channel that may hold several, and nothing stops it from doing so, not  *)
(* an end without connections and not the panic of the other thread.       *)
(***************************************************************************)
EverythingHeard ==
  /\ [][\A e \in Endpoint : Heard(e)' \in {Heard(e), Heard(e) + 1}]_dummyVars
  /\ \A e \in Endpoint : <>(Heard(e) >= LastInTime)
=============================================================================
