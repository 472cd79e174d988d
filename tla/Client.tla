------------------------------- MODULE Client -------------------------------
(***************************************************************************)
(* Protocol<Client> and AntarcNet<Client>.  A remote address goes          *)
(*   requesting -> awaiting (the request was sent) -> connected,           *)
(* and becomes connected under the id its server gave it.                  *)
(***************************************************************************)
EXTENDS Protocol

VARIABLES
  requesting,        \* requesting_connection, by remote address
  awaiting,          \* awaiting_connection_ack, by remote address
  scheduledRequest,  \* list_scheduled_connection_request
  sentRequest        \* list_sent_connection_request

clientVars == <<requesting, awaiting, scheduledRequest, sentRequest>>

ClientTypeOK ==
  /\ requesting \in [Clients -> [Endpoint -> Peer \cup {NoPeer}]]
  /\ awaiting \in [Clients -> [Endpoint -> Peer \cup {NoPeer}]]
  /\ scheduledRequest \in [Clients -> Seq(Servers)]
  /\ sentRequest \in [Clients -> Seq(Sent)]

ClientInit ==
  /\ requesting = [c \in Clients |-> [a \in Endpoint |-> NoPeer]]
  /\ awaiting = [c \in Clients |-> [a \in Endpoint |-> NoPeer]]
  /\ scheduledRequest = [c \in Clients |-> <<>>]
  /\ sentRequest = [c \in Clients |-> <<>>]

\* KnownPeer gone wrong: a request not sent yet is overlooked.
KnownPeerOnceSent(c, s) ==
  \/ awaiting[c][s] # NoPeer
  \/ \E id \in ConnectedIds(c) : connected[c][id].address = s

\* KnownPeer gone wrong: a request without an answer is overlooked.
KnownPeerOnceAnswered(c, s) ==
  \/ requesting[c][s] # NoPeer
  \/ \E id \in ConnectedIds(c) : connected[c][id].address = s

KnownPeer(c, s) ==
  \/ requesting[c][s] # NoPeer
  \/ awaiting[c][s] # NoPeer
  \/ \E id \in ConnectedIds(c) : connected[c][id].address = s

Connect(c, s) ==
  /\ phase[c] = "app"
  /\ packetIdTracker[c] < MaxPacketId
  /\ ~KnownPeer(c, s)
  /\ requesting' = [requesting EXCEPT ![c][s] = NewPeer(s, 0)]
  /\ scheduledRequest' = [scheduledRequest EXCEPT ![c] = Append(@, s)]
  /\ packetIdTracker' = [packetIdTracker EXCEPT ![c] = @ + 1]
  /\ UNCHANGED <<network, clock, phase, connected, reassembler, scheduled,
                 sent, api, awaiting, sentRequest>>

-----------------------------------------------------------------------------
(***************************************************************************)
(* send_to and sent_connection_request: the peer leaves requesting, which  *)
(* unwraps, and waits for the server's answer.  sents is c's list of sent  *)
(* requests, next the phase that follows.  A panic takes the endpoint's    *)
(* memory with it: what the call wrote to it before that is left out.      *)
(***************************************************************************)
SendRequest(c, p, sents, next) ==
  LET peer == requesting[c][p.dst]
      Stop(why) == /\ phase' = [phase EXCEPT ![c] = why]
                   /\ sentRequest' = [sentRequest EXCEPT ![c] = sents]
                   /\ UNCHANGED <<requesting, awaiting>>
  IN  /\ network' = network \cup {p}
      /\ IF peer = NoPeer THEN Stop("unwrap")
         ELSE IF peer.sequence = SequenceLimit THEN Stop("exhausted")
         ELSE /\ phase' = [phase EXCEPT ![c] = next]
              /\ requesting' = [requesting EXCEPT ![c][p.dst] = NoPeer]
              /\ awaiting' = [awaiting EXCEPT ![c][p.dst] =
                                [peer EXCEPT !.sequence = @ + 1]]
              /\ sentRequest' =
                   [sentRequest EXCEPT ![c] =
                      Append(sents, [packet |-> p, time |-> clock[c]])]

\* poll_retry_connection_request: the first step of poll.
RetryConnectionRequest(c) ==
  /\ phase[c] = "app"
  /\ IF Overdue(c, sentRequest[c])
       THEN SendRequest(c, Last(sentRequest[c]).packet, Front(sentRequest[c]),
                        "retryData")
       ELSE /\ phase' = [phase EXCEPT ![c] = "retryData"]
            /\ sentRequest' = [sentRequest EXCEPT ![c] = Front(@)]
            /\ UNCHANGED <<network, requesting, awaiting>>
  /\ UNCHANGED <<clock, packetIdTracker, connected, reassembler, scheduled,
                 sent, api, scheduledRequest>>

\* One round of poll_connection_request.
SendConnectionRequest(c) ==
  /\ phase[c] = "send"
  /\ scheduledRequest[c] # <<>>
  /\ scheduledRequest' = [scheduledRequest EXCEPT ![c] = Tail(@)]
  /\ LET s == Head(scheduledRequest[c])
         peer == requesting[c][s]
     IN  IF peer = NoPeer
           THEN /\ phase' = [phase EXCEPT ![c] = "expect"]
                /\ UNCHANGED <<network, requesting, awaiting, sentRequest>>
           ELSE SendRequest(c, IntoPacket(c, "ConnectionRequest",
                                          HandshakeItem(0, s), peer),
                            sentRequest[c], "send")
  /\ UNCHANGED <<clock, packetIdTracker, connected, reassembler, scheduled,
                 sent, api>>

-----------------------------------------------------------------------------
(***************************************************************************)
(* What the client's sent_* do first: an address still awaiting becomes    *)
(* connected under the packet's id.                                        *)
(***************************************************************************)
Promoted(c, id, s) ==
  IF awaiting[c][s] # NoPeer
    THEN [connected[c] EXCEPT ![id] = awaiting[c][s]]
    ELSE connected[c]

NoLongerAwaiting(c, s) == awaiting' = [awaiting EXCEPT ![c][s] = NoPeer]

\* poll_retry_data_transfer.  A client never retries its fragments.
ClientRetryDataTransfer(c) ==
  LET list == sent[c]["DataTransfer"]
      p == Last(list).packet
  IN  /\ phase[c] = "retryData"
      /\ IF Overdue(c, list)
           THEN /\ Resend(c, "DataTransfer", Promoted(c, p.id, p.dst), "send")
                /\ NoLongerAwaiting(c, p.dst)
           ELSE /\ Forget(c, "DataTransfer", "send")
                /\ UNCHANGED awaiting
      /\ UNCHANGED <<requesting, scheduledRequest, sentRequest>>

\* A round of the poll_* loop of list q.
ClientSend(c, q) ==
  LET item == Head(scheduled[c][q])
  IN  /\ scheduledRequest[c] = <<>>
      /\ SendScheduled(c, q, Promoted(c, item.id, item.address))
      /\ IF connected[c][item.id] = NoPeer
           THEN UNCHANGED awaiting
           ELSE NoLongerAwaiting(c, item.address)
      /\ UNCHANGED <<requesting, scheduledRequest, sentRequest>>

-----------------------------------------------------------------------------
(***************************************************************************)
(* Client::on_received, one operator per arm.  An Err becomes a Fail event *)
(* in AntarcNet::poll.                                                     *)
(***************************************************************************)
Refuse(c, p, error) ==
  /\ Push(c, Fail(error, p))
  /\ UNCHANGED <<connected, reassembler, awaiting>>

\* The address that was awaiting becomes connected, acked by p.
Establish(c, p) ==
  /\ connected' = [connected EXCEPT ![c][p.id] = Acked(awaiting[c][p.src], p)]
  /\ NoLongerAwaiting(c, p.src)

AckConnected(c, p) ==
  /\ connected' = [connected EXCEPT ![c][p.id] = Acked(@, p)]
  /\ UNCHANGED awaiting

\* OnConnectionAccepted gone wrong: an id that is taken is given away.
OnConnectionAcceptedAnyId(c, p) ==
  /\ IF awaiting[c][p.src] # NoPeer
       THEN Establish(c, p)
       ELSE UNCHANGED <<connected, awaiting>>
  /\ UNCHANGED <<reassembler, api>>

OnConnectionAccepted(c, p) ==
  IF requesting[c][p.src] # NoPeer \/ connected[c][p.id] # NoPeer
    THEN Refuse(c, p, "PeerInAnotherState")
    ELSE /\ IF awaiting[c][p.src] # NoPeer
              THEN Establish(c, p)
              ELSE UNCHANGED <<connected, awaiting>>
         /\ UNCHANGED <<reassembler, api>>

(***************************************************************************)
(* Only the arm that leaves awaiting pushes the payload to api.            *)
(***************************************************************************)
OnDataTransfer(c, p) ==
  /\ IF connected[c][p.id] # NoPeer
       THEN AckConnected(c, p) /\ UNCHANGED api
     ELSE IF awaiting[c][p.src] # NoPeer
       THEN Establish(c, p) /\ Push(c, DataTransferEvent(p.id, <<PartOf(p)>>))
     ELSE UNCHANGED <<connected, awaiting, api>>
  /\ UNCHANGED reassembler

OnFragment(c, p) ==
  IF connected[c][p.id] = NoPeer
    THEN Refuse(c, p, "NoPeersConnected")
    ELSE AckConnected(c, p) /\ Reassemble(c, p)

OnHeartbeat(c, p) ==
  /\ IF connected[c][p.id] # NoPeer
       THEN AckConnected(c, p)
     ELSE IF awaiting[c][p.src] # NoPeer
       THEN Establish(c, p)
     ELSE UNCHANGED <<connected, awaiting>>
  /\ UNCHANGED <<reassembler, api>>

ClientOnReceived(c, p) ==
  /\ CASE p.kind = "ConnectionRequest"  -> Refuse(c, p, "InvalidPacketType")
       [] p.kind = "ConnectionAccepted" -> OnConnectionAccepted(c, p)
       [] p.kind = "DataTransfer"       -> OnDataTransfer(c, p)
       [] p.kind = "Fragment"           -> OnFragment(c, p)
       [] p.kind = "Heartbeat"          -> OnHeartbeat(c, p)
  /\ UNCHANGED <<packetIdTracker, requesting, scheduledRequest, sentRequest>>

ClientReceive(c, p) ==
  /\ Receives(c, p)
  /\ scheduledRequest[c] = <<>>
  /\ Returns(c)
  /\ ClientOnReceived(c, p)

\* Protocol<Client>::poll: no reassembler line of a client is ever dropped.
ClientPoll(c) ==
  /\ PollHandler(c)
  /\ sentRequest' = [sentRequest EXCEPT ![c] = WithoutFirst(@)]
  /\ UNCHANGED <<reassembler, requesting, awaiting, scheduledRequest>>

\* A step of AntarcNet<Client>::poll that does not wait for the network.
ClientPolls(c) ==
  \/ RetryConnectionRequest(c)
  \/ ClientRetryDataTransfer(c)
  \/ SendConnectionRequest(c)
  \/ \E q \in Queue : ClientSend(c, q)
  \/ ClientPoll(c)

ClientNext(c) ==
  \/ \E s \in Servers : Connect(c, s)
  \/ ClientPolls(c)
  \/ \E p \in network : ClientReceive(c, p)
  \/ (Schedule(c) \/ Heartbeat(c) \/ Tick(c)) /\ UNCHANGED clientVars
=============================================================================
