------------------------ MODULE AntarcTrackerProofs -------------------------
(***************************************************************************)
(* What acks and sequences say, for every number of endpoints and every    *)
(* width: TrackerInv is inductive.                                         *)
(*                                                                         *)
(* Every step moves the trackers of a peer in one of a few ways (Moves):   *)
(* a send advances a sequence and numbers a packet by it, a receipt        *)
(* overwrites both acks, a handshake step makes or moves a peer.  Each     *)
(* action is shown to be such a move, and each move to keep TrackerInv.    *)
(***************************************************************************)
EXTENDS AntarcTrackers, AntarcProofs

Advanced(peer) == [peer EXCEPT !.sequence = @ + 1]

\* The peer e acks on receipt of p: it is connected under p's id, or is about
\* to be.
AckedBy(e, p, old) ==
  \/ /\ old = connected[e][p.id]
     /\ e \in Clients => p.kind \in SentKind
  \/ /\ connected[e][p.id] = NoPeer
     /\ e \in Clients
     /\ p.src \in Endpoint
     /\ old = awaiting[e][p.src]
  \/ /\ connected[e][p.id] = NoPeer
     /\ e \in Servers
     /\ old = awaitingAck[e][p.id]

ConnectedMove(e, id) ==
  \/ connected'[e][id] = connected[e][id]
  \/ /\ connected[e][id] # NoPeer
     /\ connected[e][id].sequence # SequenceLimit
     /\ connected'[e][id] = Advanced(connected[e][id])
  \/ \E p \in network, old \in Peer :
       /\ p.kind # "ConnectionRequest"
       /\ p.dst = e
       /\ p.id = id
       /\ AckedBy(e, p, old)
       /\ connected'[e][id] = Acked(old, p)

ConnectedMoves == \A e \in Endpoint, id \in ConnectionId : ConnectedMove(e, id)

\* p is what into_packet makes of this peer's trackers.
Made(p, peer) ==
  /\ peer # NoPeer
  /\ p.sequence = peer.sequence
  /\ p.ack = peer.remoteAck
  /\ p.dst = peer.address

NewPacket(p) ==
  \/ /\ p.kind \in SentKind /\ p.src \in Endpoint /\ p.id \in ConnectionId
     /\ Made(p, connected[p.src][p.id])
  \/ /\ p.kind = "ConnectionAccepted" /\ p.src \in Servers /\ p.id \in ConnectionId
     /\ Made(p, awaitingAck[p.src][p.id])
  \/ /\ p.kind = "ConnectionRequest" /\ p.src \in Clients /\ p.dst \in Endpoint
     /\ Made(p, requesting[p.src][p.dst])

NetworkMoves ==
  /\ network \subseteq network'
  /\ \A p \in network' : p \in network \/ NewPacket(p)

ClientMoves ==
  \A c \in Clients, a \in Endpoint :
     /\ \/ requesting'[c][a] \in {requesting[c][a], NoPeer}
        \/ requesting'[c][a] = NewPeer(a, 0)
     /\ \/ awaiting'[c][a] \in {awaiting[c][a], NoPeer}
        \/ /\ requesting[c][a] # NoPeer
           /\ awaiting'[c][a] = Advanced(requesting[c][a])

ServerMove(s, id) ==
  \/ /\ AcceptPending(s, id)' <=> AcceptPending(s, id)
     /\ awaitingAck'[s][id] \in {awaitingAck[s][id], NoPeer}
  \/ /\ AcceptPending(s, id)'
     /\ \E p \in network : /\ p.src \in Endpoint
                           /\ p.dst = s
                           /\ awaitingAck'[s][id] = NewPeer(p.src, p.sequence)
  \/ /\ AcceptPending(s, id) /\ ~AcceptPending(s, id)'
     /\ awaitingAck[s][id] # NoPeer
     /\ awaitingAck'[s][id] \in {awaitingAck[s][id], Advanced(awaitingAck[s][id])}
     /\ \E p \in network' : /\ p.kind = "ConnectionAccepted"
                            /\ p.src = s
                            /\ p.id = id
                            /\ p.sequence = awaitingAck[s][id].sequence

ServerMoves == \A s \in Servers, id \in ConnectionId : ServerMove(s, id)

Moves == ConnectedMoves /\ NetworkMoves /\ ClientMoves /\ ServerMoves

-----------------------------------------------------------------------------
(***************************************************************************)
(* Every step is a move.                                                   *)
(***************************************************************************)

\* A step that leaves a part of the trackers alone moves it.
LEMMA StillMoves ==
  /\ UNCHANGED connected => ConnectedMoves
  /\ UNCHANGED network => NetworkMoves
  /\ UNCHANGED <<requesting, awaiting>> => ClientMoves
  /\ UNCHANGED <<awaitingAck, scheduledAccepted>> => ServerMoves
<1>1. UNCHANGED connected => ConnectedMoves
  BY DEF ConnectedMoves, ConnectedMove
<1>2. UNCHANGED network => NetworkMoves
  BY DEF NetworkMoves
<1>3. UNCHANGED <<requesting, awaiting>> => ClientMoves
  BY DEF ClientMoves
<1>4. UNCHANGED <<awaitingAck, scheduledAccepted>> => ServerMoves
  BY DEF ServerMoves, ServerMove, AcceptPending
<1>5. QED
  BY <1>1, <1>2, <1>3, <1>4

\* send_to and sent_* for a connected peer, or for a packet sent before.
LEMMA SendPacketMoves ==
  ASSUME IInv, NEW e \in Endpoint, NEW p, NEW reliable, NEW sents, NEW next,
         p.id \in ConnectionId, p \in network \/ NewPacket(p),
         SendPacket(e, p, reliable, connected[e], sents, next)
  PROVE  ConnectedMoves /\ NetworkMoves
<1>1. connected \in [Endpoint -> [ConnectionId -> Peer \cup {NoPeer}]]
  BY DEF IInv, TypeOK, ProtocolTypeOK
<1>2. network' = network \cup {p}
  BY DEF SendPacket
<1>3. NetworkMoves
  BY <1>2 DEF NetworkMoves
<1>4. CASE connected' = [connected EXCEPT ![e] = connected[e]]
  <2>1. connected' = connected
    BY <1>1, <1>4
  <2>2. QED
    BY <1>3, <2>1, StillMoves
<1>5. CASE /\ connected[e][p.id] # NoPeer
           /\ connected[e][p.id].sequence # SequenceLimit
           /\ connected' = [connected EXCEPT ![e] =
                              [connected[e] EXCEPT ![p.id].sequence = @ + 1]]
  <2>1. connected'[e][p.id] = Advanced(connected[e][p.id])
    BY <1>1, <1>5 DEF Advanced
  <2>2. \A x \in Endpoint, id \in ConnectionId :
          x # e \/ id # p.id => connected'[x][id] = connected[x][id]
    BY <1>1, <1>5
  <2>3. ConnectedMoves
    BY <1>5, <2>1, <2>2 DEF ConnectedMoves, ConnectedMove
  <2>4. QED
    BY <1>3, <2>3
<1>6. QED
  BY <1>4, <1>5 DEF SendPacket, Exhausts

\* A round of a poll_* loop, for a connected peer.
LEMMA SendScheduledMoves ==
  ASSUME IInv, NEW e \in Endpoint, NEW q \in Queue,
         SendScheduled(e, q, connected[e])
  PROVE  ConnectedMoves /\ NetworkMoves
<1> DEFINE item == Head(scheduled[e][q])
           p == Created(e, q, item)
<1>1. scheduled \in [Endpoint -> [Queue -> Seq(Scheduled)]]
  BY DEF IInv, TypeOK, ProtocolTypeOK
<1>2. scheduled[e][q] # <<>>
  BY DEF SendScheduled, NextInLine
<1>3. item \in ToSet(scheduled[e][q]) /\ item \in Scheduled
  BY <1>1, <1>2, ToSetTail, ToSetType
<1>4. connected[e][item.id] # NoPeer /\ connected[e][item.id].address = item.address
  BY <1>3 DEF IInv, ScheduledToConnected
<1>5. /\ p.id = item.id /\ p.src = e /\ p.kind = DrainOrder[q].kind
      /\ p.sequence = connected[e][item.id].sequence
      /\ p.ack = connected[e][item.id].remoteAck
      /\ p.dst = item.address
  BY DEF Created, IntoPacket
<1>6. p.id \in ConnectionId /\ p.kind \in SentKind
  BY <1>3, <1>5, DrainOrderType DEF Scheduled
<1>7. NewPacket(p)
  BY <1>4, <1>5, <1>6 DEF NewPacket, Made
<1>8. SendPacket(e, p, DrainOrder[q].reliable, connected[e], sent[e], "send")
  BY <1>4 DEF SendScheduled
<1>9. QED
  BY <1>6, <1>7, <1>8, SendPacketMoves

\* The retry of a packet that was sent.
LEMMA ResendMoves ==
  ASSUME IInv, NEW e \in Endpoint, NEW kind \in SentKind, NEW next,
         sent[e][kind] # <<>>, Resend(e, kind, connected[e], next)
  PROVE  ConnectedMoves /\ NetworkMoves
<1> DEFINE p == Last(sent[e][kind]).packet
<1>1. sent \in [Endpoint -> [SentKind -> Seq(Sent)]] /\ network \subseteq Packet
  BY DEF IInv, TypeOK, ProtocolTypeOK
<1>2. Last(sent[e][kind]) \in ToSet(sent[e][kind])
  BY <1>1, ToSetLast
<1>3. p \in network /\ p.kind = kind
  BY <1>2 DEF IInv, SentWasSent
<1>4. p.id \in ConnectionId
  BY <1>1, <1>3, PacketFields DEF SentKind
<1>5. SendPacket(e, p, TRUE, connected[e], [sent[e] EXCEPT ![kind] = Front(@)], next)
  BY DEF Resend
<1>6. QED
  BY <1>3, <1>4, <1>5, SendPacketMoves

\* The calls of the application, the passing of time and the end of poll.
LEMMA QuietMoves ==
  ASSUME NEW e \in Endpoint,
         Schedule(e) \/ Heartbeat(e) \/ Tick(e) \/ PollHandler(e),
         UNCHANGED <<requesting, awaiting, awaitingAck, scheduledAccepted>>
  PROVE  Moves
BY StillMoves DEF Moves, Schedule, Heartbeat, Tick, PollHandler, Enqueue

\* Client::connect.
LEMMA ConnectMoves ==
  ASSUME IInv, NEW c \in Clients, NEW s \in Servers, Connect(c, s),
         UNCHANGED serverVars
  PROVE  Moves
<1>1. requesting \in [Clients -> [Endpoint -> Peer \cup {NoPeer}]]
  BY DEF IInv, TypeOK, ClientTypeOK
<1>2. ClientMoves
  BY <1>1 DEF Connect, ClientMoves
<1>3. QED
  BY <1>2, StillMoves DEF Connect, Moves, serverVars

\* A request goes out, numbered by the peer it moves to awaiting.
LEMMA SendConnectionRequestMoves ==
  ASSUME IInv, NEW c \in Clients, SendConnectionRequest(c), UNCHANGED serverVars
  PROVE  Moves
<1> DEFINE s == Head(scheduledRequest[c])
           peer == requesting[c][s]
           p == IntoPacket(c, "ConnectionRequest", HandshakeItem(0, s), peer)
<1>1. /\ requesting \in [Clients -> [Endpoint -> Peer \cup {NoPeer}]]
      /\ awaiting \in [Clients -> [Endpoint -> Peer \cup {NoPeer}]]
      /\ scheduledRequest[c] \in Seq(Servers) /\ scheduledRequest[c] # <<>>
  BY DEF IInv, TypeOK, ClientTypeOK, SendConnectionRequest
<1>2. s \in ToSet(scheduledRequest[c]) /\ s \in Servers /\ s \in Endpoint
  BY <1>1, ToSetTail, ToSetType DEF Endpoint
<1>3. peer # NoPeer /\ peer.address = s
  BY <1>2 DEF IInv, RequestsRequest, AddressesFit
<1>4. SendRequest(c, p, sentRequest[c], "send")
  BY <1>3 DEF SendConnectionRequest
<1>5. /\ p.kind = "ConnectionRequest" /\ p.src = c /\ p.dst = s
      /\ p.sequence = peer.sequence /\ p.ack = peer.remoteAck
  BY DEF IntoPacket, HandshakeItem
<1>6. NewPacket(p)
  BY <1>2, <1>3, <1>5 DEF NewPacket, Made
<1>7. NetworkMoves
  BY <1>4, <1>6 DEF SendRequest, NetworkMoves
<1> HIDE DEF p
<1>8. \/ UNCHANGED <<requesting, awaiting>>
      \/ /\ requesting' = [requesting EXCEPT ![c][s] = NoPeer]
         /\ awaiting' = [awaiting EXCEPT ![c][s] = Advanced(peer)]
  BY <1>3, <1>4, <1>5 DEF SendRequest, Advanced
<1>9. ClientMoves
  BY <1>1, <1>2, <1>3, <1>8 DEF ClientMoves
<1>10. UNCHANGED connected /\ UNCHANGED <<awaitingAck, scheduledAccepted>>
  BY DEF SendConnectionRequest, serverVars
<1>11. QED
  BY <1>7, <1>9, <1>10, StillMoves DEF Moves

\* The retry of a request finds no peer, and sends what was sent.
LEMMA RetryConnectionRequestMoves ==
  ASSUME IInv, NEW c \in Clients, RetryConnectionRequest(c), UNCHANGED serverVars
  PROVE  Moves
<1> DEFINE p == Last(sentRequest[c]).packet
<1>1. ASSUME Overdue(c, sentRequest[c]) PROVE UNCHANGED network
  <2>1. Last(sentRequest[c]) \in ToSet(sentRequest[c])
    BY <1>1, ToSetLast DEF Overdue, IInv, TypeOK, ClientTypeOK
  <2>2. p \in network
    BY <2>1 DEF IInv, SentWasSent
  <2>3. network' = network \cup {p}
    BY <1>1 DEF RetryConnectionRequest, SendRequest
  <2>4. QED
    BY <2>2, <2>3
<1>2. UNCHANGED network
  BY <1>1 DEF RetryConnectionRequest
<1>3. UNCHANGED <<requesting, awaiting>>
  BY RetryConnectionRequestCalm DEF Calm, CalmMaps
<1>4. QED
  BY <1>2, <1>3, StillMoves DEF RetryConnectionRequest, Moves, serverVars

\* The client's retry of a data transfer.
LEMMA ClientRetryMoves ==
  ASSUME IInv, NEW c \in Clients, ClientRetryDataTransfer(c), UNCHANGED serverVars
  PROVE  Moves
<1> DEFINE list == sent[c]["DataTransfer"]
           p == Last(list).packet
<1>1. c \in Endpoint /\ "DataTransfer" \in SentKind
  BY DEF Endpoint, SentKind
<1>2. UNCHANGED <<requesting, awaiting>>
  BY ClientRetryCalm DEF Calm, CalmMaps
<1>3. CASE Overdue(c, list)
  <2>1. Last(list) \in ToSet(list)
    BY <1>1, <1>3, ToSetLast DEF Overdue, IInv, TypeOK, ProtocolTypeOK
  <2>2. p \in network /\ p.src = c /\ p.kind = "DataTransfer"
    BY <1>1, <2>1 DEF IInv, SentWasSent
  <2>3. p.id \in ConnectionId
    BY <2>2, PacketFields DEF IInv, TypeOK, ProtocolTypeOK
  <2>4. connected[c][p.id] # NoPeer /\ connected[c][p.id].address = p.dst
    BY <2>2 DEF IInv, PacketsSpeakTrue, FromClientTrue
  <2>5. Resend(c, "DataTransfer", Promoted(c, p.id, p.dst), "send")
    BY <1>3 DEF ClientRetryDataTransfer
  <2>6. list # <<>>
    BY <1>3 DEF Overdue
  <2> HIDE DEF p
  <2>7. Promoted(c, p.id, p.dst) = connected[c]
    BY <2>3, <2>4, NotAwaited
  <2>8. QED
    BY <1>1, <1>2, <2>5, <2>6, <2>7, ResendMoves, StillMoves DEF Moves, serverVars
<1>4. CASE ~Overdue(c, list)
  BY <1>2, <1>4, StillMoves DEF ClientRetryDataTransfer, Forget, Moves, serverVars
<1>5. QED
  BY <1>3, <1>4

\* A round of one of the client's poll_* loops.
LEMMA ClientSendMoves ==
  ASSUME IInv, NEW c \in Clients, NEW q \in Queue, ClientSend(c, q),
         UNCHANGED serverVars
  PROVE  Moves
<1> DEFINE item == Head(scheduled[c][q])
<1>1. c \in Endpoint
  BY DEF Endpoint
<1>2. scheduled[c][q] # <<>> /\ scheduled[c][q] \in Seq(Scheduled)
  BY <1>1 DEF ClientSend, SendScheduled, NextInLine, IInv, TypeOK, ProtocolTypeOK
<1>3. item \in ToSet(scheduled[c][q]) /\ item \in Scheduled
  BY <1>2, ToSetTail, TailType
<1>4. connected[c][item.id] # NoPeer /\ connected[c][item.id].address = item.address
  BY <1>1, <1>3 DEF IInv, ScheduledToConnected
<1>5. SendScheduled(c, q, Promoted(c, item.id, item.address))
  BY DEF ClientSend
<1>6. item.id \in ConnectionId
  BY <1>3 DEF Scheduled
<1> HIDE DEF item
<1>7. Promoted(c, item.id, item.address) = connected[c]
  BY <1>4, <1>6, NotAwaited
<1>8. UNCHANGED <<requesting, awaiting>>
  BY ClientSendCalm DEF Calm, CalmMaps
<1>9. QED
  BY <1>1, <1>5, <1>7, <1>8, SendScheduledMoves, StillMoves DEF Moves, serverVars

\* A packet a client receives acks the peer of its id, connected or awaiting.
LEMMA ClientReceiveMoves ==
  ASSUME IInv, NEW c \in Clients, NEW p \in network, ClientReceive(c, p),
         UNCHANGED serverVars
  PROVE  Moves
<1>1. /\ connected \in [Endpoint -> [ConnectionId -> Peer \cup {NoPeer}]]
      /\ awaiting \in [Clients -> [Endpoint -> Peer \cup {NoPeer}]]
      /\ p \in Packet /\ c \in Endpoint
  BY DEF IInv, TypeOK, ProtocolTypeOK, ClientTypeOK, Endpoint
<1>2. /\ p.kind \in Kind /\ p.src \in Endpoint /\ p.dst = c
      /\ p.kind # "ConnectionRequest" => p.id \in ConnectionId
  BY <1>1, PacketFields DEF ClientReceive, Receives
<1>3. UNCHANGED <<network, requesting>>
  BY DEF ClientReceive, ClientOnReceived, Receives
<1>4. ASSUME UNCHANGED <<connected, awaiting>> PROVE ConnectedMoves /\ ClientMoves
  BY <1>3, <1>4, StillMoves
<1>5. ASSUME p.kind \in SentKind, connected[c][p.id] # NoPeer, AckConnected(c, p)
      PROVE  ConnectedMoves /\ ClientMoves
  <2>1. connected[c][p.id] \in Peer /\ p.id \in ConnectionId
    BY <1>1, <1>2, <1>5 DEF SentKind
  <2>2. connected'[c][p.id] = Acked(connected[c][p.id], p)
    BY <1>1, <1>5, <2>1 DEF AckConnected
  <2>3. \A e \in Endpoint, id \in ConnectionId :
          e # c \/ id # p.id => connected'[e][id] = connected[e][id]
    BY <1>1, <1>5, <2>1 DEF AckConnected
  <2>4. ConnectedMove(c, p.id)
    BY <1>2, <1>5, <2>1, <2>2 DEF ConnectedMove, AckedBy, SentKind
  <2>5. ConnectedMoves
    BY <2>3, <2>4 DEF ConnectedMoves, ConnectedMove
  <2>6. QED
    BY <1>3, <1>5, <2>5, StillMoves DEF AckConnected
<1>6. ASSUME p.kind # "ConnectionRequest", connected[c][p.id] = NoPeer,
             awaiting[c][p.src] # NoPeer, Establish(c, p)
      PROVE  ConnectedMoves /\ ClientMoves
  <2>1. awaiting[c][p.src] \in Peer /\ p.id \in ConnectionId
    BY <1>1, <1>2, <1>6
  <2>2. connected'[c][p.id] = Acked(awaiting[c][p.src], p)
    BY <1>1, <1>6, <2>1 DEF Establish
  <2>3. \A e \in Endpoint, id \in ConnectionId :
          e # c \/ id # p.id => connected'[e][id] = connected[e][id]
    BY <1>1, <1>6, <2>1 DEF Establish
  <2>4. ConnectedMove(c, p.id)
    BY <1>2, <1>6, <2>1, <2>2 DEF ConnectedMove, AckedBy
  <2>5. ConnectedMoves
    BY <2>3, <2>4 DEF ConnectedMoves, ConnectedMove
  <2>6. awaiting' = [awaiting EXCEPT ![c][p.src] = NoPeer]
    BY <1>6 DEF Establish, NoLongerAwaiting
  <2>7. ClientMoves
    BY <1>1, <1>3, <2>6 DEF ClientMoves
  <2>8. QED
    BY <2>5, <2>7
<1>7. ConnectedMoves /\ ClientMoves
  <2>1. CASE p.kind = "ConnectionRequest"
    BY <1>4, <2>1 DEF ClientReceive, ClientOnReceived, Refuse
  <2>2. CASE p.kind = "ConnectionAccepted"
    <3>1. OnConnectionAccepted(c, p)
      BY <2>2 DEF ClientReceive, ClientOnReceived
    <3>2. QED
      BY <1>4, <1>6, <2>2, <3>1 DEF OnConnectionAccepted, Refuse
  <2>3. CASE p.kind = "DataTransfer"
    <3>1. OnDataTransfer(c, p)
      BY <2>3 DEF ClientReceive, ClientOnReceived
    <3>2. QED
      BY <1>4, <1>5, <1>6, <2>3, <3>1 DEF OnDataTransfer, SentKind
  <2>4. CASE p.kind = "Fragment"
    <3>1. OnFragment(c, p)
      BY <2>4 DEF ClientReceive, ClientOnReceived
    <3>2. QED
      BY <1>4, <1>5, <2>4, <3>1 DEF OnFragment, Refuse, SentKind
  <2>5. CASE p.kind = "Heartbeat"
    <3>1. OnHeartbeat(c, p)
      BY <2>5 DEF ClientReceive, ClientOnReceived
    <3>2. QED
      BY <1>4, <1>5, <1>6, <2>5, <3>1 DEF OnHeartbeat, SentKind
  <2>6. QED
    BY <1>2, <2>1, <2>2, <2>3, <2>4, <2>5 DEF Kind
<1>8. QED
  BY <1>3, <1>7, StillMoves DEF Moves, serverVars

\* The retry of an accept finds none.
LEMMA RetryConnectionAcceptedMoves ==
  ASSUME TrackerInv, NEW s \in Servers, RetryConnectionAccepted(s),
         UNCHANGED clientVars
  PROVE  Moves
<1>1. sentAccepted[s] = <<>>
  BY DEF TrackerInv, AcceptTrace, RetryConnectionAccepted
<1>2. ~Overdue(s, sentAccepted[s])
  BY <1>1 DEF Overdue
<1>3. QED
  BY <1>2, StillMoves DEF RetryConnectionAccepted, Moves, clientVars

\* The only scheduled accept goes out, and its id's accept is sent.
LEMMA SendConnectionAcceptedMoves ==
  ASSUME IInv, NEW s \in Servers, SendConnectionAccepted(s), UNCHANGED clientVars
  PROVE  Moves
<1> DEFINE item == Head(scheduledAccepted[s])
           peer == awaitingAck[s][item.id]
           p == IntoPacket(s, "ConnectionAccepted",
                           HandshakeItem(item.id, item.address), peer)
<1>1. /\ scheduledAccepted \in [Servers -> Seq(ScheduledAccepted)]
      /\ scheduledAccepted[s] # <<>>
      /\ awaitingAck \in [Servers -> [ConnectionId -> Peer \cup {NoPeer}]]
  BY DEF IInv, TypeOK, ServerTypeOK, SendConnectionAccepted
<1>2. item \in ToSet(scheduledAccepted[s]) /\ item.id \in ConnectionId
  BY <1>1, ToSetTail, TailType DEF ScheduledAccepted
<1>3. peer # NoPeer /\ peer.address = item.address
  BY <1>2 DEF IInv, AcceptsAwait
<1>4. SendAccepted(s, p, sentAccepted[s], "send")
  BY <1>3 DEF SendConnectionAccepted
<1>5. /\ p.kind = "ConnectionAccepted" /\ p.src = s /\ p.dst = item.address
      /\ p.sequence = peer.sequence /\ p.ack = peer.remoteAck /\ p.id = item.id
  BY DEF IntoPacket, HandshakeItem
<1>6. NewPacket(p)
  BY <1>2, <1>3, <1>5 DEF NewPacket, Made
<1>7. NetworkMoves
  BY <1>4, <1>6 DEF SendAccepted, NetworkMoves
<1>8. p \in network'
  BY <1>4 DEF SendAccepted
<1> HIDE DEF p
<1>9. \/ awaitingAck' = awaitingAck
      \/ awaitingAck' = [awaitingAck EXCEPT ![s][item.id] = Advanced(peer)]
  BY <1>3, <1>4, <1>5 DEF SendAccepted, Advanced
<1>10. scheduledAccepted' = [scheduledAccepted EXCEPT ![s] = <<>>]
  <2>1. Tail(scheduledAccepted[s]) = <<>>
    BY <1>1 DEF IInv, AcceptsAwait
  <2>2. scheduledAccepted' = [scheduledAccepted EXCEPT ![s] = Tail(@)]
    BY DEF SendConnectionAccepted
  <2>3. QED
    BY <2>1, <2>2
<1>11. \A id \in ConnectionId : AcceptPending(s, id) <=> id = item.id
  <2>1. ToSet(scheduledAccepted[s]) = {item}
    <3>1. Len(scheduledAccepted[s]) = 1
      <4>1. Len(scheduledAccepted[s]) \in Nat /\ Len(scheduledAccepted[s]) # 0
        BY <1>1
      <4>2. Len(scheduledAccepted[s]) <= 1
        BY DEF IInv, AcceptsAwait
      <4>3. \A n \in Nat : n # 0 /\ n <= 1 => n = 1
        OBVIOUS
      <4>4. QED
        BY <4>1, <4>2, <4>3
    <3>2. DOMAIN scheduledAccepted[s] = {1} /\ item = scheduledAccepted[s][1]
      <4>1. DOMAIN scheduledAccepted[s] = 1 .. Len(scheduledAccepted[s])
        BY <1>1
      <4>2. 1 .. 1 = {1}
        OBVIOUS
      <4>3. Head(scheduledAccepted[s]) = scheduledAccepted[s][1]
        BY <1>1
      <4>4. QED
        BY <3>1, <4>1, <4>2, <4>3
    <3>3. QED
      BY <3>2 DEF ToSet
  <2>2. QED
    BY <2>1 DEF AcceptPending
<1> HIDE DEF item
<1>12. \A id \in ConnectionId : ~AcceptPending(s, id)'
  BY <1>1, <1>10, ToSetEmpty DEF AcceptPending
<1>13. ASSUME NEW id \in ConnectionId, id = item.id PROVE ServerMove(s, id)
  <2>1. awaitingAck'[s][id] \in {awaitingAck[s][id], Advanced(awaitingAck[s][id])}
    BY <1>1, <1>9, <1>13
  <2>2. /\ p \in network' /\ p.kind = "ConnectionAccepted" /\ p.src = s /\ p.id = id
        /\ p.sequence = awaitingAck[s][id].sequence /\ awaitingAck[s][id] # NoPeer
    BY <1>3, <1>5, <1>8, <1>13
  <2>3. AcceptPending(s, id) /\ ~AcceptPending(s, id)'
    BY <1>11, <1>12, <1>13
  <2>4. QED
    BY <2>1, <2>2, <2>3 DEF ServerMove
<1>14. ASSUME NEW x \in Servers, NEW id \in ConnectionId, x # s \/ id # item.id
       PROVE  ServerMove(x, id)
  <2>1. awaitingAck'[x][id] = awaitingAck[x][id]
    BY <1>1, <1>2, <1>9, <1>14
  <2>2. AcceptPending(x, id)' <=> AcceptPending(x, id)
    BY <1>1, <1>10, <1>11, <1>12, <1>14 DEF AcceptPending
  <2>3. QED
    BY <2>1, <2>2 DEF ServerMove
<1>15. ServerMoves
  BY <1>13, <1>14 DEF ServerMoves
<1>16. QED
  BY <1>7, <1>15, StillMoves DEF Moves, SendConnectionAccepted, clientVars

\* The server's retries of data transfers and fragments.
LEMMA RetrySentMoves ==
  ASSUME IInv, NEW s \in Servers, NEW kind \in SentKind, NEW now, NEW next,
         RetrySent(s, kind, now, next), UNCHANGED clientVars
  PROVE  Moves
<1>1. s \in Endpoint
  BY DEF Endpoint
<1>2. CASE Overdue(s, sent[s][kind])
  BY <1>1, <1>2, ResendMoves, StillMoves
  DEF RetrySent, Overdue, Moves, clientVars, serverVars
<1>3. CASE ~Overdue(s, sent[s][kind])
  BY <1>3, StillMoves DEF RetrySent, Forget, Moves, clientVars, serverVars
<1>4. QED
  BY <1>2, <1>3

\* A round of one of the server's poll_* loops.
LEMMA ServerSendMoves ==
  ASSUME IInv, NEW s \in Servers, NEW q \in Queue, ServerSend(s, q),
         UNCHANGED clientVars
  PROVE  Moves
BY SendScheduledMoves, StillMoves DEF ServerSend, Moves, clientVars, serverVars, Endpoint

\* A request grants an id.
LEMMA GrantedMoves ==
  ASSUME IInv, NEW s \in Servers, NEW p \in network, Granted(s, p), p.dst = s,
         UNCHANGED <<network, requesting, awaiting>>
  PROVE  Moves
<1>0. PICK new \in ConnectionId : new = connectionIdTracker[s]
  BY DEF IInv, TypeOK, ServerTypeOK
<1> DEFINE item == [id |-> new, address |-> p.src]
<1>1. /\ scheduledAccepted \in [Servers -> Seq(ScheduledAccepted)]
      /\ awaitingAck \in [Servers -> [ConnectionId -> Peer \cup {NoPeer}]]
      /\ p \in Packet
  BY DEF IInv, TypeOK, ServerTypeOK, ProtocolTypeOK
<1>2. p.src \in Endpoint
  BY <1>1, PacketFields
<1>3. ToSet(scheduledAccepted'[s]) = ToSet(scheduledAccepted[s]) \cup {item}
  <2>1. item \in ScheduledAccepted
    BY <1>1, <1>2 DEF ScheduledAccepted
  <2>2. scheduledAccepted'[s] = Append(scheduledAccepted[s], item)
    BY <1>0, <1>1 DEF Granted
  <2>3. QED
    BY <1>1, <2>1, <2>2, ToSetAppend
<1>4. awaitingAck' = [awaitingAck EXCEPT ![s][new] = NewPeer(p.src, p.sequence)]
  BY <1>0 DEF Granted
<1>5. ServerMove(s, new)
  <2>1. AcceptPending(s, new)'
    <3>1. item \in ToSet(scheduledAccepted'[s]) /\ item.id = new
      BY <1>3
    <3> HIDE DEF item
    <3>2. QED
      BY <3>1 DEF AcceptPending
  <2>2. awaitingAck'[s][new] = NewPeer(p.src, p.sequence)
    BY <1>1, <1>4
  <2>3. p.dst = s /\ p.src \in Endpoint
    BY <1>2
  <2>4. QED
    BY <2>1, <2>2, <2>3 DEF ServerMove
<1>6. ASSUME NEW x \in Servers, NEW id \in ConnectionId, x # s \/ id # new
      PROVE  ServerMove(x, id)
  <2>1. awaitingAck'[x][id] = awaitingAck[x][id]
    BY <1>1, <1>4, <1>6
  <2>2. AcceptPending(x, id)' <=> AcceptPending(x, id)
    <3>1. CASE x # s
      BY <1>1, <3>1 DEF Granted, AcceptPending
    <3>2. CASE x = s
      BY <1>3, <1>6, <3>2 DEF AcceptPending
    <3>3. QED
      BY <3>1, <3>2
  <2>3. QED
    BY <2>1, <2>2 DEF ServerMove
<1>7. ServerMoves
  BY <1>5, <1>6 DEF ServerMoves
<1>8. QED
  BY <1>7, StillMoves DEF Moves, Granted

\* A packet of a granted id moves its peer to connected.
LEMMA JoinedMoves ==
  ASSUME IInv, NEW s \in Servers, NEW p \in network, Joined(s, p), p.dst = s,
         UNCHANGED <<network, requesting, awaiting>>
  PROVE  Moves
<1>1. /\ connected \in [Endpoint -> [ConnectionId -> Peer \cup {NoPeer}]]
      /\ awaitingAck \in [Servers -> [ConnectionId -> Peer \cup {NoPeer}]]
      /\ p \in Packet /\ s \in Endpoint
  BY DEF IInv, TypeOK, ProtocolTypeOK, ServerTypeOK, Endpoint
<1>2. p.id \in ConnectionId
  BY <1>1, PacketFields DEF Joined
<1>3. awaitingAck[s][p.id] \in Peer
  BY <1>1, <1>2 DEF Joined
<1>4. connected'[s][p.id] = Acked(awaitingAck[s][p.id], p)
  BY <1>1, <1>2 DEF Joined
<1>5. \A e \in Endpoint, id \in ConnectionId :
        e # s \/ id # p.id => connected'[e][id] = connected[e][id]
  BY <1>1, <1>2 DEF Joined
<1>6. AckedBy(s, p, awaitingAck[s][p.id])
  BY DEF AckedBy, Joined
<1>7. ConnectedMove(s, p.id)
  BY <1>2, <1>3, <1>4, <1>6 DEF ConnectedMove, Joined
<1>8. ConnectedMoves
  BY <1>5, <1>7 DEF ConnectedMoves, ConnectedMove
<1>9. ServerMoves
  BY <1>1, <1>2 DEF Joined, ServerMoves, ServerMove, AcceptPending
<1>10. QED
  BY <1>8, <1>9, StillMoves DEF Moves

\* A packet of a connected peer acks it.
LEMMA AckPeerMoves ==
  ASSUME IInv, NEW s \in Servers, NEW p \in network, p.kind # "ConnectionRequest",
         KnownId(s, p.id), AckPeer(s, p), p.dst = s,
         UNCHANGED <<network, requesting, awaiting>>
  PROVE  Moves
<1>1. /\ connected \in [Endpoint -> [ConnectionId -> Peer \cup {NoPeer}]]
      /\ p \in Packet /\ s \in Endpoint /\ s \notin Clients
  BY EndpointAssumption DEF IInv, TypeOK, ProtocolTypeOK, Endpoint
<1>2. p.id \in ConnectionId
  BY <1>1, PacketFields
<1>3. CASE connected[s][p.id] = NoPeer
  <2>1. Joined(s, p)
    <3>1. connected' = [connected EXCEPT ![s][p.id] = Acked(awaitingAck[s][p.id], p)]
      BY <1>1, <1>2, <1>3 DEF AckPeer
    <3>2. QED
      BY <1>3, <3>1 DEF Joined, AckPeer, KnownId
  <2>2. QED
    BY <2>1, JoinedMoves
<1>4. CASE connected[s][p.id] # NoPeer
  <2>1. connected' = [connected EXCEPT ![s][p.id] = Acked(connected[s][p.id], p)]
    BY <1>1, <1>4 DEF AckPeer
  <2>2. connected[s][p.id] \in Peer
    BY <1>1, <1>2, <1>4
  <2>3. connected'[s][p.id] = Acked(connected[s][p.id], p)
    BY <1>1, <1>2, <2>1
  <2>4. \A e \in Endpoint, id \in ConnectionId :
          e # s \/ id # p.id => connected'[e][id] = connected[e][id]
    BY <1>1, <1>2, <2>1
  <2>5. AckedBy(s, p, connected[s][p.id])
    BY <1>1 DEF AckedBy
  <2>6. ConnectedMove(s, p.id)
    BY <1>2, <2>2, <2>3, <2>5 DEF ConnectedMove
  <2>7. ConnectedMoves
    BY <2>4, <2>6 DEF ConnectedMoves, ConnectedMove
  <2>8. UNCHANGED <<awaitingAck, scheduledAccepted>>
    BY <1>4 DEF AckPeer
  <2>9. QED
    BY <2>7, <2>8, StillMoves DEF Moves
<1>5. QED
  BY <1>3, <1>4

\* A packet a server receives grants an id, or acks the peer of its id.
LEMMA ServerReceiveMoves ==
  ASSUME IInv, NEW s \in Servers, NEW p \in network, ServerReceive(s, p),
         UNCHANGED clientVars
  PROVE  Moves
<1>1. p.kind \in Kind /\ p.dst = s /\ UNCHANGED <<network, requesting, awaiting>>
  BY PacketFields DEF IInv, TypeOK, ProtocolTypeOK, ServerReceive, Receives, clientVars
<1>2. ASSUME UNCHANGED <<connected, awaitingAck, scheduledAccepted>> PROVE Moves
  BY <1>1, <1>2, StillMoves DEF Moves
<1>3. ASSUME NEW error, Refused(s, p, error) PROVE Moves
  BY <1>2, <1>3 DEF Refused
<1>4. CASE p.kind = "ConnectionRequest"
  <2>1. OnConnectionRequest(s, p)
    BY <1>4 DEF ServerReceive, ServerOnReceived
  <2>2. CASE ConnectionRequestAnotherState(s, p.src)
    BY <1>3, <2>1, <2>2 DEF OnConnectionRequest
  <2>3. CASE /\ ~ConnectionRequestAnotherState(s, p.src)
             /\ connectionIdTracker[s] = ConnectionIdLimit
    BY <1>2, <2>1, <2>3 DEF OnConnectionRequest
  <2>4. CASE /\ ~ConnectionRequestAnotherState(s, p.src)
             /\ connectionIdTracker[s] # ConnectionIdLimit
    <3>1. Granted(s, p)
      BY <1>4, <2>1, <2>4 DEF OnConnectionRequest, Granted
    <3>2. QED
      BY <1>1, <3>1, GrantedMoves
  <2>5. QED
    BY <2>2, <2>3, <2>4
<1>5. CASE p.kind = "ConnectionAccepted"
  BY <1>3, <1>5 DEF ServerReceive, ServerOnReceived
<1>6. CASE p.kind = "DataTransfer"
  <2>1. ServerOnDataTransfer(s, p)
    BY <1>6 DEF ServerReceive, ServerOnReceived
  <2>2. QED
    BY <1>1, <1>3, <1>6, <2>1, AckPeerMoves DEF ServerOnDataTransfer
<1>7. CASE p.kind = "Fragment"
  <2>1. ServerOnFragment(s, p)
    BY <1>7 DEF ServerReceive, ServerOnReceived
  <2>2. QED
    BY <1>1, <1>3, <1>7, <2>1, AckPeerMoves DEF ServerOnFragment
<1>8. CASE p.kind = "Heartbeat"
  <2>1. ServerOnHeartbeat(s, p)
    BY <1>8 DEF ServerReceive, ServerOnReceived
  <2>2. QED
    BY <1>1, <1>2, <1>8, <2>1, AckPeerMoves DEF ServerOnHeartbeat
<1>9. QED
  BY <1>1, <1>4, <1>5, <1>6, <1>7, <1>8 DEF Kind

\* Every step of the system moves the trackers so.
LEMMA NextMoves == TrackerInv /\ [Next]_vars => Moves
<1> SUFFICES ASSUME TrackerInv, [Next]_vars PROVE Moves
  OBVIOUS
<1>1. IInv
  BY DEF TrackerInv
<1>2. ASSUME NEW c \in Clients, ClientNext(c), UNCHANGED serverVars PROVE Moves
  <2>1. CASE (\E s \in Servers : Connect(c, s)) \/ SendConnectionRequest(c)
    BY <1>1, <1>2, <2>1, ConnectMoves, SendConnectionRequestMoves
  <2>2. CASE RetryConnectionRequest(c) \/ ClientRetryDataTransfer(c)
    BY <1>1, <1>2, <2>2, RetryConnectionRequestMoves, ClientRetryMoves
  <2>3. CASE \E q \in Queue : ClientSend(c, q)
    BY <1>1, <1>2, <2>3, ClientSendMoves
  <2>4. CASE \E p \in network : ClientReceive(c, p)
    BY <1>1, <1>2, <2>4, ClientReceiveMoves
  <2>5. CASE \/ ClientPoll(c)
             \/ (Schedule(c) \/ Heartbeat(c) \/ Tick(c)) /\ UNCHANGED clientVars
    BY <1>2, <2>5, QuietMoves DEF ClientPoll, clientVars, serverVars, Endpoint
  <2>6. QED
    BY <1>2, <2>1, <2>2, <2>3, <2>4, <2>5 DEF ClientNext, ClientPolls
<1>3. ASSUME NEW s \in Servers, ServerNext(s), UNCHANGED clientVars PROVE Moves
  <2>1. CASE RetryConnectionAccepted(s) \/ SendConnectionAccepted(s)
    BY <1>1, <1>3, <2>1, RetryConnectionAcceptedMoves, SendConnectionAcceptedMoves
  <2>2. CASE ServerRetryDataTransfer(s) \/ ServerRetryFragment(s)
    <3>1. {"DataTransfer", "Fragment"} \subseteq SentKind
      BY DEF SentKind
    <3>2. QED
      BY <1>1, <1>3, <2>2, <3>1, RetrySentMoves
      DEF ServerRetryDataTransfer, ServerRetryFragment
  <2>3. CASE \E q \in Queue : ServerSend(s, q)
    BY <1>1, <1>3, <2>3, ServerSendMoves
  <2>4. CASE \E p \in network : ServerReceive(s, p)
    BY <1>1, <1>3, <2>4, ServerReceiveMoves
  <2>5. CASE \/ ServerPoll(s)
             \/ (Schedule(s) \/ Heartbeat(s) \/ Tick(s)) /\ UNCHANGED serverVars
    BY <1>3, <2>5, QuietMoves DEF ServerPoll, clientVars, serverVars, Endpoint
  <2>6. QED
    BY <1>3, <2>1, <2>2, <2>3, <2>4, <2>5 DEF ServerNext, ServerPolls
<1>4. CASE UNCHANGED vars
  BY <1>4, StillMoves DEF Moves, vars, protocolVars, clientVars, serverVars
<1>5. QED
  BY <1>2, <1>3, <1>4 DEF Next

-----------------------------------------------------------------------------
(***************************************************************************)
(* Every move keeps the invariant.                                         *)
(***************************************************************************)

\* A connected peer stays, and its sequence does not go back.
LEMMA MovesGrow ==
  ASSUME IInv, ConnectedMoves
  PROVE  /\ ConnectedGrows
         /\ \A e \in Endpoint, id \in ConnectionId :
              connected[e][id] # NoPeer =>
                 connected'[e][id].sequence >= connected[e][id].sequence
<1> SUFFICES ASSUME NEW e \in Endpoint, NEW id \in ConnectionId,
                    connected[e][id] # NoPeer
             PROVE  /\ connected'[e][id] # NoPeer
                    /\ connected'[e][id].address = connected[e][id].address
                    /\ connected'[e][id].sequence >= connected[e][id].sequence
  BY DEF ConnectedGrows
<1>1. /\ connected \in [Endpoint -> [ConnectionId -> Peer \cup {NoPeer}]]
      /\ network \subseteq Packet
  BY DEF IInv, TypeOK, ProtocolTypeOK
<1>2. PICK peer \in Peer : peer = connected[e][id]
  BY <1>1
<1>3. peer.sequence \in Nat
  BY WidthAssumption DEF Peer, Sequence
<1>4. CASE connected'[e][id] = connected[e][id]
  BY <1>2, <1>3, <1>4
<1>5. CASE /\ peer.sequence # SequenceLimit
           /\ connected'[e][id] = Advanced(peer)
  <2>1. Advanced(peer) \in Peer
    BY <1>5, NextSequenceType DEF Advanced
  <2>2. /\ Advanced(peer).address = peer.address
        /\ Advanced(peer).sequence = peer.sequence + 1
    BY DEF Advanced, Peer
  <2>3. QED
    BY <1>2, <1>3, <1>5, <2>1, <2>2, NoPeerAssumption
<1>6. ASSUME NEW p \in network, NEW old \in Peer, p.id = id, AckedBy(e, p, old),
             connected'[e][id] = Acked(old, p)
      PROVE  /\ connected'[e][id] # NoPeer
             /\ connected'[e][id].address = connected[e][id].address
             /\ connected'[e][id].sequence >= connected[e][id].sequence
  <2>1. old = peer
    BY <1>2, <1>6 DEF AckedBy
  <2>2. Acked(peer, p) # NoPeer /\ Acked(peer, p).address = peer.address
    BY <1>1, AckedSame
  <2>3. Acked(peer, p).sequence = peer.sequence
    BY DEF Acked, Peer
  <2>4. QED
    BY <1>2, <1>3, <1>6, <2>1, <2>2, <2>3
<1>7. ConnectedMove(e, id)
  BY DEF ConnectedMoves
<1>8. QED
  BY <1>2, <1>4, <1>5, <1>6, <1>7 DEF ConnectedMove

(***************************************************************************)
(* The peer a packet acks is the one who sent it: on_received looks it up  *)
(* by the id the packet claims, and the ids of the two sides agree.  What  *)
(* a server receives so is no accept.                                      *)
(***************************************************************************)
LEMMA AcksItsSender ==
  ASSUME IInv, SentToConnected, NEW e \in Endpoint, NEW p \in network,
         p.kind # "ConnectionRequest", p.dst = e, NEW old \in Peer,
         AckedBy(e, p, old)
  PROVE  /\ old.address = p.src
         /\ e \in Servers => p.kind \in SentKind
<1>1. /\ p \in Packet /\ old # NoPeer
      /\ connected \in [Endpoint -> [ConnectionId -> Peer \cup {NoPeer}]]
  BY NoPeerAssumption DEF IInv, TypeOK, ProtocolTypeOK
<1>2. p.kind \in Kind /\ p.src \in Endpoint /\ p.id \in ConnectionId
  BY <1>1, PacketFields
<1>3. CASE e \in Servers
  <2>1. e \notin Clients
    BY <1>3, EndpointAssumption
  <2>2. p.src \in Clients
    <3>1. ASSUME p.src \in Servers PROVE FALSE
      <4>1. Owns(p.src, p.id, e)
        BY <3>1 DEF IInv, PacketsSpeakTrue, FromServerTrue
      <4>2. QED
        BY <1>2, <2>1, <3>1, <4>1 DEF Owns, IInv, AddressesFit
    <3>2. QED
      BY <1>2, <3>1 DEF Endpoint
  <2>3. FromClientTrue(p)
    BY <2>2 DEF IInv, PacketsSpeakTrue
  <2>4. Owns(e, p.id, p.src)
    BY <1>2, <2>2, <2>3 DEF FromClientTrue, IInv, IdsAgree, ConnectedIds
  <2>5. old = Owner(e, p.id)
    BY <1>1, <2>1 DEF AckedBy, Owner
  <2>6. p.kind \in SentKind
    BY <1>2, <2>3 DEF FromClientTrue, Kind, SentKind
  <2>7. QED
    BY <2>4, <2>5, <2>6 DEF Owns
<1>4. CASE e \in Clients
  <2>1. e \notin Servers
    BY <1>4, EndpointAssumption
  <2>2. CASE old = connected[e][p.id] /\ p.kind \in SentKind
    <3>1. connected[p.src][p.id] # NoPeer /\ connected[p.src][p.id].address = e
      BY <2>2 DEF SentToConnected
    <3>2. p.src \in Servers
      <4>1. ASSUME p.src \in Clients PROVE FALSE
        BY <1>2, <2>1, <3>1, <4>1 DEF IInv, IdsAgree, ConnectedIds
      <4>2. QED
        BY <1>2, <4>1 DEF Endpoint
    <3>3. connected[e][p.id].address = p.src
      BY <1>2, <3>1, <3>2 DEF IInv, EstablishedOnBothSides, ConnectedIds
    <3>4. QED
      BY <2>1, <2>2, <3>3
  <2>3. CASE old = awaiting[e][p.src]
    BY <1>1, <1>2, <1>4, <2>1, <2>3 DEF IInv, AddressesFit
  <2>4. QED
    BY <1>4, <2>1, <2>2, <2>3 DEF AckedBy
<1>5. QED
  BY <1>3, <1>4 DEF Endpoint

\* A new packet to a connected peer, like an old one, is to who the map names.
LEMMA SentToConnectedKept ==
  ASSUME IInv, SentToConnected, Moves
  PROVE  SentToConnected'
<1>1. ConnectedGrows /\ network \subseteq Packet
  BY MovesGrow DEF Moves, IInv, TypeOK, ProtocolTypeOK
<1> SUFFICES ASSUME NEW p \in network', p.kind \in SentKind
             PROVE  /\ connected'[p.src][p.id] # NoPeer
                    /\ connected'[p.src][p.id].address = p.dst
  BY DEF SentToConnected
<1>2. CASE p \in network
  <2>1. p.src \in Endpoint /\ p.id \in ConnectionId
    BY <1>1, <1>2, PacketFields DEF SentKind
  <2>2. QED
    BY <1>1, <1>2, <2>1 DEF SentToConnected, ConnectedGrows
<1>3. CASE NewPacket(p)
  BY <1>1, <1>3 DEF NewPacket, Made, SentKind, ConnectedGrows
<1>4. QED
  BY <1>2, <1>3 DEF Moves, NetworkMoves

\* What was sent stays sent, and an advanced peer keeps its acks.
LEMMA WasSentKept ==
  ASSUME NetworkMoves, NEW e, NEW from, NEW sequence, WasSent(e, from, sequence)
  PROVE  WasSent(e, from, sequence)'
BY DEF WasSent, NetworkMoves

\* Advancing the sequence changes no ack and no address.
LEMMA AdvancedSame ==
  ASSUME NEW peer \in Peer
  PROVE  /\ Advanced(peer).address = peer.address
         /\ Advanced(peer).remoteAck = peer.remoteAck
         /\ Advanced(peer).localAck = peer.localAck
BY DEF Advanced, Peer

\* A receipt overwrites both acks by what the packet carries.
LEMMA AckedFields ==
  ASSUME NEW peer \in Peer, NEW p
  PROVE  /\ Acked(peer, p).address = peer.address
         /\ Acked(peer, p).remoteAck = p.sequence
         /\ Acked(peer, p).localAck = p.ack
BY DEF Acked, Peer

\* The remote ack of a connected peer is of a packet it sent.
LEMMA ConnectedRemoteKept ==
  ASSUME TrackerInv, Moves, NEW e \in Endpoint, NEW id \in ConnectionId,
         connected'[e][id] # NoPeer
  PROVE  /\ connected'[e][id].remoteAck # 0
         /\ \E q \in network' : /\ q.src = connected'[e][id].address
                                /\ q.dst = e
                                /\ q.sequence = connected'[e][id].remoteAck
<1>1. /\ connected \in [Endpoint -> [ConnectionId -> Peer \cup {NoPeer}]]
      /\ network \subseteq Packet /\ network \subseteq network'
  BY DEF TrackerInv, IInv, TypeOK, ProtocolTypeOK, Moves, NetworkMoves
<1>2. ASSUME connected[e][id] # NoPeer
      PROVE  /\ connected[e][id].remoteAck # 0
             /\ \E q \in network' : /\ q.src = connected[e][id].address
                                    /\ q.dst = e
                                    /\ q.sequence = connected[e][id].remoteAck
  BY <1>1, <1>2 DEF TrackerInv, RemoteAcksWereSent, WasSent, ConnectedIds
<1>3. CASE connected'[e][id] = connected[e][id]
  BY <1>2, <1>3
<1>4. CASE /\ connected[e][id] # NoPeer
           /\ connected[e][id].sequence # SequenceLimit
           /\ connected'[e][id] = Advanced(connected[e][id])
  <2>1. PICK peer \in Peer : peer = connected[e][id]
    BY <1>1, <1>4
  <2>2. QED
    BY <1>2, <1>4, <2>1, AdvancedSame
<1>5. ASSUME NEW p \in network, NEW old \in Peer, p.kind # "ConnectionRequest",
             p.dst = e, AckedBy(e, p, old), connected'[e][id] = Acked(old, p)
      PROVE  /\ connected'[e][id].remoteAck # 0
             /\ \E q \in network' : /\ q.src = connected'[e][id].address
                                    /\ q.dst = e
                                    /\ q.sequence = connected'[e][id].remoteAck
  <2>1. old.address = p.src
    BY <1>5, AcksItsSender DEF TrackerInv
  <2>2. p.sequence # 0
    BY <1>1, PacketFields DEF Sequence
  <2>3. QED
    BY <1>1, <1>5, <2>1, <2>2, AckedFields
<1>6. ConnectedMove(e, id)
  BY DEF Moves, ConnectedMoves
<1>7. QED
  BY <1>3, <1>4, <1>5, <1>6 DEF ConnectedMove

\* The remote ack of a peer that awaits its ack is of its request.
LEMMA AwaitingRemoteKept ==
  ASSUME TrackerInv, Moves, NEW s \in Servers, NEW id \in ConnectionId,
         awaitingAck'[s][id] # NoPeer
  PROVE  \E q \in network' : /\ q.src = awaitingAck'[s][id].address
                             /\ q.dst = s
                             /\ q.sequence = awaitingAck'[s][id].remoteAck
<1>1. /\ awaitingAck \in [Servers -> [ConnectionId -> Peer \cup {NoPeer}]]
      /\ network \subseteq network'
  BY DEF TrackerInv, IInv, TypeOK, ServerTypeOK, Moves, NetworkMoves
<1>2. ASSUME awaitingAck[s][id] # NoPeer
      PROVE  \E q \in network' : /\ q.src = awaitingAck[s][id].address
                                 /\ q.dst = s
                                 /\ q.sequence = awaitingAck[s][id].remoteAck
  BY <1>1, <1>2 DEF TrackerInv, RemoteAcksWereSent, WasSent
<1>3. CASE awaitingAck'[s][id] = awaitingAck[s][id]
  BY <1>2, <1>3
<1>4. ASSUME NEW p \in network, p.dst = s,
             awaitingAck'[s][id] = NewPeer(p.src, p.sequence)
      PROVE  \E q \in network' : /\ q.src = awaitingAck'[s][id].address
                                 /\ q.dst = s
                                 /\ q.sequence = awaitingAck'[s][id].remoteAck
  BY <1>1, <1>4 DEF NewPeer
<1>5. CASE awaitingAck[s][id] # NoPeer /\ awaitingAck'[s][id] = Advanced(awaitingAck[s][id])
  <2>1. PICK peer \in Peer : peer = awaitingAck[s][id]
    BY <1>1, <1>5
  <2>2. QED
    BY <1>2, <1>5, <2>1, AdvancedSame
<1>6. ServerMove(s, id)
  BY DEF Moves, ServerMoves
<1>7. QED
  BY <1>3, <1>4, <1>5, <1>6 DEF ServerMove

\* Remote acks stay what was received: no handler mixes up two peers.
LEMMA RemoteAcksKept ==
  ASSUME TrackerInv, Moves
  PROVE  RemoteAcksWereSent'
<1>1. ASSUME NEW e \in Endpoint, NEW id \in ConnectedIds(e)'
      PROVE  /\ connected'[e][id].remoteAck # 0
             /\ \E q \in network' : /\ q.src = connected'[e][id].address
                                    /\ q.dst = e
                                    /\ q.sequence = connected'[e][id].remoteAck
  BY <1>1, ConnectedRemoteKept DEF ConnectedIds
<1>2. ASSUME NEW s \in Servers, NEW id \in ConnectionId, awaitingAck'[s][id] # NoPeer
      PROVE  \E q \in network' : /\ q.src = awaitingAck'[s][id].address
                                 /\ q.dst = s
                                 /\ q.sequence = awaitingAck'[s][id].remoteAck
  BY <1>2, AwaitingRemoteKept
<1>3. ASSUME NEW c \in Clients, NEW a \in Endpoint
      PROVE  /\ requesting'[c][a] # NoPeer => requesting'[c][a].remoteAck = 0
             /\ awaiting'[c][a] # NoPeer => awaiting'[c][a].remoteAck = 0
  <2>1. /\ requesting[c][a] \in Peer \cup {NoPeer}
        /\ requesting[c][a] # NoPeer => requesting[c][a].remoteAck = 0
        /\ awaiting[c][a] # NoPeer => awaiting[c][a].remoteAck = 0
    BY DEF TrackerInv, IInv, TypeOK, ClientTypeOK, RemoteAcksWereSent
  <2>2. requesting'[c][a] # NoPeer => requesting'[c][a].remoteAck = 0
    <3>1. NewPeer(a, 0).remoteAck = 0
      BY DEF NewPeer
    <3>2. \/ requesting'[c][a] \in {requesting[c][a], NoPeer}
          \/ requesting'[c][a] = NewPeer(a, 0)
      BY DEF Moves, ClientMoves
    <3>3. QED
      BY <2>1, <3>1, <3>2
  <2>3. ASSUME requesting[c][a] # NoPeer, awaiting'[c][a] = Advanced(requesting[c][a])
        PROVE  awaiting'[c][a].remoteAck = 0
    <3>1. PICK peer \in Peer : peer = requesting[c][a]
      BY <2>1, <2>3
    <3>2. QED
      BY <2>1, <2>3, <3>1, AdvancedSame
  <2>4. awaiting'[c][a] # NoPeer => awaiting'[c][a].remoteAck = 0
    BY <2>1, <2>3 DEF Moves, ClientMoves
  <2>5. QED
    BY <2>2, <2>4
<1>4. \A e \in Endpoint : \A id \in ConnectedIds(e)' :
        /\ connected'[e][id].remoteAck # 0
        /\ \E q \in network' : /\ q.src = connected'[e][id].address
                               /\ q.dst = e
                               /\ q.sequence = connected'[e][id].remoteAck
  BY <1>1
<1>5. \A s \in Servers, id \in ConnectionId :
        awaitingAck'[s][id] # NoPeer =>
           \E q \in network' : /\ q.src = awaitingAck'[s][id].address
                               /\ q.dst = s
                               /\ q.sequence = awaitingAck'[s][id].remoteAck
  BY <1>2
<1>6. QED
  BY <1>3, <1>4, <1>5, Zenon DEF RemoteAcksWereSent, WasSent

\* A new packet acks what its sender's peer has as remote ack.
LEMMA AcksWereSentKept ==
  ASSUME TrackerInv, Moves
  PROVE  AcksWereSent'
<1> SUFFICES ASSUME NEW p \in network'
             PROVE  \/ p.ack = 0
                    \/ \E q \in network' :
                         q.src = p.dst /\ q.dst = p.src /\ q.sequence = p.ack
  BY DEF AcksWereSent
<1>1. network \subseteq network'
  BY DEF Moves, NetworkMoves
<1>2. CASE p \in network
  BY <1>1, <1>2 DEF TrackerInv, AcksWereSent
<1>3. CASE /\ p.kind \in SentKind /\ p.src \in Endpoint /\ p.id \in ConnectionId
           /\ Made(p, connected[p.src][p.id])
  BY <1>1, <1>3 DEF Made, TrackerInv, RemoteAcksWereSent, WasSent, ConnectedIds
<1>4. CASE /\ p.kind = "ConnectionAccepted" /\ p.src \in Servers /\ p.id \in ConnectionId
           /\ Made(p, awaitingAck[p.src][p.id])
  BY <1>1, <1>4 DEF Made, TrackerInv, RemoteAcksWereSent, WasSent
<1>5. CASE /\ p.kind = "ConnectionRequest" /\ p.src \in Clients /\ p.dst \in Endpoint
           /\ Made(p, requesting[p.src][p.dst])
  BY <1>5 DEF Made, TrackerInv, RemoteAcksWereSent
<1>6. QED
  BY <1>2, <1>3, <1>4, <1>5 DEF Moves, NetworkMoves, NewPacket

\* What a connected peer sends acks something, and that is what connects it.
LEMMA ConnectedAcksKept ==
  ASSUME TrackerInv, Moves
  PROVE  ConnectedAcks'
<1>1. ASSUME NEW p \in network', p.kind \in SentKind PROVE p.ack # 0
  <2>1. CASE p \in network
    BY <1>1, <2>1 DEF TrackerInv, ConnectedAcks
  <2>2. CASE NewPacket(p)
    BY <1>1, <2>2
    DEF NewPacket, Made, SentKind, TrackerInv, RemoteAcksWereSent, ConnectedIds
  <2>3. QED
    BY <2>1, <2>2 DEF Moves, NetworkMoves
<1>2. ASSUME NEW s \in Servers, NEW id \in ConnectionId, connected'[s][id] # NoPeer
      PROVE  connected'[s][id].localAck # 0
  <2>1. /\ connected \in [Endpoint -> [ConnectionId -> Peer \cup {NoPeer}]]
        /\ s \in Endpoint
    BY DEF TrackerInv, IInv, TypeOK, ProtocolTypeOK, Endpoint
  <2>2. connected[s][id] # NoPeer => connected[s][id].localAck # 0
    BY DEF TrackerInv, ConnectedAcks, ConnectedIds
  <2>3. CASE connected'[s][id] = connected[s][id]
    BY <1>2, <2>2, <2>3
  <2>4. CASE /\ connected[s][id] # NoPeer
             /\ connected[s][id].sequence # SequenceLimit
             /\ connected'[s][id] = Advanced(connected[s][id])
    <3>1. PICK peer \in Peer : peer = connected[s][id]
      BY <2>1, <2>4
    <3>2. QED
      BY <2>2, <2>4, <3>1, AdvancedSame
  <2>5. ASSUME NEW p \in network, NEW old \in Peer, p.kind # "ConnectionRequest",
               p.dst = s, AckedBy(s, p, old), connected'[s][id] = Acked(old, p)
        PROVE  connected'[s][id].localAck # 0
    <3>1. p.kind \in SentKind
      BY <2>1, <2>5, AcksItsSender DEF TrackerInv
    <3>2. p.ack # 0
      BY <3>1 DEF TrackerInv, ConnectedAcks
    <3>3. QED
      BY <2>5, <3>2, AckedFields
  <2>6. ConnectedMove(s, id)
    BY <2>1 DEF Moves, ConnectedMoves
  <2>7. QED
    BY <2>3, <2>4, <2>5, <2>6 DEF ConnectedMove
<1>3. QED
  BY <1>1, <1>2 DEF ConnectedAcks, ConnectedIds

\* An id is somebody's before a move, or the move grants it.
LEMMA OwnedBefore ==
  ASSUME TrackerInv, Moves, NEW s \in Servers, NEW id \in ConnectionId,
         Owner(s, id)' # NoPeer,
         awaitingAck'[s][id] \in {awaitingAck[s][id], NoPeer}
  PROVE  Owner(s, id) # NoPeer
<1>1. s \in Endpoint /\ s \notin Clients
  BY EndpointAssumption DEF Endpoint
<1>2. connected'[s][id] # NoPeer \/ awaitingAck'[s][id] # NoPeer
  BY DEF Owner
<1>3. CASE awaitingAck'[s][id] # NoPeer
  BY <1>3 DEF Owner
<1>4. CASE connected'[s][id] # NoPeer
  <2>1. ConnectedMove(s, id)
    BY <1>1 DEF Moves, ConnectedMoves
  <2>2. CASE connected[s][id] # NoPeer
    BY <2>2 DEF Owner
  <2>3. CASE \E p \in network, old \in Peer : p.id = id /\ AckedBy(s, p, old)
    BY <1>1, <2>3, NoPeerAssumption DEF AckedBy, Owner
  <2>4. QED
    BY <1>4, <2>1, <2>2, <2>3 DEF ConnectedMove
<1>5. QED
  BY <1>2, <1>3, <1>4

\* The accept of an id goes out before its peer's sequence moves from 1.
LEMMA AcceptsAreFirstKept ==
  ASSUME TrackerInv, IInv', Moves
  PROVE  AcceptsAreFirst'
<1> DEFINE Sent1(s, id) == \E p \in network' : /\ p.kind = "ConnectionAccepted"
                                               /\ p.src = s
                                               /\ p.id = id
                                               /\ p.sequence = 1
<1>1. ASSUME NEW s \in Servers, NEW id \in ConnectionId, Owner(s, id)' # NoPeer
      PROVE  IF AcceptPending(s, id)'
               THEN awaitingAck'[s][id] # NoPeer /\ awaitingAck'[s][id].sequence = 1
               ELSE Sent1(s, id)
  <2>1. /\ network \subseteq network'
        /\ network \subseteq Packet
    BY DEF Moves, NetworkMoves, TrackerInv, IInv, TypeOK, ProtocolTypeOK
  <2>2. ASSUME Owner(s, id) # NoPeer
        PROVE  /\ AcceptPending(s, id) =>
                    awaitingAck[s][id] # NoPeer /\ awaitingAck[s][id].sequence = 1
               /\ ~AcceptPending(s, id) => Sent1(s, id)
    BY <2>1, <2>2 DEF TrackerInv, AcceptsAreFirst
  <2>3. AcceptPending(s, id)' => awaitingAck'[s][id] # NoPeer
    BY DEF IInv, AcceptsAwait, AcceptPending
  <2>4. CASE /\ AcceptPending(s, id)' <=> AcceptPending(s, id)
             /\ awaitingAck'[s][id] \in {awaitingAck[s][id], NoPeer}
    <3>1. Owner(s, id) # NoPeer
      BY <1>1, <2>4, OwnedBefore
    <3>2. QED
      BY <2>2, <2>3, <2>4, <3>1
  <2>5. ASSUME AcceptPending(s, id)', NEW p \in network, p.src \in Endpoint,
               awaitingAck'[s][id] = NewPeer(p.src, p.sequence)
        PROVE  awaitingAck'[s][id] # NoPeer /\ awaitingAck'[s][id].sequence = 1
    BY <2>3, <2>5 DEF NewPeer
  <2>6. CASE /\ AcceptPending(s, id) /\ ~AcceptPending(s, id)'
             /\ awaitingAck[s][id] # NoPeer
             /\ \E p \in network' : /\ p.kind = "ConnectionAccepted"
                                    /\ p.src = s
                                    /\ p.id = id
                                    /\ p.sequence = awaitingAck[s][id].sequence
    <3>1. Owner(s, id) # NoPeer
      BY <2>6 DEF Owner
    <3>2. awaitingAck[s][id].sequence = 1
      BY <2>2, <2>6, <3>1
    <3>3. QED
      BY <2>6, <3>2
  <2>7. ServerMove(s, id)
    BY DEF Moves, ServerMoves
  <2> HIDE DEF Sent1
  <2>8. QED
    BY <2>4, <2>5, <2>6, <2>7 DEF ServerMove
<1>2. QED
  BY <1>1, Zenon DEF AcceptsAreFirst

\* A client's step is not a server's: the phases of the servers stay.
LEMMA ClientPhases ==
  ASSUME TypeOK, NEW c \in Clients, ClientNext(c), NEW s \in Servers
  PROVE  phase'[s] = phase[s]
<1>1. phase \in [Endpoint -> Phase] /\ s # c /\ s \in Endpoint
  BY EndpointAssumption DEF TypeOK, ProtocolTypeOK, Endpoint
<1>2. ASSUME NEW next, phase' = [phase EXCEPT ![c] = next] \/ phase' = phase
      PROVE  phase'[s] = phase[s]
  BY <1>1, <1>2
<1>3. CASE \E x \in Servers : Connect(c, x)
  BY <1>1, <1>3 DEF Connect
<1>4. CASE RetryConnectionRequest(c)
  BY <1>1, <1>4 DEF RetryConnectionRequest, SendRequest
<1>5. CASE SendConnectionRequest(c)
  BY <1>1, <1>5 DEF SendConnectionRequest, SendRequest
<1>6. CASE ClientRetryDataTransfer(c)
  BY <1>1, <1>6 DEF ClientRetryDataTransfer, Resend, SendPacket, Forget
<1>7. CASE \E q \in Queue : ClientSend(c, q)
  BY <1>1, <1>7 DEF ClientSend, SendScheduled, SendPacket
<1>8. CASE ClientPoll(c)
  BY <1>1, <1>8 DEF ClientPoll, PollHandler
<1>9. CASE \E p \in network : ClientReceive(c, p)
  BY <1>1, <1>9 DEF ClientReceive, Returns
<1>10. CASE Schedule(c) \/ Heartbeat(c) \/ Tick(c)
  BY <1>10 DEF Schedule, Heartbeat, Enqueue, Tick
<1>11. QED
  BY <1>3, <1>4, <1>5, <1>6, <1>7, <1>8, <1>9, <1>10 DEF ClientNext, ClientPolls

\* Where a server is in its poll and how many accepts it holds there.
TraceFits(at, accepts, waiting) ==
  /\ at \in {"app", "retryData", "retryFragment"} => accepts = <<>>
  /\ at = "send" => Len(accepts) + Len(waiting) <= 1
  /\ at = "poll" => Len(accepts) <= 1

\* A server's step leaves the other servers where they are.
LEMMA OtherServers ==
  ASSUME TypeOK, NEW s \in Servers, ServerNext(s), NEW x \in Servers, x # s
  PROVE  /\ phase'[x] = phase[x]
         /\ sentAccepted'[x] = sentAccepted[x]
         /\ scheduledAccepted'[x] = scheduledAccepted[x]
<1>1. /\ phase \in [Endpoint -> Phase] /\ x \in Endpoint
      /\ sentAccepted \in [Servers -> Seq(Sent)]
      /\ scheduledAccepted \in [Servers -> Seq(ScheduledAccepted)]
  BY DEF TypeOK, ProtocolTypeOK, ServerTypeOK, Endpoint
<1>2. CASE RetryConnectionAccepted(s)
  BY <1>1, <1>2 DEF RetryConnectionAccepted, SendAccepted
<1>3. CASE SendConnectionAccepted(s)
  BY <1>1, <1>3 DEF SendConnectionAccepted, SendAccepted
<1>4. CASE ServerRetryDataTransfer(s) \/ ServerRetryFragment(s)
  BY <1>1, <1>4 DEF ServerRetryDataTransfer, ServerRetryFragment, RetrySent,
     Resend, SendPacket, Forget, serverVars
<1>5. CASE \E q \in Queue : ServerSend(s, q)
  BY <1>1, <1>5 DEF ServerSend, SendScheduled, SendPacket, serverVars
<1>6. CASE ServerPoll(s)
  BY <1>1, <1>6 DEF ServerPoll, PollHandler
<1>7. ASSUME NEW p \in network, ServerReceive(s, p)
      PROVE  /\ phase'[x] = phase[x]
             /\ sentAccepted'[x] = sentAccepted[x]
             /\ scheduledAccepted'[x] = scheduledAccepted[x]
  <2>1. UNCHANGED sentAccepted
    BY <1>7 DEF ServerReceive, ServerOnReceived
  <2>2. CASE p.kind = "ConnectionRequest"
    <3>1. OnConnectionRequest(s, p)
      BY <1>7, <2>2 DEF ServerReceive, ServerOnReceived
    <3>2. QED
      BY <1>1, <2>1, <3>1 DEF OnConnectionRequest, Refused, Returns
  <2>3. CASE p.kind # "ConnectionRequest"
    <3>1. p.kind \in Kind
      BY PacketFields DEF TypeOK, ProtocolTypeOK
    <3>2. \/ \E error : Refused(s, p, error)
          \/ ServerOnDataTransfer(s, p)
          \/ ServerOnFragment(s, p)
          \/ ServerOnHeartbeat(s, p)
      BY <1>7, <2>3, <3>1 DEF ServerReceive, ServerOnReceived, Kind
    <3>3. Returns(s) /\ UNCHANGED scheduledAccepted
      BY <3>2 DEF Refused, AckPeer, ServerOnDataTransfer, ServerOnFragment,
         ServerOnHeartbeat
    <3>4. QED
      BY <1>1, <2>1, <3>3 DEF Returns
  <2>4. QED
    BY <2>2, <2>3
<1>8. CASE (Schedule(s) \/ Heartbeat(s) \/ Tick(s)) /\ UNCHANGED serverVars
  BY <1>8 DEF Schedule, Heartbeat, Enqueue, Tick, serverVars
<1>9. QED
  BY <1>2, <1>3, <1>4, <1>5, <1>6, <1>7, <1>8 DEF ServerNext, ServerPolls

\* A server's own step keeps its place and its list of accepts in line.
LEMMA OwnTrace ==
  ASSUME TrackerInv, IInv', NEW s \in Servers, ServerNext(s)
  PROVE  TraceFits(phase'[s], sentAccepted'[s], scheduledAccepted'[s])
<1>1. /\ phase \in [Endpoint -> Phase] /\ s \in Endpoint
      /\ sentAccepted \in [Servers -> Seq(Sent)]
      /\ scheduledAccepted \in [Servers -> Seq(ScheduledAccepted)]
  BY DEF TrackerInv, IInv, TypeOK, ProtocolTypeOK, ServerTypeOK, Endpoint
<1>2. /\ sentAccepted'[s] \in Seq(Sent)
      /\ scheduledAccepted'[s] \in Seq(ScheduledAccepted)
      /\ Len(scheduledAccepted'[s]) <= 1
  BY DEF IInv, TypeOK, ServerTypeOK, AcceptsAwait
<1>3. TraceFits(phase[s], sentAccepted[s], scheduledAccepted[s])
  BY DEF TrackerInv, AcceptTrace, TraceFits
<1>4. ASSUME NEW next, next \notin {"send", "poll"}, phase' = [phase EXCEPT ![s] = next],
             sentAccepted'[s] = <<>>
      PROVE  TraceFits(phase'[s], sentAccepted'[s], scheduledAccepted'[s])
  BY <1>1, <1>4 DEF TraceFits
<1>5. ASSUME NEW next \in Stopped, phase' = [phase EXCEPT ![s] = next]
      PROVE  TraceFits(phase'[s], sentAccepted'[s], scheduledAccepted'[s])
  BY <1>1, <1>5 DEF TraceFits, Stopped
<1>6. ASSUME phase'[s] = phase[s], UNCHANGED <<sentAccepted, scheduledAccepted>>
      PROVE  TraceFits(phase'[s], sentAccepted'[s], scheduledAccepted'[s])
  BY <1>3, <1>6
<1>7. {"exhausted", "expect"} \subseteq Stopped
  BY DEF Stopped
<1>8. CASE RetryConnectionAccepted(s)
  <2>1. sentAccepted[s] = <<>>
    BY <1>3, <1>8 DEF RetryConnectionAccepted, TraceFits
  <2>2. Front(sentAccepted[s]) = <<>>
    BY <2>1 DEF Front
  <2>3. phase' = [phase EXCEPT ![s] = "retryData"] /\ sentAccepted'[s] = <<>>
    BY <1>1, <1>8, <2>1, <2>2 DEF RetryConnectionAccepted, Overdue
  <2>4. QED
    BY <1>4, <2>3
<1>9. CASE ServerRetryDataTransfer(s)
  <2>1. sentAccepted'[s] = <<>>
    BY <1>3, <1>9 DEF ServerRetryDataTransfer, RetrySent, serverVars, TraceFits
  <2>2. \/ phase' = [phase EXCEPT ![s] = "retryFragment"]
        \/ phase' = [phase EXCEPT ![s] = "exhausted"]
    BY <1>9 DEF ServerRetryDataTransfer, RetrySent, Resend, Forget, SendPacket
  <2>3. QED
    BY <1>4, <2>1, <2>2
<1>10. CASE ServerRetryFragment(s)
  <2>1. sentAccepted'[s] = <<>>
    BY <1>3, <1>10 DEF ServerRetryFragment, RetrySent, serverVars, TraceFits
  <2>2. \/ phase' = [phase EXCEPT ![s] = "send"]
        \/ phase' = [phase EXCEPT ![s] = "exhausted"]
    BY <1>10 DEF ServerRetryFragment, RetrySent, Resend, Forget, SendPacket
  <2>3. CASE phase' = [phase EXCEPT ![s] = "send"]
    <3>1. Len(sentAccepted'[s]) = 0 /\ Len(scheduledAccepted'[s]) \in Nat
      BY <1>2, <2>1
    <3>2. phase'[s] = "send"
      BY <1>1, <2>3
    <3>3. QED
      BY <1>2, <3>1, <3>2 DEF TraceFits
  <2>4. QED
    BY <1>5, <1>7, <2>2, <2>3
<1>11. CASE SendConnectionAccepted(s)
  <2>1. \/ phase' = [phase EXCEPT ![s] = "expect"]
        \/ phase' = [phase EXCEPT ![s] = "exhausted"]
        \/ /\ phase' = [phase EXCEPT ![s] = "send"]
           /\ \E x : sentAccepted' = [sentAccepted EXCEPT ![s] = Append(sentAccepted[s], x)]
    BY <1>11 DEF SendConnectionAccepted, SendAccepted
  <2>2. ASSUME NEW x, phase' = [phase EXCEPT ![s] = "send"],
               sentAccepted' = [sentAccepted EXCEPT ![s] = Append(sentAccepted[s], x)]
        PROVE  TraceFits(phase'[s], sentAccepted'[s], scheduledAccepted'[s])
    <3>1. Len(sentAccepted'[s]) = Len(sentAccepted[s]) + 1
      BY <1>1, <2>2
    <3>2. /\ scheduledAccepted[s] # <<>>
          /\ scheduledAccepted'[s] = Tail(scheduledAccepted[s])
          /\ phase[s] = "send"
      BY <1>1, <1>11 DEF SendConnectionAccepted
    <3>3. Len(scheduledAccepted'[s]) = Len(scheduledAccepted[s]) - 1
      BY <1>1, <3>2
    <3>4. Len(sentAccepted[s]) + Len(scheduledAccepted[s]) <= 1
      BY <1>3, <3>2 DEF TraceFits
    <3>5. Len(sentAccepted[s]) \in Nat /\ Len(scheduledAccepted[s]) \in Nat
      BY <1>1
    <3>6. Len(sentAccepted'[s]) + Len(scheduledAccepted'[s]) <= 1
      <4>1. \A m, n \in Nat : m + n <= 1 => (m + 1) + (n - 1) <= 1
        OBVIOUS
      <4>2. QED
        BY <3>1, <3>3, <3>4, <3>5, <4>1
    <3>7. phase'[s] = "send"
      BY <1>1, <2>2
    <3>8. QED
      BY <3>6, <3>7 DEF TraceFits
  <2>3. QED
    BY <1>5, <1>7, <2>1, <2>2
<1>12. CASE \E q \in Queue : ServerSend(s, q)
  <2>1. /\ UNCHANGED <<sentAccepted, scheduledAccepted>> /\ phase[s] = "send"
        /\ \/ phase' = [phase EXCEPT ![s] = "send"]
           \/ phase' = [phase EXCEPT ![s] = "expect"]
           \/ phase' = [phase EXCEPT ![s] = "exhausted"]
    BY <1>12 DEF ServerSend, SendScheduled, SendPacket, serverVars
  <2>2. QED
    BY <1>1, <1>5, <1>6, <1>7, <2>1
<1>13. ASSUME NEW p \in network, ServerReceive(s, p)
       PROVE  TraceFits(phase'[s], sentAccepted'[s], scheduledAccepted'[s])
  <2>1. /\ phase[s] = "send" /\ scheduledAccepted[s] = <<>>
        /\ UNCHANGED sentAccepted
    BY <1>13 DEF ServerReceive, ServerOnReceived, Receives
  <2>2. Len(sentAccepted[s]) <= 1
    <3>1. Len(sentAccepted[s]) + Len(scheduledAccepted[s]) <= 1
      BY <1>3, <2>1 DEF TraceFits
    <3>2. Len(scheduledAccepted[s]) = 0 /\ Len(sentAccepted[s]) \in Nat
      BY <1>1, <2>1
    <3>3. QED
      BY <3>1, <3>2
  <2>3. p.kind \in Kind
    BY PacketFields DEF TrackerInv, IInv, TypeOK, ProtocolTypeOK
  <2>4. Returns(s) \/ phase' = [phase EXCEPT ![s] = "exhausted"]
    BY <1>13, <2>3 DEF ServerReceive, ServerOnReceived, Kind, OnConnectionRequest,
       Refused, AckPeer, ServerOnDataTransfer, ServerOnFragment, ServerOnHeartbeat
  <2>5. CASE Returns(s)
    BY <1>1, <2>1, <2>2, <2>5 DEF Returns, TraceFits
  <2>6. QED
    BY <1>5, <1>7, <2>4, <2>5
<1>14. CASE ServerPoll(s)
  <2>1. Len(sentAccepted[s]) <= 1
    BY <1>3, <1>14 DEF TraceFits, ServerPoll, PollHandler
  <2>2. WithoutFirst(sentAccepted[s]) = <<>>
    <3>1. CASE sentAccepted[s] = <<>>
      BY <3>1 DEF WithoutFirst
    <3>2. CASE sentAccepted[s] # <<>>
      <4>1. sentAccepted[s] \in Seq(Sent)
        BY <1>1
      <4>2. Tail(sentAccepted[s]) = <<>>
        BY <2>1, <3>2, <4>1
      <4>3. QED
        BY <3>2, <4>2 DEF WithoutFirst
    <3>3. QED
      BY <3>1, <3>2
  <2>3. phase' = [phase EXCEPT ![s] = "app"] /\ sentAccepted'[s] = <<>>
    BY <1>1, <1>14, <2>2 DEF ServerPoll, PollHandler
  <2>4. QED
    BY <1>4, <2>3
<1>15. CASE (Schedule(s) \/ Heartbeat(s) \/ Tick(s)) /\ UNCHANGED serverVars
  BY <1>6, <1>15 DEF Schedule, Heartbeat, Enqueue, Tick, serverVars
<1>16. QED
  BY <1>8, <1>9, <1>10, <1>11, <1>12, <1>13, <1>14, <1>15 DEF ServerNext, ServerPolls

\* No step leaves an accept behind for a retry to find.
LEMMA AcceptTraceKept ==
  ASSUME TrackerInv, IInv', [Next]_vars
  PROVE  AcceptTrace'
<1>1. TypeOK
  BY DEF TrackerInv, IInv
<1>2. ASSUME NEW x \in Servers
      PROVE  TraceFits(phase'[x], sentAccepted'[x], scheduledAccepted'[x])
  <2>1. TraceFits(phase[x], sentAccepted[x], scheduledAccepted[x])
    BY DEF TrackerInv, AcceptTrace, TraceFits
  <2>2. ASSUME NEW c \in Clients, ClientNext(c), UNCHANGED serverVars
        PROVE  TraceFits(phase'[x], sentAccepted'[x], scheduledAccepted'[x])
    BY <1>1, <2>1, <2>2, ClientPhases DEF serverVars
  <2>3. ASSUME NEW s \in Servers, ServerNext(s)
        PROVE  TraceFits(phase'[x], sentAccepted'[x], scheduledAccepted'[x])
    <3>1. CASE x = s
      BY <2>3, <3>1, OwnTrace
    <3>2. CASE x # s
      BY <1>1, <2>1, <2>3, <3>2, OtherServers
    <3>3. QED
      BY <3>1, <3>2
  <2>4. CASE UNCHANGED vars
    BY <2>1, <2>4 DEF vars, protocolVars, serverVars
  <2>5. QED
    BY <2>2, <2>3, <2>4 DEF Next
<1>3. QED
  BY <1>2 DEF AcceptTrace, TraceFits

-----------------------------------------------------------------------------
(***************************************************************************)
(* The theorems.                                                           *)
(***************************************************************************)

\* Nobody has acked, sent or granted anything at the start.
LEMMA TrackerInit == Init => TrackerInv
<1> SUFFICES ASSUME Init PROVE TrackerInv
  OBVIOUS
<1>1. IInv
  BY IInvInit
<1> USE DEF Init, ProtocolInit, ClientInit, ServerInit
<1>2. SentToConnected /\ AcksWereSent
  BY DEF SentToConnected, AcksWereSent
<1>3. \A e \in Endpoint : ConnectedIds(e) = {}
  BY DEF ConnectedIds
<1>4. RemoteAcksWereSent
  BY <1>3 DEF RemoteAcksWereSent
<1>5. ConnectedAcks
  BY <1>3 DEF ConnectedAcks, Endpoint
<1>6. \A s \in Servers, id \in ConnectionId : Owner(s, id) = NoPeer
  BY DEF Owner, Endpoint
<1>7. AcceptsAreFirst
  BY <1>6 DEF AcceptsAreFirst
<1>8. AcceptTrace
  BY DEF AcceptTrace, Endpoint
<1>9. QED
  BY <1>1, <1>2, <1>4, <1>5, <1>7, <1>8 DEF TrackerInv

\* The second inductive invariant is inductive.
LEMMA TrackerNext == TrackerInv /\ [Next]_vars => TrackerInv'
<1> SUFFICES ASSUME TrackerInv, [Next]_vars PROVE TrackerInv'
  OBVIOUS
<1>1. IInv /\ SentToConnected
  BY DEF TrackerInv
<1>2. IInv'
  BY <1>1, IInvNext
<1>3. Moves
  BY NextMoves
<1>4. SentToConnected'
  BY <1>1, <1>3, SentToConnectedKept
<1>5. RemoteAcksWereSent' /\ AcksWereSent' /\ ConnectedAcks'
  BY <1>3, RemoteAcksKept, AcksWereSentKept, ConnectedAcksKept
<1>6. AcceptsAreFirst'
  BY <1>2, <1>3, AcceptsAreFirstKept
<1>7. AcceptTrace'
  BY <1>2, AcceptTraceKept
<1>8. QED
  BY <1>2, <1>4, <1>5, <1>6, <1>7 DEF TrackerInv

(***************************************************************************)
(* What the trackers say of the network holds of every reachable state.    *)
(***************************************************************************)
THEOREM TrackersInductive == Spec => []TrackerInv
BY TrackerInit, TrackerNext, PTL DEF Spec

(***************************************************************************)
(* Every ack on the wire is of a packet that was sent the other way.       *)
(***************************************************************************)
THEOREM AcksHold == Spec => []AcksWereSent
<1>1. TrackerInv => AcksWereSent
  BY DEF TrackerInv
<1>2. QED
  BY TrackersInductive, <1>1, PTL

\* A connected client has acked the first packet its server sent it.
LEMMA EstablishedAcked == TrackerInv => EstablishedByAck
<1> SUFFICES ASSUME TrackerInv, NEW s \in Servers, NEW id \in ConnectedIds(s)
             PROVE  \E p \in network :
                       /\ p.kind = "ConnectionAccepted"
                       /\ p.src = s
                       /\ p.id = id
                       /\ p.sequence <= connected[s][id].localAck
  BY DEF EstablishedByAck
<1>1. /\ id \in ConnectionId /\ connected[s][id] # NoPeer
      /\ s \in Endpoint /\ s \notin Clients
  BY EndpointAssumption DEF ConnectedIds, Endpoint
<1>2. PICK peer \in Peer : peer = connected[s][id]
  BY <1>1 DEF TrackerInv, IInv, TypeOK, ProtocolTypeOK
<1>3. peer.address \in Clients
  BY <1>1, <1>2 DEF TrackerInv, IInv, AddressesFit, Owner
<1>4. /\ connected[peer.address][id] # NoPeer
      /\ connected[peer.address][id].address = s
  BY <1>2 DEF TrackerInv, IInv, EstablishedOnBothSides
<1>5. ~AcceptPending(s, id)
  BY <1>1, <1>3, <1>4 DEF TrackerInv, IInv, IdsAgree, ConnectedIds
<1>6. Owner(s, id) # NoPeer
  BY <1>1 DEF Owner
<1>7. PICK p \in network : /\ p.kind = "ConnectionAccepted"
                           /\ p.src = s
                           /\ p.id = id
                           /\ p.sequence = 1
  BY <1>1, <1>5, <1>6 DEF TrackerInv, AcceptsAreFirst
<1>8. peer.localAck # 0 /\ peer.localAck \in Nat
  BY <1>2, WidthAssumption DEF TrackerInv, ConnectedAcks, Peer, Ack
<1>9. 1 <= peer.localAck
  BY <1>8
<1>10. QED
  BY <1>2, <1>7, <1>9

(***************************************************************************)
(* A server connects a peer only when it has acked the connection          *)
(* accepted, as the comment of accept_connection promises.                 *)
(***************************************************************************)
THEOREM EstablishedByAckHolds == Spec => []EstablishedByAck
BY TrackersInductive, EstablishedAcked, PTL

(***************************************************************************)
(* Whatever arrives, a connection once made is never lost or redirected,   *)
(* and its sequence never starts over.                                     *)
(***************************************************************************)
THEOREM PersistHolds == Spec => ConnectionsPersist
<1>1. TrackerInv /\ [Next]_vars =>
        [\A e \in Endpoint : \A id \in ConnectedIds(e) :
           /\ connected'[e][id] # NoPeer
           /\ connected'[e][id].address = connected[e][id].address
           /\ connected'[e][id].sequence >= connected[e][id].sequence]_connected
  <2> SUFFICES ASSUME TrackerInv, [Next]_vars,
                      NEW e \in Endpoint, NEW id \in ConnectedIds(e)
               PROVE  /\ connected'[e][id] # NoPeer
                      /\ connected'[e][id].address = connected[e][id].address
                      /\ connected'[e][id].sequence >= connected[e][id].sequence
    OBVIOUS
  <2>1. IInv /\ ConnectedMoves
    BY NextMoves DEF TrackerInv, Moves
  <2>2. id \in ConnectionId /\ connected[e][id] # NoPeer
    BY DEF ConnectedIds
  <2>3. QED
    BY <2>1, <2>2, MovesGrow DEF ConnectedGrows
<1>2. QED
  BY TrackersInductive, <1>1, PTL DEF Spec, ConnectionsPersist
=============================================================================
