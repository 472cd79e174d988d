-------------------------- MODULE AntarcRefinement --------------------------
(***************************************************************************)
(* Antarc implements Handshake: proof of ImplementsHandshake.              *)
(*                                                                         *)
(* Every step of an endpoint has one of seven shapes (StepShape).  One of  *)
(* them leaves every link at its stage; each of the others takes one link  *)
(* one stage further, and that is a step of Handshake.                     *)
(***************************************************************************)
EXTENDS AntarcProofs

-----------------------------------------------------------------------------
(***************************************************************************)
(* The shapes of a step.                                                   *)
(***************************************************************************)

\* Every peer stays where it is.
Quiet == CalmMaps /\ CalmNetwork /\ UNCHANGED scheduledAccepted

\* A server's answer goes out.
Answered(s) ==
  /\ CalmMaps
  /\ CalmNetwork
  /\ scheduledAccepted[s] # <<>>
  /\ scheduledAccepted' = [scheduledAccepted EXCEPT ![s] = <<>>]

\* A client's request goes out.
Requested(c, s) ==
  /\ requesting[c][s] # NoPeer
  /\ requesting' = [requesting EXCEPT ![c][s] = NoPeer]
  /\ \E peer \in Peer : awaiting' = [awaiting EXCEPT ![c][s] = peer]
  /\ \A p \in network' : \/ p \in network
                         \/ p.kind = "ConnectionRequest" /\ p.src = c /\ p.dst = s
  /\ UNCHANGED <<connected, serverVars>>

\* A client is connected to a server that answered.
Opened(c, p) ==
  /\ p.kind # "ConnectionRequest"
  /\ p.dst = c
  /\ connected[c][p.id] = NoPeer
  /\ awaiting[c][p.src] # NoPeer
  /\ Establish(c, p)
  /\ UNCHANGED <<network, requesting, serverVars>>

Arrived(s, p) ==
  /\ p.dst = s
  /\ scheduledAccepted[s] = <<>>
  /\ UNCHANGED <<network, clientVars>>

StepShape ==
  \/ Quiet
  \/ \E s \in Servers : Answered(s)
  \/ \E c \in Clients, s \in Servers : Connect(c, s) /\ UNCHANGED serverVars
  \/ \E c \in Clients, s \in Servers : Requested(c, s)
  \/ \E c \in Clients : \E p \in network : Opened(c, p)
  \/ \E s \in Servers : \E p \in network : Granted(s, p) /\ Arrived(s, p)
  \/ \E s \in Servers : \E p \in network : Joined(s, p) /\ Arrived(s, p)

\* A request that is sent is one that its client was still to send, and it
\* leaves sequences to spare: so its address awaits the answer from then on.
LEMMA RequestedShape ==
  ASSUME IInv, LinkInv, SequenceLimit > 1, NEW c \in Clients,
         SendConnectionRequest(c), UNCHANGED serverVars
  PROVE  \E s \in Servers : Requested(c, s)
<1> DEFINE s == Head(scheduledRequest[c])
           peer == requesting[c][s]
           p == [kind |-> "ConnectionRequest", src |-> c, dst |-> s,
                 sequence |-> peer.sequence, ack |-> peer.remoteAck, id |-> 0,
                 packetId |-> 0, index |-> 0, total |-> 1]
           moved == [peer EXCEPT !.sequence = @ + 1]
<1>1. /\ requesting \in [Clients -> [Endpoint -> Peer \cup {NoPeer}]]
      /\ scheduledRequest[c] \in Seq(Servers)
      /\ scheduledRequest[c] # <<>>
  BY DEF IInv, TypeOK, ClientTypeOK, SendConnectionRequest, IntoPacket, HandshakeItem
<1>2. s \in ToSet(scheduledRequest[c]) /\ s \in Servers /\ s \in Endpoint
  BY <1>1, ToSetTail, TailType DEF Endpoint
<1>3. peer # NoPeer
  BY <1>2 DEF IInv, RequestsRequest
<1>4. peer \in Peer /\ peer.sequence # SequenceLimit
  BY <1>1, <1>2, <1>3 DEF LinkInv, RequestingIsFresh
<1>5. moved \in Peer
  BY <1>4, NextSequenceType
<1>6. SendRequest(c, p, sentRequest[c], "send")
  BY <1>3 DEF SendConnectionRequest, IntoPacket, HandshakeItem
<1>7. p.kind = "ConnectionRequest" /\ p.src = c /\ p.dst = s
  OBVIOUS
<1>8. UNCHANGED connected
  BY DEF SendConnectionRequest
<1> HIDE DEF p
<1>9. /\ network' = network \cup {p}
      /\ requesting' = [requesting EXCEPT ![c][s] = NoPeer]
      /\ awaiting' = [awaiting EXCEPT ![c][s] = moved]
  BY <1>3, <1>4, <1>6, <1>7 DEF SendRequest
<1> HIDE DEF s, peer, moved
<1>10. requesting[c][s] # NoPeer
  BY <1>3 DEF peer
<1>11. QED
  BY <1>2, <1>5, <1>7, <1>8, <1>9, <1>10 DEF Requested

\* Every step has one of the shapes, whichever handler takes it.
LEMMA ShapeOfStep ==
  ASSUME IInv, TypeOK', LinkInv, SequenceLimit > 1, [Next]_vars
  PROVE  StepShape
<1>1. ASSUME Calm, UNCHANGED scheduledAccepted PROVE StepShape
  BY <1>1 DEF Calm, Quiet, StepShape
<1>2. ASSUME NEW e \in Endpoint,
             Schedule(e) \/ Heartbeat(e) \/ Tick(e), UNCHANGED <<clientVars, serverVars>>
      PROVE  StepShape
  <2>1. UNCHANGED <<network, connected>>
    BY <1>2 DEF Schedule, Heartbeat, Enqueue, Tick
  <2>2. QED
    BY <1>2, <2>1 DEF StepShape, Quiet, CalmMaps, CalmNetwork, SamePeer,
                      clientVars, serverVars
<1>3. ASSUME NEW c \in Clients, ClientNext(c), UNCHANGED serverVars
      PROVE  StepShape
  <2>1. CASE \E s \in Servers : Connect(c, s)
    BY <1>3, <2>1 DEF StepShape
  <2>2. CASE SendConnectionRequest(c)
    BY <1>3, <2>2, RequestedShape DEF StepShape
  <2>3. CASE \/ RetryConnectionRequest(c)
             \/ ClientRetryDataTransfer(c)
             \/ \E q \in Queue : ClientSend(c, q)
             \/ ClientPoll(c)
    BY <1>1, <1>3, <2>3, RetryConnectionRequestCalm, ClientRetryCalm,
       ClientSendCalm, ClientPollCalm DEF serverVars
  <2>4. ASSUME NEW p \in network, ClientReceive(c, p) PROVE StepShape
    <3>1. UNCHANGED <<network, requesting, scheduledRequest>> /\ p.dst = c
      BY <2>4 DEF ClientReceive, ClientOnReceived, Receives
    <3>2. CASE /\ awaiting' = awaiting
               /\ \A e \in Endpoint, id \in ConnectionId :
                    SamePeer(connected'[e][id], connected[e][id])
      BY <1>3, <3>1, <3>2
      DEF StepShape, Quiet, CalmMaps, CalmNetwork, SamePeer, serverVars
    <3>3. QED
      BY <1>3, <2>4, <3>1, <3>2, ClientReceiveShape DEF StepShape, Opened
  <2>5. CASE (Schedule(c) \/ Heartbeat(c) \/ Tick(c)) /\ UNCHANGED clientVars
    BY <1>2, <1>3, <2>5 DEF Endpoint
  <2>6. QED
    BY <1>3, <2>1, <2>2, <2>3, <2>4, <2>5 DEF ClientNext, ClientPolls
<1>4. ASSUME NEW s \in Servers, ServerNext(s), UNCHANGED clientVars
      PROVE  StepShape
  <2>1. CASE RetryConnectionAccepted(s)
    BY <1>1, <1>4, <2>1, RetryConnectionAcceptedCalm DEF RetryConnectionAccepted
  <2>2. CASE SendConnectionAccepted(s)
    <3>1. /\ scheduledAccepted[s] # <<>>
          /\ scheduledAccepted' = [scheduledAccepted EXCEPT ![s] = Tail(@)]
      BY <2>2 DEF SendConnectionAccepted
    <3>2. scheduledAccepted \in [Servers -> Seq(ScheduledAccepted)]
      BY DEF IInv, TypeOK, ServerTypeOK
    <3>3. Len(scheduledAccepted[s]) <= 1
      BY DEF IInv, AcceptsAwait
    <3>4. Tail(scheduledAccepted[s]) = <<>>
      BY <3>1, <3>2, <3>3
    <3>5. scheduledAccepted' = [scheduledAccepted EXCEPT ![s] = <<>>]
      BY <3>1, <3>4
    <3>6. QED
      BY <1>4, <2>2, <3>1, <3>5, SendConnectionAcceptedCalm
      DEF StepShape, Answered, Calm
  <2>3. CASE ServerRetryDataTransfer(s) \/ ServerRetryFragment(s)
    <3>1. /\ {"DataTransfer", "Fragment"} \subseteq SentKind
          /\ {"retryData", "retryFragment"} \subseteq Phase \ Stopped
          /\ {"retryFragment", "send"} \subseteq Phase
      BY DEF SentKind, Phase, Stopped
    <3>2. Calm
      BY <1>4, <2>3, <3>1, RetrySentCalm
      DEF ServerRetryDataTransfer, ServerRetryFragment
    <3>3. QED
      BY <1>1, <2>3, <3>2
      DEF ServerRetryDataTransfer, ServerRetryFragment, RetrySent, serverVars
  <2>4. CASE (\E q \in Queue : ServerSend(s, q)) \/ ServerPoll(s)
    BY <1>1, <1>4, <2>4, ServerSendCalm, ServerPollCalm
    DEF ServerSend, ServerPoll, serverVars
  <2>5. ASSUME NEW p \in network, ServerReceive(s, p) PROVE StepShape
    <3>1. /\ SameShape \/ Granted(s, p) \/ Joined(s, p)
          /\ UNCHANGED <<network, clientVars>>
          /\ p.dst = s /\ scheduledAccepted[s] = <<>>
      BY <1>4, <2>5, ServerReceiveShape DEF ServerReceive, Receives
    <3>2. CASE SameShape
      BY <3>1, <3>2 DEF StepShape, Quiet, CalmMaps, CalmNetwork, SamePeer,
                        SameShape, clientVars
    <3>3. QED
      BY <3>1, <3>2 DEF StepShape, Arrived
  <2>6. CASE (Schedule(s) \/ Heartbeat(s) \/ Tick(s)) /\ UNCHANGED serverVars
    BY <1>2, <1>4, <2>6 DEF Endpoint
  <2>7. QED
    BY <1>4, <2>1, <2>2, <2>3, <2>4, <2>5, <2>6 DEF ServerNext, ServerPolls
<1>5. CASE UNCHANGED vars
  BY <1>5 DEF vars, protocolVars, clientVars, serverVars, StepShape, Quiet,
              CalmMaps, CalmNetwork, SamePeer
<1>6. QED
  BY <1>3, <1>4, <1>5 DEF Next

-----------------------------------------------------------------------------
(***************************************************************************)
(* LinkInv is inductive, next to IInv.                                     *)
(***************************************************************************)

\* Nothing is known and nothing was sent.
LEMMA LinkInit == Init => LinkInv
BY DEF Init, ProtocolInit, ClientInit, ServerInit, LinkInv, RequestingIsFresh,
       OwnersAsked, Owns, Owner, Endpoint

\* A client that knows a server does not forget it, but by panic.
LEMMA KnownPeerKept ==
  ASSUME IInv, StepShape, NEW c \in Clients, NEW s \in Servers, KnownPeer(c, s)
  PROVE  KnownPeer(c, s)'
<1>1. /\ requesting \in [Clients -> [Endpoint -> Peer \cup {NoPeer}]]
      /\ awaiting \in [Clients -> [Endpoint -> Peer \cup {NoPeer}]]
      /\ connected \in [Endpoint -> [ConnectionId -> Peer \cup {NoPeer}]]
      /\ c \in Endpoint /\ s \in Endpoint /\ c \notin Servers
  BY EndpointAssumption DEF IInv, TypeOK, ProtocolTypeOK, ClientTypeOK, Endpoint
<1>2. CASE CalmMaps
  BY <1>1, <1>2 DEF CalmMaps, KnownPeer, ConnectedIds, SamePeer
<1>3. ASSUME NEW x \in Clients, NEW y \in Servers, Connect(x, y)
      PROVE  KnownPeer(c, s)'
  <2>1. /\ requesting' = [requesting EXCEPT ![x][y] = NewPeer(y, 0)]
        /\ UNCHANGED <<awaiting, connected>>
        /\ ~KnownPeer(x, y)
    BY <1>3 DEF Connect
  <2>2. requesting'[c][s] = requesting[c][s]
    BY <1>1, <2>1
  <2>3. QED
    BY <2>1, <2>2 DEF KnownPeer, ConnectedIds
<1>4. ASSUME NEW x \in Clients, NEW y \in Servers, Requested(x, y)
      PROVE  KnownPeer(c, s)'
  <2>1. PICK peer \in Peer : awaiting' = [awaiting EXCEPT ![x][y] = peer]
    BY <1>4 DEF Requested
  <2>2. /\ requesting' = [requesting EXCEPT ![x][y] = NoPeer]
        /\ connected' = connected
    BY <1>4 DEF Requested
  <2>3. CASE c = x /\ s = y
    BY <1>1, <2>1, <2>3, NoPeerAssumption DEF KnownPeer
  <2>4. CASE ~(c = x /\ s = y)
    <3>1. requesting'[c][s] = requesting[c][s] /\ awaiting'[c][s] = awaiting[c][s]
      BY <1>1, <2>1, <2>2, <2>4
    <3>2. QED
      BY <2>2, <3>1 DEF KnownPeer, ConnectedIds
  <2>5. QED
    BY <2>3, <2>4
<1>5. ASSUME NEW x \in Clients, NEW p \in network, Opened(x, p)
      PROVE  KnownPeer(c, s)'
  <2> DEFINE peer == Acked(awaiting[x][p.src], p)
  <2>1. /\ connected' = [connected EXCEPT ![x][p.id] = peer]
        /\ awaiting' = [awaiting EXCEPT ![x][p.src] = NoPeer]
        /\ requesting' = requesting
        /\ connected[x][p.id] = NoPeer /\ awaiting[x][p.src] # NoPeer
        /\ p.kind # "ConnectionRequest"
    BY <1>5 DEF Opened, Establish, NoLongerAwaiting
  <2>2. p \in Packet /\ p.id \in ConnectionId /\ p.src \in Endpoint
    BY <2>1, PacketFields DEF IInv, TypeOK, ProtocolTypeOK
  <2>3. awaiting[x][p.src] \in Peer /\ awaiting[x][p.src].address = p.src
    BY <1>1, <2>1, <2>2 DEF IInv, AddressesFit
  <2>4. peer # NoPeer /\ peer.address = p.src
    BY <2>2, <2>3, AckedSame
  <2> HIDE DEF peer
  <2>5. x \in Endpoint
    BY DEF Endpoint
  <2>6. \A id \in ConnectionId : connected[c][id] # NoPeer =>
          connected'[c][id] = connected[c][id]
    BY <1>1, <2>1, <2>2
  <2>7. CASE c = x /\ s = p.src
    BY <1>1, <2>1, <2>2, <2>4, <2>7 DEF KnownPeer, ConnectedIds
  <2>8. CASE ~(c = x /\ s = p.src)
    <3>1. awaiting'[c][s] = awaiting[c][s]
      BY <1>1, <2>1, <2>8
    <3>2. QED
      BY <2>1, <2>6, <3>1 DEF KnownPeer, ConnectedIds
  <2>9. QED
    BY <2>7, <2>8
<1>6. ASSUME NEW x \in Servers, NEW p \in network, Granted(x, p), Arrived(x, p)
      PROVE  KnownPeer(c, s)'
  BY <1>6 DEF Granted, Arrived, KnownPeer, ConnectedIds, clientVars
<1>7. ASSUME NEW x \in Servers, NEW p \in network, Joined(x, p), Arrived(x, p)
      PROVE  KnownPeer(c, s)'
  <2>1. connected'[c] = connected[c]
    BY <1>1, <1>7 DEF Joined
  <2>2. QED
    BY <1>7, <2>1 DEF Arrived, KnownPeer, ConnectedIds, clientVars
<1>8. QED
  BY <1>2, <1>3, <1>4, <1>5, <1>6, <1>7 DEF StepShape, Quiet, Answered

\* A server comes to know no client but by granting it an id.
LEMMA OwnersKept ==
  ASSUME IInv, StepShape, NEW c \in Clients, NEW s \in Servers, NEW id \in ConnectionId,
         Owns(s, id, c)',
         ~\E p \in network : Granted(s, p) /\ Arrived(s, p) /\ p.src = c
  PROVE  Owns(s, id, c)
<1>1. /\ connected \in [Endpoint -> [ConnectionId -> Peer \cup {NoPeer}]]
      /\ awaitingAck \in [Servers -> [ConnectionId -> Peer \cup {NoPeer}]]
      /\ connectionIdTracker \in [Servers -> ConnectionId]
      /\ s \in Endpoint /\ s \notin Clients
  BY EndpointAssumption DEF IInv, TypeOK, ProtocolTypeOK, ServerTypeOK, Endpoint
<1>2. CASE CalmMaps
  BY <1>2, OwnerKept DEF Owns, SamePeer
<1>3. CASE connected'[s] = connected[s] /\ awaitingAck' = awaitingAck
  BY <1>3 DEF Owns, Owner
<1>4. ASSUME NEW x \in Clients, NEW p \in network, Opened(x, p)
      PROVE  connected'[s] = connected[s] /\ awaitingAck' = awaitingAck
  BY <1>1, <1>4 DEF Opened, Establish, serverVars
<1>5. ASSUME NEW x \in Servers, NEW p \in network, Granted(x, p), Arrived(x, p)
      PROVE  Owns(s, id, c)
  <2> DEFINE new == connectionIdTracker[x]
             peer == NewPeer(p.src, p.sequence)
  <2>1. /\ connected' = connected
        /\ awaitingAck' = [awaitingAck EXCEPT ![x][new] = peer]
        /\ peer.address = p.src
    BY <1>5 DEF Granted, NewPeer
  <2> HIDE DEF peer
  <2>2. CASE s = x /\ id = new
    <3>1. connected[s][id] = NoPeer
      <4>1. ~(id < id)
        BY DEF ConnectionId
      <4>2. QED
        BY <2>2, <4>1 DEF IInv, TrackerAhead, Owner
    <3>2. awaitingAck'[s][id] = peer
      BY <1>1, <2>1, <2>2
    <3>3. QED
      BY <1>5, <2>1, <2>2, <3>1, <3>2 DEF Owns, Owner
  <2>3. CASE ~(s = x /\ id = new)
    <3>1. awaitingAck'[s][id] = awaitingAck[s][id]
      BY <1>1, <2>1, <2>3
    <3>2. QED
      BY <2>1, <3>1 DEF Owns, Owner
  <2>4. QED
    BY <2>2, <2>3
<1>6. ASSUME NEW x \in Servers, NEW p \in network, Joined(x, p)
      PROVE  Owns(s, id, c)
  <2> DEFINE peer == Acked(awaitingAck[x][p.id], p)
  <2>1. /\ p.kind # "ConnectionRequest"
        /\ connected[x][p.id] = NoPeer /\ awaitingAck[x][p.id] # NoPeer
        /\ connected' = [connected EXCEPT ![x][p.id] = peer]
        /\ awaitingAck' = [awaitingAck EXCEPT ![x][p.id] = NoPeer]
    BY <1>6 DEF Joined
  <2>2. p \in Packet /\ p.id \in ConnectionId
    BY <2>1, PacketFields DEF IInv, TypeOK, ProtocolTypeOK
  <2>3. awaitingAck[x][p.id] \in Peer
    BY <1>1, <2>1, <2>2
  <2>4. peer # NoPeer /\ peer.address = awaitingAck[x][p.id].address
    BY <2>2, <2>3, AckedSame
  <2> HIDE DEF peer
  <2>5. CASE s = x /\ id = p.id
    <3>1. connected'[s][id] = peer
      BY <1>1, <2>1, <2>5
    <3>2. QED
      BY <2>1, <2>4, <2>5, <3>1 DEF Owns, Owner
  <2>6. CASE ~(s = x /\ id = p.id)
    <3>1. connected'[s][id] = connected[s][id] /\ awaitingAck'[s][id] = awaitingAck[s][id]
      BY <1>1, <2>1, <2>6
    <3>2. QED
      BY <3>1 DEF Owns, Owner
  <2>7. QED
    BY <2>5, <2>6
<1>7. QED
  BY <1>2, <1>3, <1>4, <1>5, <1>6
  DEF StepShape, Quiet, Answered, Connect, Requested, serverVars

\* Of two links the one that is granted an id had a request on its way.
LEMMA GrantedLink ==
  ASSUME IInv, LinkInv, NEW s \in Servers, NEW p \in network, Granted(s, p),
         Arrived(s, p)
  PROVE  /\ p.src \in Clients
         /\ requesting[p.src][s] = NoPeer
         /\ KnownPeer(p.src, s)
         /\ \A id \in ConnectionId : ~Owns(s, id, p.src)
<1>1. /\ p.src \in Clients /\ KnownPeer(p.src, s) /\ p.kind = "ConnectionRequest"
      /\ p.dst = s
  BY DEF Granted, Arrived, IInv, PacketsSpeakTrue, RequestTrue
<1>2. requesting[p.src][s] = NoPeer
  BY <1>1 DEF LinkInv, RequestingIsFresh
<1>3. \A id \in ConnectionId : ~Owns(s, id, p.src)
  BY DEF Granted, ConnectionRequestAnotherState, Owns, Owner
<1>4. QED
  BY <1>1, <1>2, <1>3

\* No step breaks LinkInv.
LEMMA LinkStep ==
  ASSUME IInv, TypeOK', LinkInv, StepShape
  PROVE  LinkInv'
<1>1. /\ requesting \in [Clients -> [Endpoint -> Peer \cup {NoPeer}]]
      /\ Clients \subseteq Endpoint /\ Servers \subseteq Endpoint
  BY DEF IInv, TypeOK, ClientTypeOK, Endpoint
<1>2. ASSUME NEW x \in Clients, NEW y \in Servers, Connect(x, y)
      PROVE  /\ requesting' = [requesting EXCEPT ![x][y] = NewPeer(y, 0)]
             /\ UNCHANGED network
             /\ ~KnownPeer(x, y)
  BY <1>2 DEF Connect
<1>3. RequestingIsFresh'
  <2> SUFFICES ASSUME NEW c \in Clients, NEW s \in Servers, requesting'[c][s] # NoPeer
               PROVE  /\ requesting'[c][s].sequence = 1
                      /\ \A p \in network' :
                           ~(p.kind = "ConnectionRequest" /\ p.src = c /\ p.dst = s)
    BY DEF RequestingIsFresh
  <2> DEFINE Out(p) == p.kind = "ConnectionRequest" /\ p.src = c /\ p.dst = s
  <2>1. ASSUME requesting[c][s] # NoPeer
        PROVE  requesting[c][s].sequence = 1 /\ \A p \in network : ~Out(p)
    BY <2>1 DEF LinkInv, RequestingIsFresh
  <2>2. CASE requesting' = requesting /\ CalmNetwork
    <3>1. \A p \in network' : Out(p) => p \in network
      BY <2>2 DEF CalmNetwork, Fresh, SentKind
    <3>2. QED
      BY <2>1, <2>2, <3>1
  <2>3. CASE UNCHANGED <<requesting, network>>
    BY <2>1, <2>3
  <2>4. ASSUME NEW x \in Clients, NEW y \in Servers, Connect(x, y)
        PROVE  requesting'[c][s].sequence = 1 /\ \A p \in network' : ~Out(p)
    <3>1. CASE x = c /\ y = s
      <4>1. requesting'[c][s] = NewPeer(s, 0)
        BY <1>1, <1>2, <2>4, <3>1
      <4>2. \A p \in network : ~Out(p)
        BY <1>2, <2>4, <3>1 DEF IInv, PacketsSpeakTrue, RequestTrue
      <4>3. QED
        BY <1>2, <2>4, <4>1, <4>2 DEF NewPeer
    <3>2. CASE ~(x = c /\ y = s)
      <4>1. requesting'[c][s] = requesting[c][s]
        BY <1>1, <1>2, <2>4, <3>2
      <4>2. QED
        BY <1>2, <2>1, <2>4, <4>1
    <3>3. QED
      BY <3>1, <3>2
  <2>5. ASSUME NEW x \in Clients, NEW y \in Servers, Requested(x, y)
        PROVE  requesting'[c][s].sequence = 1 /\ \A p \in network' : ~Out(p)
    <3>1. requesting' = [requesting EXCEPT ![x][y] = NoPeer]
      BY <2>5 DEF Requested
    <3>2. ~(x = c /\ y = s) /\ requesting'[c][s] = requesting[c][s]
      BY <1>1, <3>1
    <3>3. \A p \in network' : Out(p) => p \in network
      BY <2>5, <3>2 DEF Requested
    <3>4. QED
      BY <2>1, <3>2, <3>3
  <2>6. QED
    BY <2>2, <2>3, <2>4, <2>5
    DEF StepShape, Quiet, Answered, CalmMaps, Opened, Arrived, clientVars
<1>4. OwnersAsked'
  <2> SUFFICES ASSUME NEW s \in Servers, NEW id \in ConnectionId, NEW c \in Clients,
                      Owns(s, id, c)'
               PROVE  requesting'[c][s] = NoPeer /\ KnownPeer(c, s)'
    BY DEF OwnersAsked
  <2>1. KnownPeer(c, s) /\ requesting[c][s] = NoPeer
    <3>1. CASE Owns(s, id, c)
      BY <3>1 DEF LinkInv, OwnersAsked
    <3>2. ASSUME NEW p \in network, Granted(s, p), Arrived(s, p), p.src = c
          PROVE  KnownPeer(c, s) /\ requesting[c][s] = NoPeer
      BY <3>2, GrantedLink
    <3>3. QED
      BY <3>1, <3>2, OwnersKept
  <2>2. KnownPeer(c, s)'
    BY <2>1, KnownPeerKept
  <2>3. requesting'[c][s] = NoPeer
    <3>1. CASE requesting' = requesting
      BY <2>1, <3>1
    <3>2. ASSUME NEW x \in Clients, NEW y \in Servers, Connect(x, y)
          PROVE  requesting'[c][s] = NoPeer
      <4>1. ~(x = c /\ y = s)
        BY <1>2, <2>1, <3>2
      <4>2. QED
        BY <1>1, <1>2, <2>1, <3>2, <4>1
    <3>3. ASSUME NEW x \in Clients, NEW y \in Servers, Requested(x, y)
          PROVE  requesting'[c][s] = NoPeer
      BY <1>1, <2>1, <3>3 DEF Requested
    <3>4. QED
      BY <3>1, <3>2, <3>3
      DEF StepShape, Quiet, Answered, CalmMaps, Opened, Arrived, clientVars
  <2>4. QED
    BY <2>2, <2>3
<1>5. QED
  BY <1>3, <1>4 DEF LinkInv

-----------------------------------------------------------------------------
(***************************************************************************)
(* Stages and ids.                                                         *)
(***************************************************************************)

\* What the maps of e say of the endpoint at an address.
ConnectedTo(e, id, address) ==
  connected[e][id] # NoPeer /\ connected[e][id].address = address

\* The maps say of a link what they said.
SameLink(c, s) ==
  /\ requesting'[c][s] = NoPeer <=> requesting[c][s] = NoPeer
  /\ awaiting'[c][s] = NoPeer <=> awaiting[c][s] = NoPeer
  /\ \A id \in ConnectionId :
       /\ ConnectedTo(s, id, c)' <=> ConnectedTo(s, id, c)
       /\ ConnectedTo(c, id, s)' <=> ConnectedTo(c, id, s)
       /\ Owns(s, id, c)' <=> Owns(s, id, c)
       /\ Owns(s, id, c) => (AcceptPending(s, id)' <=> AcceptPending(s, id))

\* Then the link keeps its stage.
LEMMA SameStage ==
  ASSUME NEW c \in Clients, NEW s \in Servers, SameLink(c, s)
  PROVE  StageOf(c, s)' = StageOf(c, s)
<1>1. (\E id \in ConnectedIds(s) : connected[s][id].address = c)' <=>
      \E id \in ConnectedIds(s) : connected[s][id].address = c
  BY DEF SameLink, ConnectedTo, ConnectedIds
<1>2. (\E id \in ConnectedIds(c) : connected[c][id].address = s)' <=>
      \E id \in ConnectedIds(c) : connected[c][id].address = s
  BY DEF SameLink, ConnectedTo, ConnectedIds
<1>3. (\E id \in ConnectionId : Owns(s, id, c) /\ AcceptPending(s, id))' <=>
      \E id \in ConnectionId : Owns(s, id, c) /\ AcceptPending(s, id)
  BY DEF SameLink
<1>4. (\E id \in ConnectionId : Owns(s, id, c))' <=>
      \E id \in ConnectionId : Owns(s, id, c)
  BY DEF SameLink
<1>5. QED
  BY <1>1, <1>2, <1>3, <1>4 DEF SameLink, StageOf

\* The id granted to a link is the one that its server knows the client by.
LEMMA GrantedIs ==
  ASSUME IInv, NEW c \in Clients, NEW s \in Servers, NEW id \in ConnectionId,
         Owns(s, id, c)
  PROVE  GrantedTo(c, s) = id
BY DEF GrantedTo, IInv, UniqueIds

\* And so it is after a step.
LEMMA GrantedIsNext ==
  ASSUME IInv', NEW c \in Clients, NEW s \in Servers, NEW id \in ConnectionId,
         Owns(s, id, c)'
  PROVE  GrantedTo(c, s)' = id
BY DEF GrantedTo, IInv, UniqueIds

\* A link that has no owner has no id.
LEMMA NotGranted ==
  ASSUME NEW c \in Clients, NEW s \in Servers, \A id \in ConnectionId : ~Owns(s, id, c)
  PROVE  GrantedTo(c, s) = 0
BY DEF GrantedTo

\* A link whose owners stay keeps its id.
LEMMA SameGrant ==
  ASSUME IInv, IInv', NEW c \in Clients, NEW s \in Servers,
         \A id \in ConnectionId : Owns(s, id, c)' <=> Owns(s, id, c)
  PROVE  GrantedTo(c, s)' = GrantedTo(c, s)
<1>1. CASE \E id \in ConnectionId : Owns(s, id, c)
  BY <1>1, GrantedIs, GrantedIsNext
<1>2. CASE ~\E id \in ConnectionId : Owns(s, id, c)
  BY <1>2 DEF GrantedTo
<1>3. QED
  BY <1>1, <1>2

\* Where a link is whose client the server knows.
OwnedStages ==
  \A c \in Clients, s \in Servers, id \in ConnectionId :
     IInv /\ LinkInv /\ Owns(s, id, c) =>
        /\ ConnectedTo(s, id, c) => StageOf(c, s) = "established"
        /\ connected[s][id] = NoPeer /\ ConnectedTo(c, id, s) => StageOf(c, s) = "open"
        /\ AcceptPending(s, id) => StageOf(c, s) = "granted"
        /\ /\ connected[s][id] = NoPeer
           /\ ~ConnectedTo(c, id, s)
           /\ ~AcceptPending(s, id)
           => StageOf(c, s) = "offered"

\* The guards of StageOf are those of the one id of the link.
LEMMA OwnedStage == OwnedStages
<1> SUFFICES ASSUME NEW c \in Clients, NEW s \in Servers, NEW id \in ConnectionId,
                    IInv, LinkInv, Owns(s, id, c)
             PROVE  /\ ConnectedTo(s, id, c) => StageOf(c, s) = "established"
                    /\ connected[s][id] = NoPeer /\ ConnectedTo(c, id, s) =>
                         StageOf(c, s) = "open"
                    /\ AcceptPending(s, id) => StageOf(c, s) = "granted"
                    /\ /\ connected[s][id] = NoPeer
                       /\ ~ConnectedTo(c, id, s)
                       /\ ~AcceptPending(s, id)
                       => StageOf(c, s) = "offered"
  BY DEF OwnedStages
<1> DEFINE Established == \E i \in ConnectedIds(s) : connected[s][i].address = c
           Opens == \E i \in ConnectedIds(c) : connected[c][i].address = s
<1>1. requesting[c][s] = NoPeer
  BY DEF LinkInv, OwnersAsked
<1>2. \A i \in ConnectionId : Owns(s, i, c) => i = id
  BY DEF IInv, UniqueIds
<1>3. Established <=> ConnectedTo(s, id, c)
  BY <1>2 DEF ConnectedTo, ConnectedIds, Owns, Owner
<1>4. Opens <=> ConnectedTo(c, id, s)
  BY <1>2 DEF ConnectedTo, ConnectedIds, IInv, IdsAgree
<1>5. ConnectedTo(s, id, c) => connected[s][id] # NoPeer
  BY DEF ConnectedTo
<1>6. AcceptPending(s, id) => ~Established /\ ~Opens
  <2>1. AcceptPending(s, id) => awaitingAck[s][id] # NoPeer
    BY DEF AcceptPending, IInv, AcceptsAwait
  <2>2. AcceptPending(s, id) => connected[s][id] = NoPeer
    BY <2>1 DEF IInv, UniqueIds
  <2>3. AcceptPending(s, id) => ~ConnectedTo(c, id, s)
    BY DEF ConnectedTo, ConnectedIds, IInv, IdsAgree
  <2>4. QED
    BY <1>3, <1>4, <1>5, <2>2, <2>3
<1> HIDE DEF Established, Opens
<1>7. StageOf(c, s) =
        IF Established THEN "established"
        ELSE IF Opens THEN "open"
        ELSE IF AcceptPending(s, id) THEN "granted"
        ELSE "offered"
  BY <1>1, <1>2 DEF StageOf, Established, Opens
<1>8. QED
  BY <1>3, <1>4, <1>5, <1>6, <1>7

\* And so it is after a step.
LEMMA OwnedStageNext == OwnedStages'
BY OwnedStage, PTL

-----------------------------------------------------------------------------
(***************************************************************************)
(* Steps of Handshake.                                                     *)
(***************************************************************************)

\* What Handshake is told of the links.
Stages == [c \in Clients |-> [s \in Servers |-> StageOf(c, s)]]
Grants == [c \in Clients |-> [s \in Servers |-> GrantedTo(c, s)]]

SameOwners(c, s) == \A id \in ConnectionId : Owns(s, id, c)' <=> Owns(s, id, c)

\* One link advances, and the others stay.
LEMMA Advances ==
  ASSUME NEW c \in Clients, NEW s \in Servers, NEW from, NEW to,
         StageOf(c, s) = from, StageOf(c, s)' = to,
         \A x \in Clients, y \in Servers : ~(x = c /\ y = s) => SameLink(x, y)
  PROVE  Abstract!Advance(c, s, from, to)
<1>1. \A x \in Clients, y \in Servers : ~(x = c /\ y = s) =>
         StageOf(x, y)' = StageOf(x, y)
  BY SameStage
<1>2. QED
  BY <1>1 DEF Abstract!Advance

\* No link is granted an id.
LEMMA GrantsStay ==
  ASSUME IInv, IInv', \A x \in Clients, y \in Servers : SameOwners(x, y)
  PROVE  UNCHANGED Grants
BY SameGrant DEF SameOwners, Grants

\* A quiet step is none of Handshake.
LEMMA QuietStep ==
  ASSUME IInv, IInv', Quiet
  PROVE  UNCHANGED <<Stages, Grants>>
<1>1. \A x \in Clients, y \in Servers : SameLink(x, y)
  BY OwnerKept DEF Quiet, CalmMaps, SamePeer, SameLink, ConnectedTo, Owns,
                   AcceptPending, Endpoint
<1>2. \A x \in Clients, y \in Servers : SameOwners(x, y)
  BY <1>1 DEF SameLink, SameOwners
<1>3. QED
  BY <1>1, <1>2, SameStage, GrantsStay DEF Stages

\* connect.
LEMMA ConnectRefines ==
  ASSUME IInv, IInv', LinkInv, LinkInv', NEW c \in Clients, NEW s \in Servers,
         Connect(c, s), UNCHANGED serverVars
  PROVE  Abstract!Connect(c, s)
<1>1. /\ requesting' = [requesting EXCEPT ![c][s] = NewPeer(s, 0)]
      /\ UNCHANGED <<awaiting, connected, serverVars>>
      /\ ~KnownPeer(c, s)
  BY DEF Connect
<1>2. requesting \in [Clients -> [Endpoint -> Peer \cup {NoPeer}]] /\ s \in Endpoint
  BY DEF IInv, TypeOK, ClientTypeOK, Endpoint
<1>3. NewPeer(s, 0) # NoPeer
  BY <1>2, NewPeerType, NoPeerAssumption, WidthAssumption DEF Ack
<1>4. \A x \in Clients, y \in Servers : ~(x = c /\ y = s) =>
         requesting'[x][y] = requesting[x][y]
  BY <1>1, <1>2
<1>5. \A x \in Clients, y \in Servers : ~(x = c /\ y = s) => SameLink(x, y)
  BY <1>1, <1>4 DEF SameLink, ConnectedTo, Owns, Owner, AcceptPending, serverVars
<1>6. \A x \in Clients, y \in Servers : SameOwners(x, y)
  BY <1>1 DEF SameOwners, Owns, Owner, serverVars
<1>7. StageOf(c, s) = "idle"
  <2>1. \A id \in ConnectionId : ~Owns(s, id, c)
    BY <1>1 DEF LinkInv, OwnersAsked
  <2>2. \A id \in ConnectionId : ~ConnectedTo(s, id, c)
    BY <2>1 DEF ConnectedTo, Owns, Owner
  <2>3. QED
    BY <1>1, <2>1, <2>2 DEF StageOf, KnownPeer, ConnectedTo, ConnectedIds
<1>8. StageOf(c, s)' = "requesting"
  BY <1>1, <1>2, <1>3 DEF StageOf
<1>9. QED
  BY <1>5, <1>6, <1>7, <1>8, Advances, GrantsStay DEF Abstract!Connect, Grants

\* The request goes out.
LEMMA RequestedRefines ==
  ASSUME IInv, IInv', LinkInv, LinkInv', NEW c \in Clients, NEW s \in Servers,
         Requested(c, s)
  PROVE  Abstract!SendRequest(c, s)
<1>1. PICK peer \in Peer : awaiting' = [awaiting EXCEPT ![c][s] = peer]
  BY DEF Requested
<1>2. /\ requesting[c][s] # NoPeer
      /\ requesting' = [requesting EXCEPT ![c][s] = NoPeer]
      /\ UNCHANGED <<connected, serverVars>>
  BY DEF Requested
<1>3. /\ requesting \in [Clients -> [Endpoint -> Peer \cup {NoPeer}]]
      /\ awaiting \in [Clients -> [Endpoint -> Peer \cup {NoPeer}]]
      /\ s \in Endpoint
  BY DEF IInv, TypeOK, ClientTypeOK, Endpoint
<1>4. \A x \in Clients, y \in Servers : ~(x = c /\ y = s) =>
         requesting'[x][y] = requesting[x][y] /\ awaiting'[x][y] = awaiting[x][y]
  BY <1>1, <1>2, <1>3
<1>5. \A x \in Clients, y \in Servers : ~(x = c /\ y = s) => SameLink(x, y)
  BY <1>2, <1>4 DEF SameLink, ConnectedTo, Owns, Owner, AcceptPending, serverVars
<1>6. \A x \in Clients, y \in Servers : SameOwners(x, y)
  BY <1>2 DEF SameOwners, Owns, Owner, serverVars
<1>7. StageOf(c, s) = "requesting"
  BY <1>2 DEF StageOf
<1>8. StageOf(c, s)' = "requested"
  <2>1. requesting'[c][s] = NoPeer /\ awaiting'[c][s] # NoPeer
    BY <1>1, <1>2, <1>3, NoPeerAssumption
  <2>2. \A id \in ConnectionId : ~Owns(s, id, c)
    BY <1>2 DEF LinkInv, OwnersAsked
  <2>3. \A id \in ConnectionId : ~Owns(s, id, c)'
    BY <1>6, <2>2 DEF SameOwners
  <2>4. \A id \in ConnectionId : ~ConnectedTo(s, id, c)'
    BY <2>3 DEF ConnectedTo, Owns, Owner
  <2>5. \A id \in ConnectionId : ~ConnectedTo(c, id, s)'
    BY <1>2, <2>2 DEF ConnectedTo, ConnectedIds, IInv, IdsAgree
  <2>6. QED
    BY <2>1, <2>3, <2>4, <2>5 DEF StageOf, ConnectedTo, ConnectedIds
<1>9. QED
  BY <1>5, <1>6, <1>7, <1>8, Advances, GrantsStay DEF Abstract!SendRequest, Grants

\* A server grants an id that no client of it has.
LEMMA GrantRefines ==
  ASSUME IInv, IInv', LinkInv, LinkInv', NEW s \in Servers, NEW p \in network,
         Granted(s, p), Arrived(s, p)
  PROVE  \E c \in Clients : Abstract!Grant(c, s)
<1> PICK id, c : id = connectionIdTracker[s] /\ c = p.src
  OBVIOUS
<1> DEFINE peer == NewPeer(p.src, p.sequence)
           item == [id |-> id, address |-> c]
<1>1. /\ c \in Clients
      /\ requesting[c][s] = NoPeer
      /\ KnownPeer(c, s)
      /\ \A i \in ConnectionId : ~Owns(s, i, c)
  BY GrantedLink
<1>2. /\ awaitingAck \in [Servers -> [ConnectionId -> Peer \cup {NoPeer}]]
      /\ scheduledAccepted \in [Servers -> Seq(ScheduledAccepted)]
      /\ id \in ConnectionId
      /\ p \in Packet /\ c \in Endpoint
  BY <1>1 DEF IInv, TypeOK, ServerTypeOK, ProtocolTypeOK, Endpoint
<1>3. /\ awaitingAck' = [awaitingAck EXCEPT ![s][id] = peer]
      /\ scheduledAccepted' = [scheduledAccepted EXCEPT ![s] = <<item>>]
      /\ scheduledAccepted[s] = <<>>
      /\ UNCHANGED <<connected, requesting, awaiting>>
  <2>1. Append(<<>>, item) = <<item>>
    OBVIOUS
  <2>2. QED
    BY <2>1 DEF Granted, Arrived, clientVars
<1>4. peer # NoPeer /\ peer.address = c
  <2>1. p.sequence \in Ack
    BY <1>2, PacketFields, WidthAssumption DEF Sequence, Ack
  <2>2. peer \in Peer
    BY <1>2, <2>1, NewPeerType
  <2>3. QED
    BY <2>2, NoPeerAssumption DEF NewPeer
<1>5. connected[s][id] = NoPeer /\ Owner(s, id) = NoPeer
  <2>1. ~(id < id)
    BY <1>2 DEF ConnectionId
  <2>2. QED
    BY <1>2, <2>1 DEF IInv, TrackerAhead, Owner
<1>6. item.id = id /\ ToSet(<<item>>) = {item}
  BY DEF ToSet
<1> HIDE DEF peer, item
<1>7. /\ awaitingAck'[s][id] = peer
      /\ \A y \in Servers, i \in ConnectionId :
           ~(y = s /\ i = id) => awaitingAck'[y][i] = awaitingAck[y][i]
  BY <1>2, <1>3
<1>8. Owns(s, id, c)' /\ \A x \in Clients : ~Owns(s, id, x)
  BY <1>3, <1>4, <1>5, <1>7 DEF Owns, Owner
<1>9. \A x \in Clients, y \in Servers, i \in ConnectionId :
        ~(y = s /\ i = id) => (Owns(y, i, x)' <=> Owns(y, i, x))
  BY <1>3, <1>7 DEF Owns, Owner
<1>10. \A x \in Clients : x # c => ~Owns(s, id, x)'
  BY <1>3, <1>4, <1>5, <1>7 DEF Owns, Owner
<1>11. /\ AcceptPending(s, id)'
       /\ \A y \in Servers, i \in ConnectionId :
            ~(y = s /\ i = id) => (AcceptPending(y, i)' <=> AcceptPending(y, i))
  <2>1. /\ scheduledAccepted'[s] = <<item>>
        /\ \A y \in Servers : y # s => scheduledAccepted'[y] = scheduledAccepted[y]
    BY <1>2, <1>3
  <2>2. AcceptPending(s, id)'
    BY <1>6, <2>1 DEF AcceptPending
  <2>3. \A i \in ConnectionId : i # id => ~AcceptPending(s, i)' /\ ~AcceptPending(s, i)
    BY <1>3, <1>6, <2>1, ToSetEmpty DEF AcceptPending
  <2>4. QED
    BY <2>1, <2>2, <2>3 DEF AcceptPending
<1>12. \A x \in Clients, y \in Servers : ~(x = c /\ y = s) =>
          SameLink(x, y) /\ SameOwners(x, y)
  <2> SUFFICES ASSUME NEW x \in Clients, NEW y \in Servers, ~(x = c /\ y = s)
               PROVE  SameLink(x, y) /\ SameOwners(x, y)
    OBVIOUS
  <2>1. SameOwners(x, y)
    BY <1>8, <1>9, <1>10 DEF SameOwners
  <2>2. \A i \in ConnectionId :
          Owns(y, i, x) => (AcceptPending(y, i)' <=> AcceptPending(y, i))
    BY <1>8, <1>11
  <2>3. QED
    BY <1>3, <2>1, <2>2 DEF SameLink, SameOwners, ConnectedTo
<1>13. StageOf(c, s) = "requested"
  <2>1. \A i \in ConnectionId : ~ConnectedTo(s, i, c)
    BY <1>1 DEF ConnectedTo, Owns, Owner
  <2>2. \A i \in ConnectionId : ~ConnectedTo(c, i, s)
    BY <1>1 DEF ConnectedTo, ConnectedIds, IInv, IdsAgree
  <2>3. awaiting[c][s] # NoPeer
    BY <1>1, <2>2 DEF KnownPeer, ConnectedTo, ConnectedIds
  <2>4. QED
    BY <1>1, <2>1, <2>2, <2>3 DEF StageOf, ConnectedTo, ConnectedIds
<1>14. StageOf(c, s)' = "granted"
  BY <1>1, <1>2, <1>8, <1>11, OwnedStageNext DEF OwnedStages
<1>15. GrantedTo(c, s)' = id
  BY <1>1, <1>2, <1>8, GrantedIsNext
<1>16. \A x \in Clients, y \in Servers : ~(x = c /\ y = s) =>
          GrantedTo(x, y)' = GrantedTo(x, y)
  BY <1>12, SameGrant DEF SameOwners
<1>17. \A x \in Clients : GrantedTo(x, s) # id
  <2> SUFFICES ASSUME NEW x \in Clients PROVE GrantedTo(x, s) # id
    OBVIOUS
  <2>1. CASE \E i \in ConnectionId : Owns(s, i, x)
    BY <1>8, <2>1, GrantedIs
  <2>2. CASE ~\E i \in ConnectionId : Owns(s, i, x)
    BY <1>2, <2>2, NotGranted DEF ConnectionId
  <2>3. QED
    BY <2>1, <2>2
<1>18. Grants' = [Grants EXCEPT ![c][s] = id]
  BY <1>1, <1>15, <1>16 DEF Grants
<1>19. Abstract!Advance(c, s, "requested", "granted")
  BY <1>1, <1>12, <1>13, <1>14, Advances
<1>20. \A x \in Clients : Grants[x][s] # id
  BY <1>17 DEF Grants
<1>21. QED
  BY <1>1, <1>2, <1>18, <1>19, <1>20 DEF Abstract!Grant, Grants

\* A list of at most one item holds no other.
LEMMA ToSetOne ==
  ASSUME NEW S, NEW list \in Seq(S), Len(list) <= 1
  PROVE  \A x \in ToSet(list) : x = Head(list)
<1>1. /\ Len(list) \in Nat
      /\ DOMAIN list = 1 .. Len(list)
  OBVIOUS
<1>2. \A i \in DOMAIN list : i = 1
  BY <1>1
<1>3. \A i \in DOMAIN list : list[i] = Head(list)
  BY <1>1, <1>2
<1>4. QED
  BY <1>3 DEF ToSet

\* The answer goes out.
LEMMA AnsweredRefines ==
  ASSUME IInv, IInv', LinkInv, LinkInv', NEW s \in Servers, Answered(s)
  PROVE  \E c \in Clients : Abstract!SendAccepted(c, s)
<1> PICK item, id, c : /\ item = Head(scheduledAccepted[s])
                       /\ id = item.id
                       /\ c = item.address
  OBVIOUS
<1>1. /\ scheduledAccepted \in [Servers -> Seq(ScheduledAccepted)]
      /\ scheduledAccepted[s] # <<>>
      /\ scheduledAccepted' = [scheduledAccepted EXCEPT ![s] = <<>>]
  BY DEF IInv, TypeOK, ServerTypeOK, Answered
<1>2. item \in ToSet(scheduledAccepted[s]) /\ item \in ScheduledAccepted
  BY <1>1, ToSetTail, TailType
<1>3. \A other \in ToSet(scheduledAccepted[s]) : other = item
  <2>1. Len(scheduledAccepted[s]) <= 1
    BY DEF IInv, AcceptsAwait
  <2>2. QED
    BY <1>1, <2>1, ToSetOne
<1>4. id \in ConnectionId /\ AcceptPending(s, id)
  BY <1>2 DEF ScheduledAccepted, AcceptPending
<1>5. Owns(s, id, c) /\ connected[s][id] = NoPeer
  BY <1>2, <1>4 DEF IInv, AcceptsAwait, UniqueIds, Owns, Owner
<1>6. c \in Clients
  BY <1>4, <1>5 DEF IInv, AddressesFit, Owns
<1>7. \A i \in ConnectionId : i # id => ~AcceptPending(s, i)
  BY <1>3 DEF AcceptPending
<1>8. \A x \in Clients, y \in Servers : SameOwners(x, y)
  BY OwnerKept DEF Answered, SameOwners, Owns, SamePeer
<1>9. \A i \in ConnectionId : ~AcceptPending(s, i)'
  BY <1>1, ToSetEmpty DEF AcceptPending
<1>10. \A x \in Clients, y \in Servers : ~(x = c /\ y = s) => SameLink(x, y)
  <2> SUFFICES ASSUME NEW x \in Clients, NEW y \in Servers, ~(x = c /\ y = s)
               PROVE  SameLink(x, y)
    OBVIOUS
  <2>1. \A i \in ConnectionId :
          Owns(y, i, x) => (AcceptPending(y, i)' <=> AcceptPending(y, i))
    <3>1. CASE y = s
      BY <1>4, <1>5, <1>6, <1>7, <1>9, <3>1 DEF Owns
    <3>2. CASE y # s
      BY <1>1, <3>2 DEF AcceptPending
    <3>3. QED
      BY <3>1, <3>2
  <2>2. QED
    BY <1>8, <2>1
    DEF SameLink, SameOwners, ConnectedTo, Answered, CalmMaps, SamePeer, Endpoint
<1>11. StageOf(c, s) = "granted"
  BY <1>4, <1>5, <1>6, OwnedStage DEF OwnedStages
<1>12. StageOf(c, s)' = "offered"
  <2>1. Owns(s, id, c)'
    BY <1>4, <1>5, <1>6, <1>8 DEF SameOwners
  <2>2. connected'[s][id] = NoPeer
    BY <1>4, <1>5 DEF Answered, CalmMaps, SamePeer, Endpoint
  <2>3. ~ConnectedTo(c, id, s)
    BY <1>4, <1>6 DEF ConnectedTo, ConnectedIds, IInv, IdsAgree
  <2>4. ~ConnectedTo(c, id, s)'
    BY <1>4, <1>6, <2>3 DEF ConnectedTo, Answered, CalmMaps, SamePeer, Endpoint
  <2>5. QED
    BY <1>4, <1>6, <1>9, <2>1, <2>2, <2>4, OwnedStageNext DEF OwnedStages
<1>13. QED
  BY <1>6, <1>8, <1>10, <1>11, <1>12, Advances, GrantsStay
  DEF Abstract!SendAccepted, Grants

\* The answer reaches the client, which has no other link open under its id.
LEMMA OpenedRefines ==
  ASSUME IInv, IInv', LinkInv, LinkInv', NEW c \in Clients, NEW p \in network,
         Opened(c, p)
  PROVE  \E s \in Servers : Abstract!OpenLink(c, s)
<1> PICK id, s : id = p.id /\ s = p.src
  OBVIOUS
<1> DEFINE peer == Acked(awaiting[c][s], p)
<1>1. /\ connected \in [Endpoint -> [ConnectionId -> Peer \cup {NoPeer}]]
      /\ awaiting \in [Clients -> [Endpoint -> Peer \cup {NoPeer}]]
      /\ p \in Packet /\ c \in Endpoint /\ c \notin Servers
  BY EndpointAssumption DEF IInv, TypeOK, ProtocolTypeOK, ClientTypeOK, Endpoint
<1>2. /\ p.kind # "ConnectionRequest" /\ p.dst = c
      /\ connected[c][id] = NoPeer /\ awaiting[c][s] # NoPeer
      /\ connected' = [connected EXCEPT ![c][id] = peer]
      /\ awaiting' = [awaiting EXCEPT ![c][s] = NoPeer]
      /\ UNCHANGED <<requesting, serverVars>>
  BY DEF Opened, Establish, NoLongerAwaiting
<1>3. id \in ConnectionId /\ s \in Endpoint
  BY <1>1, <1>2, PacketFields
<1>4. s \in Servers /\ awaiting[c][s].address = s /\ awaiting[c][s] \in Peer
  BY <1>1, <1>2, <1>3 DEF IInv, AddressesFit
<1>5. peer # NoPeer /\ peer.address = s
  BY <1>1, <1>4, AckedSame
<1>6. Owns(s, id, c) /\ ~AcceptPending(s, id)
  BY <1>2, <1>4 DEF IInv, PacketsSpeakTrue, FromServerTrue
<1> HIDE DEF peer
<1>7. /\ connected'[c][id] = peer
      /\ \A e \in Endpoint, i \in ConnectionId :
           ~(e = c /\ i = id) => connected'[e][i] = connected[e][i]
  BY <1>1, <1>2, <1>3
<1>8. \A x \in Clients, y \in Endpoint : ~(x = c /\ y = s) =>
        awaiting'[x][y] = awaiting[x][y]
  BY <1>1, <1>2, <1>3
<1>9. \A y \in Servers, i \in ConnectionId : connected'[y][i] = connected[y][i]
  BY <1>1, <1>7 DEF Endpoint
<1>10. \A x \in Clients, y \in Servers : SameOwners(x, y)
  BY <1>2, <1>9 DEF SameOwners, Owns, Owner, serverVars
<1>11. \A x \in Clients, y \in Servers : ~(x = c /\ y = s) => SameLink(x, y)
  <2> SUFFICES ASSUME NEW x \in Clients, NEW y \in Servers, ~(x = c /\ y = s)
               PROVE  SameLink(x, y)
    OBVIOUS
  <2>1. \A i \in ConnectionId : ConnectedTo(y, i, x)' <=> ConnectedTo(y, i, x)
    BY <1>9 DEF ConnectedTo
  <2>2. \A i \in ConnectionId : ConnectedTo(x, i, y)' <=> ConnectedTo(x, i, y)
    BY <1>2, <1>5, <1>7 DEF ConnectedTo, Endpoint
  <2>3. \A i \in ConnectionId : AcceptPending(y, i)' <=> AcceptPending(y, i)
    BY <1>2 DEF AcceptPending, serverVars
  <2>4. QED
    BY <1>2, <1>8, <1>10, <2>1, <2>2, <2>3 DEF SameLink, SameOwners, Endpoint
<1>12. ~ConnectedTo(c, id, s)
  BY <1>2 DEF ConnectedTo
<1>13. connected[s][id] = NoPeer
  <2>1. ASSUME connected[s][id] # NoPeer PROVE FALSE
    <3>1. connected[s][id].address = c
      BY <1>6, <2>1 DEF Owns, Owner
    <3>2. connected[c][id] # NoPeer
      BY <1>3, <1>4, <2>1, <3>1 DEF IInv, EstablishedOnBothSides, ConnectedIds
    <3>3. QED
      BY <1>2, <3>2
  <2>2. QED
    BY <2>1
<1>14. StageOf(c, s) = "offered"
  BY <1>3, <1>4, <1>6, <1>12, <1>13, OwnedStage DEF OwnedStages
<1>15. StageOf(c, s)' = "open"
  <2>1. Owns(s, id, c)'
    BY <1>3, <1>4, <1>6, <1>10 DEF SameOwners
  <2>2. connected'[s][id] = NoPeer
    BY <1>3, <1>4, <1>9, <1>13
  <2>3. ConnectedTo(c, id, s)'
    BY <1>5, <1>7 DEF ConnectedTo
  <2>4. QED
    BY <1>3, <1>4, <2>1, <2>2, <2>3, OwnedStageNext DEF OwnedStages
<1>16. GrantedTo(c, s) = id
  BY <1>3, <1>4, <1>6, GrantedIs
<1>17. \A y \in Servers :
          ~(StageOf(c, y) \in {"open", "established"} /\ GrantedTo(c, y) = id)
  <2> SUFFICES ASSUME NEW y \in Servers, StageOf(c, y) \in {"open", "established"},
                      GrantedTo(c, y) = id
               PROVE  FALSE
    OBVIOUS
  <2>1. CASE \E i \in ConnectedIds(y) : connected[y][i].address = c
    <3>1. PICK i \in ConnectedIds(y) : connected[y][i].address = c
      BY <2>1
    <3>2. connected[c][i] # NoPeer /\ Owns(y, i, c) /\ i \in ConnectionId
      BY <3>1 DEF IInv, EstablishedOnBothSides, ConnectedIds, Owns, Owner
    <3>3. QED
      BY <1>2, <3>2, GrantedIs
  <2>2. CASE \E i \in ConnectedIds(c) : connected[c][i].address = y
    <3>1. PICK i \in ConnectedIds(c) : connected[c][i].address = y
      BY <2>2
    <3>2. connected[c][i] # NoPeer /\ Owns(y, i, c) /\ i \in ConnectionId
      BY <3>1 DEF IInv, IdsAgree, ConnectedIds
    <3>3. QED
      BY <1>2, <3>2, GrantedIs
  <2>3. QED
    BY <2>1, <2>2 DEF StageOf
<1>18. Abstract!Advance(c, s, "offered", "open")
  BY <1>4, <1>11, <1>14, <1>15, Advances
<1>19. UNCHANGED Grants
  BY <1>10, GrantsStay
<1>20. \A y \in Servers : ~(Stages[c][y] \in {"open", "established"}
                           /\ Grants[c][y] = Grants[c][s])
  BY <1>4, <1>16, <1>17 DEF Stages, Grants
<1>21. QED
  BY <1>4, <1>18, <1>19, <1>20 DEF Abstract!OpenLink, Abstract!Open, Stages, Grants

\* A packet of the client reaches the server under the id.
LEMMA JoinedRefines ==
  ASSUME IInv, IInv', LinkInv, LinkInv', NEW s \in Servers, NEW p \in network,
         Joined(s, p), Arrived(s, p)
  PROVE  \E c \in Clients : Abstract!Establish(c, s)
<1> PICK id, c : id = p.id /\ c = p.src
  OBVIOUS
<1> DEFINE peer == Acked(awaitingAck[s][id], p)
<1>1. /\ awaitingAck \in [Servers -> [ConnectionId -> Peer \cup {NoPeer}]]
      /\ connected \in [Endpoint -> [ConnectionId -> Peer \cup {NoPeer}]]
      /\ p \in Packet /\ s \in Endpoint /\ s \notin Clients
  BY EndpointAssumption DEF IInv, TypeOK, ServerTypeOK, ProtocolTypeOK, Endpoint
<1>2. /\ p.kind # "ConnectionRequest" /\ p.dst = s
      /\ connected[s][id] = NoPeer /\ awaitingAck[s][id] # NoPeer
      /\ connected' = [connected EXCEPT ![s][id] = peer]
      /\ awaitingAck' = [awaitingAck EXCEPT ![s][id] = NoPeer]
      /\ UNCHANGED <<requesting, awaiting, scheduledAccepted>>
  BY DEF Joined, Arrived, clientVars
<1>3. id \in ConnectionId /\ c \in Endpoint
  BY <1>1, <1>2, PacketFields
<1>4. c \in Clients
  <2>1. CASE c \in Servers
    <3>1. Owns(c, id, s)
      BY <1>2, <2>1 DEF IInv, PacketsSpeakTrue, FromServerTrue
    <3>2. s \in Clients
      BY <1>3, <2>1, <3>1 DEF IInv, AddressesFit, Owns
    <3>3. QED
      BY <1>1, <3>2
  <2>2. QED
    BY <1>3, <2>1 DEF Endpoint
<1>5. ConnectedTo(c, id, s)
  BY <1>2, <1>4 DEF IInv, PacketsSpeakTrue, FromClientTrue, ConnectedTo
<1>6. Owns(s, id, c) /\ ~AcceptPending(s, id)
  BY <1>3, <1>4, <1>5 DEF IInv, IdsAgree, ConnectedTo, ConnectedIds
<1>7. peer # NoPeer /\ peer.address = awaitingAck[s][id].address
  BY <1>1, <1>2, <1>3, AckedSame
<1>8. peer.address = c
  BY <1>2, <1>6, <1>7 DEF Owns, Owner
<1> HIDE DEF peer
<1>9. /\ connected'[s][id] = peer
      /\ \A e \in Endpoint, i \in ConnectionId :
           ~(e = s /\ i = id) => connected'[e][i] = connected[e][i]
  BY <1>1, <1>2, <1>3
<1>10. /\ awaitingAck'[s][id] = NoPeer
       /\ \A y \in Servers, i \in ConnectionId :
            ~(y = s /\ i = id) => awaitingAck'[y][i] = awaitingAck[y][i]
  BY <1>1, <1>2, <1>3
<1>11. \A x \in Clients, y \in Servers : SameOwners(x, y)
  <2> SUFFICES ASSUME NEW x \in Clients, NEW y \in Servers, NEW i \in ConnectionId
               PROVE  Owns(y, i, x)' <=> Owns(y, i, x)
    BY DEF SameOwners
  <2>1. CASE y = s /\ i = id
    BY <1>2, <1>7, <1>9, <2>1 DEF Owns, Owner
  <2>2. CASE ~(y = s /\ i = id)
    BY <1>9, <1>10, <2>2 DEF Owns, Owner, Endpoint
  <2>3. QED
    BY <2>1, <2>2
<1>12. \A x \in Clients, y \in Servers : ~(x = c /\ y = s) => SameLink(x, y)
  <2> SUFFICES ASSUME NEW x \in Clients, NEW y \in Servers, ~(x = c /\ y = s)
               PROVE  SameLink(x, y)
    OBVIOUS
  <2>1. \A i \in ConnectionId : ConnectedTo(x, i, y)' <=> ConnectedTo(x, i, y)
    BY <1>1, <1>9 DEF ConnectedTo, Endpoint
  <2>2. \A i \in ConnectionId : ConnectedTo(y, i, x)' <=> ConnectedTo(y, i, x)
    BY <1>2, <1>8, <1>9 DEF ConnectedTo, Endpoint
  <2>3. \A i \in ConnectionId : AcceptPending(y, i)' <=> AcceptPending(y, i)
    BY <1>2 DEF AcceptPending
  <2>4. QED
    BY <1>2, <1>11, <2>1, <2>2, <2>3 DEF SameLink, SameOwners
<1>13. StageOf(c, s) = "open"
  BY <1>2, <1>3, <1>4, <1>5, <1>6, OwnedStage DEF OwnedStages
<1>14. StageOf(c, s)' = "established"
  <2>1. Owns(s, id, c)'
    BY <1>3, <1>4, <1>6, <1>11 DEF SameOwners
  <2>2. ConnectedTo(s, id, c)'
    BY <1>7, <1>8, <1>9 DEF ConnectedTo
  <2>3. QED
    BY <1>3, <1>4, <2>1, <2>2, OwnedStageNext DEF OwnedStages
<1>15. QED
  BY <1>4, <1>11, <1>12, <1>13, <1>14, Advances, GrantsStay
  DEF Abstract!Establish, Grants

-----------------------------------------------------------------------------
(***************************************************************************)
(* The refinement.                                                         *)
(***************************************************************************)

\* Nobody has asked for anything.
LEMMA InitRefines == Init => Abstract!Init
<1> SUFFICES ASSUME Init
             PROVE  \A c \in Clients, s \in Servers :
                       StageOf(c, s) = "idle" /\ GrantedTo(c, s) = 0
  BY DEF Abstract!Init
<1> TAKE c \in Clients, s \in Servers
<1> USE DEF Init, ProtocolInit, ClientInit, ServerInit
<1>1. \A id \in ConnectionId : ~Owns(s, id, c)
  BY DEF Owns, Owner, Endpoint
<1>2. ConnectedIds(s) = {} /\ ConnectedIds(c) = {}
  BY DEF ConnectedIds, Endpoint
<1>3. requesting[c][s] = NoPeer /\ awaiting[c][s] = NoPeer
  BY DEF Endpoint
<1>4. QED
  BY <1>1, <1>2, <1>3, NotGranted DEF StageOf

\* Every step of an endpoint is a step of Handshake, or none.
LEMMA StepRefines ==
  ASSUME IInv, IInv', LinkInv, LinkInv', StepShape
  PROVE  [Abstract!Next]_<<Stages, Grants>>
<1>1. ASSUME Quiet PROVE UNCHANGED <<Stages, Grants>>
  BY <1>1, QuietStep
<1>2. ASSUME NEW s \in Servers, Answered(s) PROVE Abstract!Next
  BY <1>2, AnsweredRefines DEF Abstract!Next
<1>3. ASSUME NEW c \in Clients, NEW s \in Servers, Connect(c, s) /\ UNCHANGED serverVars
      PROVE  Abstract!Next
  BY <1>3, ConnectRefines DEF Abstract!Next
<1>4. ASSUME NEW c \in Clients, NEW s \in Servers, Requested(c, s)
      PROVE  Abstract!Next
  BY <1>4, RequestedRefines DEF Abstract!Next
<1>5. ASSUME NEW c \in Clients, NEW p \in network, Opened(c, p) PROVE Abstract!Next
  BY <1>5, OpenedRefines DEF Abstract!Next
<1>6. ASSUME NEW s \in Servers, NEW p \in network, Granted(s, p) /\ Arrived(s, p)
      PROVE  Abstract!Next
  BY <1>6, GrantRefines DEF Abstract!Next
<1>7. ASSUME NEW s \in Servers, NEW p \in network, Joined(s, p) /\ Arrived(s, p)
      PROVE  Abstract!Next
  BY <1>7, JoinedRefines DEF Abstract!Next
<1>8. QED
  BY <1>1, <1>2, <1>3, <1>4, <1>5, <1>6, <1>7 DEF StepShape

(***************************************************************************)
(* A request goes out once, from a client that then waits for the answer,  *)
(* and whom a server knows is a client that asked: LinkInv, inductive on   *)
(* top of IInv, as long as a first packet leaves a second sequence.        *)
(***************************************************************************)
LEMMA LinksInductive ==
  ASSUME IInv, LinkInv, [Next]_vars, SequenceLimit > 1
  PROVE  StepShape /\ IInv' /\ LinkInv'
<1>1. IInv' /\ TypeOK'
  BY IInvNext DEF IInv
<1>2. StepShape
  BY <1>1, ShapeOfStep
<1>3. LinkInv'
  BY <1>1, <1>2, LinkStep
<1>4. QED
  BY <1>1, <1>2, <1>3

(***************************************************************************)
(* Whatever is lost, repeated or retried, no request of a peer that is     *)
(* still requesting is out, and a server knows nobody who did not ask.     *)
(***************************************************************************)
THEOREM LinksHold ==
  ASSUME SequenceLimit > 1
  PROVE  Spec => []LinkInv
<1>1. Init => IInv /\ LinkInv
  BY IInvInit, LinkInit
<1>2. IInv /\ LinkInv /\ [Next]_vars => IInv' /\ LinkInv'
  BY LinksInductive
<1>3. QED
  BY <1>1, <1>2, PTL DEF Spec

(***************************************************************************)
(* The links of clients and servers, as their maps and lists tell them,    *)
(* pass the stages of Handshake one by one and keep the id they were       *)
(* granted, for any number of endpoints and any widths that leave a first  *)
(* packet a second sequence.                                               *)
(***************************************************************************)
THEOREM HandshakeRefined ==
  ASSUME SequenceLimit > 1
  PROVE  Spec => ImplementsHandshake
<1>1. Init => IInv /\ LinkInv
  BY IInvInit, LinkInit
<1>2. IInv /\ LinkInv /\ [Next]_vars => StepShape /\ IInv' /\ LinkInv'
  BY LinksInductive
<1>3. IInv /\ LinkInv /\ [Next]_vars => [Abstract!Next]_<<Stages, Grants>>
  BY <1>2, StepRefines
<1>4. QED
  BY <1>1, <1>2, <1>3, InitRefines, PTL
  DEF Spec, ImplementsHandshake, Abstract!Spec, Stages, Grants
=============================================================================
