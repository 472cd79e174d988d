---------------------------- MODULE AntarcProofs ----------------------------
(***************************************************************************)
(* The connection properties, for every number of clients and servers and  *)
(* every width: IInv is inductive, and implies them.                       *)
(*                                                                         *)
(* Most steps leave the shape of the connection maps alone, and are dealt  *)
(* with at once (Calm, CalmStep).  The six that do not are a client's      *)
(* Connect, SendConnectionRequest and Establish, and a server's grant of   *)
(* an id, SendConnectionAccepted and the ack that connects a peer.         *)
(***************************************************************************)
EXTENDS AntarcInvariant, AntarcTypes

-----------------------------------------------------------------------------
(***************************************************************************)
(* The elements of a list.                                                 *)
(***************************************************************************)

\* A list one item longer holds that item besides its own.
LEMMA ToSetAppend ==
  ASSUME NEW S, NEW list \in Seq(S), NEW x \in S
  PROVE  ToSet(Append(list, x)) = ToSet(list) \cup {x}
<1>1. DOMAIN Append(list, x) = 1 .. Len(list) + 1
  OBVIOUS
<1>2. \A i \in 1 .. Len(list) : Append(list, x)[i] = list[i]
  OBVIOUS
<1>3. Append(list, x)[Len(list) + 1] = x
  OBVIOUS
<1>4. DOMAIN list = 1 .. Len(list) /\ Len(list) \in Nat
  OBVIOUS
<1>5. 1 .. Len(list) + 1 = 1 .. Len(list) \cup {Len(list) + 1}
  BY <1>4
<1>6. QED
  BY <1>1, <1>2, <1>3, <1>4, <1>5, ZenonT(30) DEF ToSet

\* A list without its first item holds nothing new.
LEMMA ToSetTail ==
  ASSUME NEW S, NEW list \in Seq(S), list # <<>>
  PROVE  /\ Head(list) \in ToSet(list)
         /\ ToSet(Tail(list)) \subseteq ToSet(list)
<1>1. /\ Len(list) \in Nat /\ Len(list) > 0
      /\ DOMAIN list = 1 .. Len(list)
      /\ DOMAIN Tail(list) = 1 .. Len(list) - 1
  OBVIOUS
<1>2. Head(list) = list[1]
  OBVIOUS
<1>3. \A i \in 1 .. Len(list) - 1 : Tail(list)[i] = list[i + 1]
  OBVIOUS
<1>4. \A i \in 1 .. Len(list) - 1 : i + 1 \in 1 .. Len(list)
  BY <1>1
<1>5. QED
  BY <1>1, <1>2, <1>3, <1>4 DEF ToSet

\* A list without its last item holds nothing new.
LEMMA ToSetFront ==
  ASSUME NEW S, NEW list \in Seq(S)
  PROVE  ToSet(Front(list)) \subseteq ToSet(list)
<1>1. /\ Len(list) \in Nat
      /\ DOMAIN list = 1 .. Len(list)
      /\ DOMAIN Front(list) = 1 .. Len(list) - 1
  BY DEF Front
<1>2. \A i \in 1 .. Len(list) - 1 : Front(list)[i] = list[i]
  BY DEF Front
<1>3. QED
  BY <1>1, <1>2 DEF ToSet

\* The last item of a list is one of its items.
LEMMA ToSetLast ==
  ASSUME NEW S, NEW list \in Seq(S), list # <<>>
  PROVE  Last(list) \in ToSet(list)
BY DEF Last, ToSet

\* Two lists in one hold the items of both.
LEMMA ToSetConcat ==
  ASSUME NEW S, NEW list \in Seq(S), NEW more \in Seq(S)
  PROVE  ToSet(list \o more) \subseteq ToSet(list) \cup ToSet(more)
<1>1. /\ Len(list) \in Nat /\ Len(more) \in Nat
      /\ DOMAIN list = 1 .. Len(list) /\ DOMAIN more = 1 .. Len(more)
      /\ DOMAIN (list \o more) = 1 .. Len(list) + Len(more)
  OBVIOUS
<1>2. \A i \in 1 .. Len(list) + Len(more) :
        (list \o more)[i] = IF i <= Len(list) THEN list[i] ELSE more[i - Len(list)]
  OBVIOUS
<1>3. \A i \in 1 .. Len(list) + Len(more) :
        IF i <= Len(list) THEN i \in 1 .. Len(list)
        ELSE i - Len(list) \in 1 .. Len(more)
  BY <1>1
<1>4. QED
  BY <1>1, <1>2, <1>3 DEF ToSet

\* The items of a list are of its type.
LEMMA ToSetType ==
  ASSUME NEW S, NEW list \in Seq(S)
  PROVE  ToSet(list) \subseteq S
BY DEF ToSet

\* The empty list holds nothing.
LEMMA ToSetEmpty == ToSet(<<>>) = {}
BY DEF ToSet

-----------------------------------------------------------------------------
(***************************************************************************)
(* Steps that leave the shape of the connection maps alone.                *)
(***************************************************************************)

SamePeer(new, old) ==
  /\ new = NoPeer <=> old = NoPeer
  /\ old # NoPeer => new.address = old.address

\* A packet sent to a connected peer, or the accept of a peer yet to ack it,
\* when no accept of the sender is due any more.
Fresh(p) ==
  /\ p.src \in Endpoint
  /\ p.id \in ConnectionId
  /\ \/ /\ p.kind \in SentKind
        /\ connected[p.src][p.id] # NoPeer
        /\ connected[p.src][p.id].address = p.dst
     \/ /\ p.kind = "ConnectionAccepted"
        /\ p.src \in Servers
        /\ Owns(p.src, p.id, p.dst)
  /\ p.src \in Servers => scheduledAccepted'[p.src] = <<>>

CalmMaps ==
  /\ \A e \in Endpoint, id \in ConnectionId :
       SamePeer(connected'[e][id], connected[e][id])
  /\ \A s \in Servers, id \in ConnectionId :
       SamePeer(awaitingAck'[s][id], awaitingAck[s][id])
  /\ \A s \in Servers : \/ scheduledAccepted'[s] = scheduledAccepted[s]
                       \/ scheduledAccepted'[s] = <<>>
  /\ UNCHANGED <<requesting, awaiting, scheduledRequest, connectionIdTracker>>

CalmNetwork ==
  /\ network \subseteq network'
  /\ \A p \in network' : p \in network \/ Fresh(p)

CalmPhase ==
  \A e \in Endpoint : /\ phase'[e] # "expect"
                      /\ phase[e] \in Stopped => phase'[e] \in Stopped

Calm == CalmMaps /\ CalmNetwork /\ CalmPhase /\ SentWasSent' /\ ScheduledToConnected'

\* A calm step leaves a server's ids with their owners.
LEMMA OwnerKept ==
  ASSUME CalmMaps, NEW s \in Servers, NEW id \in ConnectionId
  PROVE  SamePeer(Owner(s, id)', Owner(s, id))
BY DEF CalmMaps, SamePeer, Owner, Endpoint

\* A calm step keeps the inductive invariant.
LEMMA CalmStep ==
  ASSUME IInv, TypeOK', Calm
  PROVE  IInv'
<1>1. /\ requesting' = requesting /\ awaiting' = awaiting
      /\ scheduledRequest' = scheduledRequest
      /\ connectionIdTracker' = connectionIdTracker
      /\ \A s \in Servers : \/ scheduledAccepted'[s] = scheduledAccepted[s]
                           \/ scheduledAccepted'[s] = <<>>
  BY DEF Calm, CalmMaps
<1>2. \A e \in Endpoint, id \in ConnectionId :
        SamePeer(connected'[e][id], connected[e][id])
  BY DEF Calm, CalmMaps
<1>3. \A s \in Servers, id \in ConnectionId :
        SamePeer(awaitingAck'[s][id], awaitingAck[s][id])
  BY DEF Calm, CalmMaps
<1>4. \A s \in Servers, id \in ConnectionId :
        SamePeer(Owner(s, id)', Owner(s, id))
  BY OwnerKept DEF Calm
<1>5. Clients \subseteq Endpoint /\ Servers \subseteq Endpoint
  BY DEF Endpoint
<1>6. AddressesFit'
  BY <1>1, <1>4 DEF IInv, AddressesFit, SamePeer
<1>7. TrackerAhead'
  BY <1>1, <1>4 DEF IInv, TrackerAhead, SamePeer
<1>8. AcceptsAwait'
  <2>1. \A s \in Servers : \A item \in ToSet(scheduledAccepted[s]) : item.id \in ConnectionId
    <3>1. \A s \in Servers : scheduledAccepted[s] \in Seq(ScheduledAccepted)
      BY DEF IInv, TypeOK, ServerTypeOK
    <3>2. QED
      BY <3>1, ToSetType DEF ScheduledAccepted
  <2>2. QED
    BY <1>1, <1>3, <2>1, ToSetEmpty DEF IInv, AcceptsAwait, SamePeer
<1>9. RequestsRequest'
  BY <1>1 DEF IInv, RequestsRequest
<1>10. PacketsSpeakTrue'
  <2> SUFFICES ASSUME NEW p \in network'
               PROVE  /\ p.kind = "ConnectionRequest" => RequestTrue(p)'
                      /\ p.kind # "ConnectionRequest" /\ p.src \in Servers =>
                           FromServerTrue(p)'
                      /\ p.kind # "ConnectionRequest" /\ p.src \in Clients =>
                           FromClientTrue(p)'
    BY DEF PacketsSpeakTrue
  <2>1. p \in Packet
    BY DEF TypeOK, ProtocolTypeOK
  <2>2. CASE p \in network
    <3>1. CASE p.kind = "ConnectionRequest"
      <4>1. RequestTrue(p)
        BY <2>2, <3>1 DEF IInv, PacketsSpeakTrue
      <4>2. KnownPeer(p.src, p.dst)'
        BY <1>1, <1>2, <1>5, <4>1 DEF RequestTrue, KnownPeer, ConnectedIds, SamePeer
      <4>3. QED
        BY <1>1, <1>5, <3>1, <4>1, <4>2 DEF RequestTrue, Calm, CalmPhase
    <3>2. CASE p.kind # "ConnectionRequest"
      <4>1. p.id \in ConnectionId
        BY <2>1, <3>2, PacketFields
      <4>2. p.src \in Servers => FromServerTrue(p)'
        BY <1>1, <1>4, <2>2, <3>2, <4>1, ToSetEmpty
        DEF IInv, PacketsSpeakTrue, FromServerTrue, Owns, SamePeer, AcceptPending
      <4>3. p.src \in Clients => FromClientTrue(p)'
        BY <1>2, <1>5, <2>2, <3>2, <4>1
        DEF IInv, PacketsSpeakTrue, FromClientTrue, SamePeer
      <4>4. QED
        BY <3>2, <4>2, <4>3
    <3>3. QED
      BY <3>1, <3>2
  <2>3. CASE Fresh(p)
    <3>1. p.kind # "ConnectionRequest"
      BY <2>3 DEF Fresh, SentKind
    <3>2. p.src \in Servers => FromServerTrue(p)'
      BY <1>2, <1>4, <2>3, ToSetEmpty
      DEF Fresh, FromServerTrue, Owns, Owner, SamePeer, AcceptPending
    <3>3. p.src \in Clients => FromClientTrue(p)'
      BY <1>2, <2>3, EndpointAssumption DEF Fresh, SentKind, FromClientTrue, SamePeer
    <3>4. QED
      BY <3>1, <3>2, <3>3
  <2>4. QED
    BY <2>2, <2>3 DEF Calm, CalmNetwork
<1>11. UniqueIds'
  BY <1>2, <1>3, <1>4, <1>5 DEF IInv, UniqueIds, Owns, SamePeer
<1>12. IdsAgree'
  BY <1>1, <1>2, <1>4, <1>5, ToSetEmpty
  DEF IInv, IdsAgree, Owns, SamePeer, ConnectedIds, AcceptPending
<1>13. OneStatePerServer'
  BY <1>1, <1>2, <1>5 DEF IInv, OneStatePerServer, SamePeer, ConnectedIds
<1>14. EstablishedOnBothSides'
  <2>1. \A s \in Servers : \A id \in ConnectedIds(s) :
          connected[s][id].address \in Endpoint
    BY <1>5 DEF IInv, TypeOK, ProtocolTypeOK, ConnectedIds, Peer
  <2>2. QED
    BY <1>2, <1>5, <2>1 DEF IInv, EstablishedOnBothSides, SamePeer, ConnectedIds
<1>15. CreateNeverFails'
  BY DEF Calm, CalmPhase, CreateNeverFails
<1>16. QED
  BY <1>6, <1>7, <1>8, <1>9, <1>10, <1>11, <1>12, <1>13, <1>14, <1>15
  DEF IInv, Calm

\* The shape of connected may also grow: what else Scheduled* rests on.
ConnectedGrows ==
  \A e \in Endpoint, id \in ConnectionId :
     connected[e][id] # NoPeer =>
        /\ connected'[e][id] # NoPeer
        /\ connected'[e][id].address = connected[e][id].address

\* A calm step loses no connected peer.
LEMMA CalmGrows == CalmMaps => ConnectedGrows
BY DEF CalmMaps, ConnectedGrows, SamePeer

\* An item that stays scheduled still has its peer.
LEMMA ScheduledKept ==
  ASSUME IInv, ConnectedGrows,
         \A e \in Endpoint, q \in Queue :
            ToSet(scheduled'[e][q]) \subseteq ToSet(scheduled[e][q])
  PROVE  ScheduledToConnected'
<1>1. \A e \in Endpoint, q \in Queue : ToSet(scheduled[e][q]) \subseteq Scheduled
  BY ToSetType DEF IInv, TypeOK, ProtocolTypeOK
<1>2. QED
  BY <1>1 DEF IInv, ScheduledToConnected, ConnectedGrows, Scheduled

\* What the reliability handler keeps or gains was sent.
LEMMA SentKept ==
  ASSUME IInv, network \subseteq network',
         \A e \in Endpoint, k \in SentKind : \A x \in ToSet(sent'[e][k]) :
            \/ x \in ToSet(sent[e][k])
            \/ x.packet \in network' /\ x.packet.src = e /\ x.packet.kind = k,
         \A c \in Clients : \A x \in ToSet(sentRequest'[c]) :
            \/ x \in ToSet(sentRequest[c])
            \/ /\ x.packet \in network'
               /\ x.packet.src = c
               /\ x.packet.kind = "ConnectionRequest",
         \A s \in Servers : \A x \in ToSet(sentAccepted'[s]) :
            \/ x \in ToSet(sentAccepted[s])
            \/ /\ x.packet \in network'
               /\ x.packet.src = s
               /\ x.packet.kind = "ConnectionAccepted"
  PROVE  SentWasSent'
BY DEF IInv, SentWasSent

\* A client does not await an address it is connected to.
LEMMA NotAwaited ==
  ASSUME IInv, NEW c \in Clients, NEW id \in ConnectionId,
         connected[c][id] # NoPeer, NEW a, a = connected[c][id].address
  PROVE  /\ a \in Servers
         /\ Promoted(c, id, a) = connected[c]
         /\ NoLongerAwaiting(c, a) => awaiting' = awaiting
<1>1. a \in Servers
  BY DEF IInv, IdsAgree, ConnectedIds
<1>2. awaiting[c][a] = NoPeer
  BY <1>1 DEF IInv, OneStatePerServer, ConnectedIds
<1>3. awaiting \in [Clients -> [Endpoint -> Peer \cup {NoPeer}]] /\ a \in Endpoint
  BY <1>1 DEF IInv, TypeOK, ClientTypeOK, Endpoint
<1>4. [awaiting EXCEPT ![c][a] = NoPeer] = awaiting
  BY <1>2, <1>3
<1>5. QED
  BY <1>1, <1>2, <1>4 DEF Promoted, NoLongerAwaiting

\* send_to and sent_* for a connected peer, or for a packet sent before.
LEMMA SendPacketCalm ==
  ASSUME IInv, NEW e \in Endpoint, NEW p \in Packet, NEW reliable \in BOOLEAN,
         NEW sents \in [SentKind -> Seq(Sent)], NEW next \in Phase,
         next # "expect", phase[e] \notin Stopped,
         p.kind \in SentKind, p.src = e,
         \/ p \in network
         \/ /\ connected[e][p.id] # NoPeer
            /\ connected[e][p.id].address = p.dst
            /\ e \in Servers => scheduledAccepted'[e] = <<>>,
         \A k \in SentKind : ToSet(sents[k]) \subseteq ToSet(sent[e][k]),
         SendPacket(e, p, reliable, connected[e], sents, next)
  PROVE  /\ \A x \in Endpoint, id \in ConnectionId :
              SamePeer(connected'[x][id], connected[x][id])
         /\ CalmNetwork
         /\ CalmPhase
         /\ p \in network'
         /\ \A x \in Endpoint, k \in SentKind : \A y \in ToSet(sent'[x][k]) :
              \/ y \in ToSet(sent[x][k])
              \/ y.packet \in network' /\ y.packet.src = x /\ y.packet.kind = k
<1>1. p.id \in ConnectionId
  BY PacketFields DEF SentKind
<1>2. /\ connected \in [Endpoint -> [ConnectionId -> Peer \cup {NoPeer}]]
      /\ sent \in [Endpoint -> [SentKind -> Seq(Sent)]]
      /\ phase \in [Endpoint -> Phase]
  BY DEF IInv, TypeOK, ProtocolTypeOK
<1>3. network' = network \cup {p}
  BY DEF SendPacket
<1>4. CalmNetwork
  BY <1>1, <1>3 DEF CalmNetwork, Fresh
<1>5. \E x \in Phase : x # "expect" /\ phase' = [phase EXCEPT ![e] = x]
  BY DEF SendPacket, Phase, Stopped
<1>6. CalmPhase
  BY <1>2, <1>5 DEF IInv, CreateNeverFails, CalmPhase
<1>7. \A x \in Endpoint, id \in ConnectionId :
        SamePeer(connected'[x][id], connected[x][id])
  <2>1. CASE connected' = [connected EXCEPT ![e] = connected[e]]
    BY <1>2, <2>1 DEF SamePeer
  <2>2. CASE /\ ~Exhausts(connected[e][p.id], p) /\ EndsGroup(p)
             /\ connected[e][p.id] # NoPeer
             /\ connected' = [connected EXCEPT ![e] =
                                [connected[e] EXCEPT ![p.id].sequence = @ + 1]]
    <3>1. connected[e][p.id] \in Peer /\ connected[e][p.id].sequence # SequenceLimit
      BY <1>1, <1>2, <2>2 DEF Exhausts
    <3>2. /\ [connected[e][p.id] EXCEPT !.sequence = @ + 1] # NoPeer
          /\ [connected[e][p.id] EXCEPT !.sequence = @ + 1].address =
               connected[e][p.id].address
      BY <3>1, NextSequenceType, NoPeerAssumption DEF Peer
    <3>3. QED
      BY <1>1, <1>2, <2>2, <3>2 DEF SamePeer
  <2>3. QED
    BY <1>1, <2>1, <2>2 DEF SendPacket
<1>8. \A x \in Endpoint, k \in SentKind : \A y \in ToSet(sent'[x][k]) :
        \/ y \in ToSet(sent[x][k])
        \/ y.packet \in network' /\ y.packet.src = x /\ y.packet.kind = k
  <2> DEFINE y == [packet |-> p, time |-> clock[e]]
  <2>1. CASE sent' = [sent EXCEPT ![e] = sents]
    BY <1>2, <2>1
  <2>2. CASE sent' = [sent EXCEPT ![e] =
                        [sents EXCEPT ![p.kind] = Append(@, y)]]
    <3>1. y \in Sent /\ y.packet = p
      BY DEF Sent, IInv, TypeOK, ProtocolTypeOK
    <3> HIDE DEF y
    <3>2. ToSet(Append(sents[p.kind], y)) = ToSet(sents[p.kind]) \cup {y}
      BY <3>1, ToSetAppend
    <3>3. QED
      BY <1>2, <1>3, <2>2, <3>1, <3>2
  <2>3. QED
    BY <2>1, <2>2 DEF SendPacket
<1>9. QED
  BY <1>3, <1>4, <1>6, <1>7, <1>8

-----------------------------------------------------------------------------
(***************************************************************************)
(* The calm steps, one by one.                                             *)
(***************************************************************************)

\* Every item a call pushes is for a connected id, at its peer's address.
LEMMA BatchConnected ==
  ASSUME IInv, NEW e \in Endpoint, NEW ids \in Recipients(e), NEW total \in Nat,
         NEW item \in ToSet(Batch(e, ids, total))
  PROVE  /\ item.id \in ConnectedIds(e)
         /\ item.address = connected[e][item.id].address
<1> DEFINE n == total * Len(ids)
<1>1. ids \in Seq(ConnectedIds(e))
  BY RecipientsType
<1>2. Len(ids) \in Nat /\ n \in Nat
  BY <1>1
<1>3. DOMAIN Batch(e, ids, total) = 1 .. n
  BY DEF Batch, ScheduledItem
<1>4. PICK k \in 1 .. n : item = Batch(e, ids, total)[k]
  BY <1>3 DEF ToSet
<1>5. Len(ids) # 0
  BY <1>2
<1>6. ((k - 1) % Len(ids)) + 1 \in 1 .. Len(ids)
  BY <1>2, <1>5
<1>7. ids[((k - 1) % Len(ids)) + 1] \in ConnectedIds(e)
  BY <1>1, <1>6
<1> HIDE DEF n
<1>8. /\ item.id = ids[((k - 1) % Len(ids)) + 1]
      /\ item.address = connected[e][ids[((k - 1) % Len(ids)) + 1]].address
  BY <1>4 DEF Batch, ScheduledItem, n
<1>9. QED
  BY <1>7, <1>8

\* schedule and heartbeat keep the inductive invariant.
LEMMA CallStep ==
  ASSUME IInv, TypeOK', NEW e \in Endpoint, Schedule(e) \/ Heartbeat(e),
         UNCHANGED <<clientVars, serverVars>>
  PROVE  IInv'
<1>1. PICK ids \in Recipients(e), total \in Nat, q \in Queue :
        Enqueue(e, q, Batch(e, ids, total))
  BY ClockAssumption DEF Schedule, Heartbeat, Queue
<1>2. /\ UNCHANGED <<network, phase, connected, sent>>
      /\ scheduled' = [scheduled EXCEPT ![e][q] = @ \o Batch(e, ids, total)]
  BY <1>1 DEF Enqueue
<1>3. ScheduledToConnected'
  <2> SUFFICES ASSUME NEW x \in Endpoint, NEW l \in Queue,
                      NEW item \in ToSet(scheduled'[x][l])
               PROVE  /\ connected[x][item.id] # NoPeer
                      /\ connected[x][item.id].address = item.address
    BY <1>2 DEF ScheduledToConnected
  <2>1. scheduled \in [Endpoint -> [Queue -> Seq(Scheduled)]]
    BY DEF IInv, TypeOK, ProtocolTypeOK
  <2>2. CASE item \in ToSet(scheduled[x][l])
    BY <2>2 DEF IInv, ScheduledToConnected
  <2>3. CASE x = e /\ item \in ToSet(Batch(e, ids, total))
    BY <2>3, BatchConnected DEF ConnectedIds
  <2>4. Batch(e, ids, total) \in Seq(Scheduled)
    BY BatchType DEF IInv, TypeOK
  <2>5. (x = e /\ l = q) \/ scheduled'[x][l] = scheduled[x][l]
    BY <1>2, <2>1
  <2>6. scheduled'[e][q] = scheduled[e][q] \o Batch(e, ids, total)
    BY <1>2, <2>1
  <2>7. ToSet(scheduled'[e][q]) \subseteq
          ToSet(scheduled[e][q]) \cup ToSet(Batch(e, ids, total))
    BY <2>1, <2>4, <2>6, ToSetConcat
  <2>8. QED
    BY <2>2, <2>3, <2>5, <2>7
<1>4. SentWasSent'
  BY <1>2 DEF IInv, SentWasSent, clientVars, serverVars
<1>5. CalmMaps /\ CalmNetwork /\ CalmPhase
  BY <1>2 DEF CalmMaps, CalmNetwork, CalmPhase, SamePeer, clientVars, serverVars,
              IInv, CreateNeverFails
<1>6. QED
  BY <1>3, <1>4, <1>5, CalmStep DEF Calm

\* Time keeps the inductive invariant.
LEMMA TickStep ==
  ASSUME IInv, TypeOK', NEW e \in Endpoint, Tick(e),
         UNCHANGED <<clientVars, serverVars>>
  PROVE  IInv'
<1>1. ScheduledToConnected'
  BY DEF Tick, IInv, ScheduledToConnected
<1>2. SentWasSent'
  BY DEF Tick, IInv, SentWasSent, clientVars, serverVars
<1>3. CalmMaps /\ CalmNetwork /\ CalmPhase
  BY DEF Tick, CalmMaps, CalmNetwork, CalmPhase, SamePeer, clientVars, serverVars,
         IInv, CreateNeverFails
<1>4. QED
  BY <1>1, <1>2, <1>3, CalmStep DEF Calm

\* A round of a poll_* loop: create_* finds its peer, so only SendPacket is left.
LEMMA SendScheduledCalm ==
  ASSUME IInv, NEW e \in Endpoint, NEW q \in Queue,
         e \in Servers => scheduledAccepted[e] = <<>>,
         SendScheduled(e, q, connected[e]),
         UNCHANGED <<requesting, awaiting, scheduledRequest, sentRequest, serverVars>>
  PROVE  Calm
<1> DEFINE item == Head(scheduled[e][q])
           p == Created(e, q, item)
<1>1. scheduled \in [Endpoint -> [Queue -> Seq(Scheduled)]]
  BY DEF IInv, TypeOK, ProtocolTypeOK
<1>2. scheduled[e][q] # <<>> /\ phase[e] = "send"
  BY DEF SendScheduled, NextInLine
<1>3. item \in ToSet(scheduled[e][q])
  BY <1>1, <1>2, ToSetTail
<1>4. connected[e][item.id] # NoPeer /\ connected[e][item.id].address = item.address
  BY <1>3 DEF IInv, ScheduledToConnected
<1>5. /\ SendPacket(e, p, DrainOrder[q].reliable, connected[e], sent[e], "send")
      /\ scheduled' = [scheduled EXCEPT ![e][q] = Tail(@)]
  BY <1>4 DEF SendScheduled
<1>6. p \in Packet
  BY <1>2, <1>4, CreatedType DEF IInv, TypeOK
<1>7. /\ p.kind \in SentKind /\ p.src = e /\ p.id = item.id /\ p.dst = item.address
      /\ DrainOrder[q].reliable \in BOOLEAN
  BY DrainOrderType DEF Created, IntoPacket
<1>8. /\ sent[e] \in [SentKind -> Seq(Sent)]
      /\ "send" \in Phase /\ phase[e] \notin Stopped
  BY <1>2 DEF IInv, TypeOK, ProtocolTypeOK, Phase, Stopped
<1> HIDE DEF p, item
<1>9. /\ \A x \in Endpoint, id \in ConnectionId :
           SamePeer(connected'[x][id], connected[x][id])
      /\ CalmNetwork
      /\ CalmPhase
      /\ \A x \in Endpoint, k \in SentKind : \A y \in ToSet(sent'[x][k]) :
           \/ y \in ToSet(sent[x][k])
           \/ y.packet \in network' /\ y.packet.src = x /\ y.packet.kind = k
  BY <1>4, <1>5, <1>6, <1>7, <1>8, SendPacketCalm DEF serverVars
<1>10. CalmMaps
  BY <1>9 DEF CalmMaps, SamePeer, serverVars
<1>11. SentWasSent'
  BY <1>9, SentKept DEF CalmNetwork, serverVars
<1>12. ScheduledToConnected'
  <2>1. \A x \in Endpoint, l \in Queue :
          ToSet(scheduled'[x][l]) \subseteq ToSet(scheduled[x][l])
    BY <1>1, <1>2, <1>5, ToSetTail
  <2>2. QED
    BY <1>10, <2>1, CalmGrows, ScheduledKept
<1>13. QED
  BY <1>9, <1>10, <1>11, <1>12 DEF Calm

\* A retry of a packet that was sent before: its keeper is the sender.
LEMMA ResendCalm ==
  ASSUME IInv, NEW e \in Endpoint, NEW kind \in SentKind, NEW next \in Phase,
         next # "expect", phase[e] \notin Stopped, Overdue(e, sent[e][kind]),
         Resend(e, kind, connected[e], next),
         UNCHANGED <<requesting, awaiting, scheduledRequest, sentRequest, serverVars>>
  PROVE  Calm
<1> DEFINE p == Last(sent[e][kind]).packet
           sents == [sent[e] EXCEPT ![kind] = Front(@)]
<1>1. sent \in [Endpoint -> [SentKind -> Seq(Sent)]]
  BY DEF IInv, TypeOK, ProtocolTypeOK
<1>2. Last(sent[e][kind]) \in ToSet(sent[e][kind])
  BY <1>1, ToSetLast DEF Overdue
<1>3. /\ p \in network /\ p.src = e /\ p.kind \in SentKind
  BY <1>2 DEF IInv, SentWasSent
<1>4. p \in Packet
  BY <1>3 DEF IInv, TypeOK, ProtocolTypeOK
<1>5. sents \in [SentKind -> Seq(Sent)]
  BY <1>1, FrontType
<1>6. \A k \in SentKind : ToSet(sents[k]) \subseteq ToSet(sent[e][k])
  BY <1>1, ToSetFront
<1>7. SendPacket(e, p, TRUE, connected[e], sents, next)
  BY DEF Resend
<1> HIDE DEF p, sents
<1>8. /\ \A x \in Endpoint, id \in ConnectionId :
           SamePeer(connected'[x][id], connected[x][id])
      /\ CalmNetwork
      /\ CalmPhase
      /\ \A x \in Endpoint, k \in SentKind : \A y \in ToSet(sent'[x][k]) :
           \/ y \in ToSet(sent[x][k])
           \/ y.packet \in network' /\ y.packet.src = x /\ y.packet.kind = k
  BY <1>3, <1>4, <1>5, <1>6, <1>7, SendPacketCalm
<1>9. CalmMaps
  BY <1>8 DEF CalmMaps, SamePeer, serverVars
<1>10. SentWasSent'
  BY <1>8, SentKept DEF CalmNetwork, serverVars
<1>11. ScheduledToConnected'
  BY <1>9, CalmGrows, ScheduledKept DEF Resend
<1>12. QED
  BY <1>8, <1>9, <1>10, <1>11 DEF Calm

\* A step that only takes packets from the reliability handler.
LEMMA DropCalm ==
  ASSUME IInv,
         \A e \in Endpoint, k \in SentKind :
            ToSet(sent'[e][k]) \subseteq ToSet(sent[e][k]),
         \A c \in Clients : ToSet(sentRequest'[c]) \subseteq ToSet(sentRequest[c]),
         \A s \in Servers : ToSet(sentAccepted'[s]) \subseteq ToSet(sentAccepted[s]),
         CalmPhase,
         UNCHANGED <<network, connected, scheduled, requesting, awaiting,
                     scheduledRequest, awaitingAck, connectionIdTracker,
                     scheduledAccepted>>
  PROVE  Calm
<1>1. CalmMaps /\ CalmNetwork
  BY DEF CalmMaps, CalmNetwork, SamePeer
<1>2. SentWasSent'
  BY SentKept
<1>3. ScheduledToConnected'
  BY DEF IInv, ScheduledToConnected
<1>4. QED
  BY <1>1, <1>2, <1>3 DEF Calm

\* Dropping a packet that is not due for a retry is calm.
LEMMA ForgetCalm ==
  ASSUME IInv, NEW e \in Endpoint, NEW kind \in SentKind, NEW next \in Phase,
         next # "expect", phase[e] \notin Stopped, Forget(e, kind, next),
         UNCHANGED <<clientVars, serverVars>>
  PROVE  Calm
<1>1. sent \in [Endpoint -> [SentKind -> Seq(Sent)]]
      /\ phase \in [Endpoint -> Phase]
  BY DEF IInv, TypeOK, ProtocolTypeOK
<1>2. \A x \in Endpoint, k \in SentKind :
        ToSet(sent'[x][k]) \subseteq ToSet(sent[x][k])
  BY <1>1, ToSetFront DEF Forget
<1>3. CalmPhase
  BY <1>1 DEF Forget, CalmPhase, IInv, CreateNeverFails
<1>4. QED
  BY <1>2, <1>3, DropCalm DEF Forget, clientVars, serverVars

\* The end of poll is calm, what the services' own poll does aside.
LEMMA PollHandlerCalm ==
  ASSUME IInv, NEW e \in Endpoint, PollHandler(e)
  PROVE  /\ CalmPhase
         /\ \A x \in Endpoint, k \in SentKind :
              ToSet(sent'[x][k]) \subseteq ToSet(sent[x][k])
<1>1. sent \in [Endpoint -> [SentKind -> Seq(Sent)]]
      /\ phase \in [Endpoint -> Phase]
  BY DEF IInv, TypeOK, ProtocolTypeOK
<1>2. CalmPhase
  BY <1>1 DEF PollHandler, CalmPhase, IInv, CreateNeverFails, Stopped
<1>3. \A k \in SentKind : ToSet(Expired(sent[e])[k]) \subseteq ToSet(sent[e][k])
  BY <1>1, ToSetTail DEF Expired, SentKind
<1>4. \A x \in Endpoint, k \in SentKind :
        ToSet(sent'[x][k]) \subseteq ToSet(sent[x][k])
  BY <1>1, <1>3 DEF PollHandler
<1>5. QED
  BY <1>2, <1>4

\* The steps of a client that leave the shape of the maps alone.
LEMMA ClientRetryCalm ==
  ASSUME IInv, NEW c \in Clients, ClientRetryDataTransfer(c), UNCHANGED serverVars
  PROVE  Calm
<1> DEFINE list == sent[c]["DataTransfer"]
           p == Last(list).packet
<1>1. /\ c \in Endpoint /\ "DataTransfer" \in SentKind
      /\ "send" \in Phase /\ phase[c] \notin Stopped
  BY DEF Endpoint, SentKind, Phase, Stopped, ClientRetryDataTransfer
<1>2. CASE Overdue(c, list)
  <2>1. Last(list) \in ToSet(list)
    BY <1>1, <1>2, ToSetLast DEF Overdue, IInv, TypeOK, ProtocolTypeOK
  <2>2. p \in network /\ p.src = c /\ p.kind = "DataTransfer"
    BY <1>1, <2>1 DEF IInv, SentWasSent
  <2>3. p.id \in ConnectionId
    BY <2>2, PacketFields DEF IInv, TypeOK, ProtocolTypeOK
  <2>4. connected[c][p.id] # NoPeer /\ connected[c][p.id].address = p.dst
    BY <2>2 DEF IInv, PacketsSpeakTrue, FromClientTrue
  <2>5. /\ Resend(c, "DataTransfer", Promoted(c, p.id, p.dst), "send")
        /\ NoLongerAwaiting(c, p.dst)
        /\ UNCHANGED <<requesting, scheduledRequest, sentRequest>>
    BY <1>2 DEF ClientRetryDataTransfer
  <2> HIDE DEF p
  <2>6. Promoted(c, p.id, p.dst) = connected[c] /\ awaiting' = awaiting
    BY <2>3, <2>4, <2>5, NotAwaited
  <2>7. QED
    BY <1>1, <1>2, <2>5, <2>6, ResendCalm
<1>3. CASE ~Overdue(c, list)
  BY <1>1, <1>3, ForgetCalm DEF ClientRetryDataTransfer, clientVars
<1>4. QED
  BY <1>2, <1>3

\* A round of one of the client's poll_* loops is calm: nobody it sends to is
\* still awaiting.
LEMMA ClientSendCalm ==
  ASSUME IInv, NEW c \in Clients, NEW q \in Queue, ClientSend(c, q),
         UNCHANGED serverVars
  PROVE  Calm
<1> DEFINE item == Head(scheduled[c][q])
<1>1. c \in Endpoint /\ c \notin Servers
  BY EndpointAssumption DEF Endpoint
<1>2. scheduled[c][q] # <<>> /\ scheduled[c][q] \in Seq(Scheduled)
  BY <1>1 DEF ClientSend, SendScheduled, NextInLine, IInv, TypeOK, ProtocolTypeOK
<1>3. item \in ToSet(scheduled[c][q]) /\ item \in Scheduled
  BY <1>2, ToSetTail, TailType
<1>4. connected[c][item.id] # NoPeer /\ connected[c][item.id].address = item.address
  BY <1>1, <1>3 DEF IInv, ScheduledToConnected
<1>5. /\ SendScheduled(c, q, Promoted(c, item.id, item.address))
      /\ NoLongerAwaiting(c, item.address)
      /\ UNCHANGED <<requesting, scheduledRequest, sentRequest>>
  BY <1>4 DEF ClientSend
<1>6. item.id \in ConnectionId
  BY <1>3 DEF Scheduled
<1> HIDE DEF item
<1>7. Promoted(c, item.id, item.address) = connected[c] /\ awaiting' = awaiting
  BY <1>4, <1>5, <1>6, NotAwaited
<1>8. QED
  BY <1>1, <1>5, <1>7, SendScheduledCalm

\* Protocol<Client>::poll is calm.
LEMMA ClientPollCalm ==
  ASSUME IInv, NEW c \in Clients, ClientPoll(c), UNCHANGED serverVars
  PROVE  Calm
<1>1. sentRequest \in [Clients -> Seq(Sent)]
  BY DEF IInv, TypeOK, ClientTypeOK
<1>2. \A x \in Clients : ToSet(sentRequest'[x]) \subseteq ToSet(sentRequest[x])
  BY <1>1, ToSetTail DEF ClientPoll, WithoutFirst
<1>3. QED
  BY <1>2, PollHandlerCalm, DropCalm DEF ClientPoll, PollHandler, serverVars, Endpoint

(***************************************************************************)
(* The retry of a request never finds its peer requesting: the request was *)
(* sent, and sending it moved the peer on.  sent_connection_request then   *)
(* unwraps nothing, so a retry always panics.                              *)
(***************************************************************************)
LEMMA RetryConnectionRequestCalm ==
  ASSUME IInv, NEW c \in Clients, RetryConnectionRequest(c), UNCHANGED serverVars
  PROVE  Calm
<1> DEFINE p == Last(sentRequest[c]).packet
           next == IF Overdue(c, sentRequest[c]) THEN "unwrap" ELSE "retryData"
<1>1. c \in Endpoint /\ phase[c] = "app"
  BY DEF Endpoint, RetryConnectionRequest
<1>2. /\ sentRequest \in [Clients -> Seq(Sent)]
      /\ phase \in [Endpoint -> Phase]
  BY DEF IInv, TypeOK, ClientTypeOK, ProtocolTypeOK
<1>3. /\ UNCHANGED <<network, requesting, awaiting>>
      /\ phase' = [phase EXCEPT ![c] = next]
      /\ sentRequest' = [sentRequest EXCEPT ![c] = Front(@)]
  <2>1. CASE Overdue(c, sentRequest[c])
    <3>1. Last(sentRequest[c]) \in ToSet(sentRequest[c])
      BY <1>2, <2>1, ToSetLast DEF Overdue
    <3>2. p \in network /\ p.src = c /\ p.kind = "ConnectionRequest"
      BY <3>1 DEF IInv, SentWasSent
    <3>3. requesting[c][p.dst] = NoPeer
      BY <1>1, <3>2 DEF IInv, PacketsSpeakTrue, RequestTrue, Stopped
    <3>4. SendRequest(c, p, Front(sentRequest[c]), "retryData")
      BY <2>1 DEF RetryConnectionRequest
    <3>5. network' = network
      BY <3>2, <3>4 DEF SendRequest
    <3>6. QED
      BY <2>1, <3>3, <3>4, <3>5 DEF SendRequest
  <2>2. CASE ~Overdue(c, sentRequest[c])
    BY <2>2 DEF RetryConnectionRequest
  <2>3. QED
    BY <2>1, <2>2
<1>4. CalmPhase
  BY <1>1, <1>2, <1>3 DEF CalmPhase, IInv, CreateNeverFails, Stopped
<1>5. \A x \in Clients : ToSet(sentRequest'[x]) \subseteq ToSet(sentRequest[x])
  BY <1>2, <1>3, ToSetFront
<1>6. QED
  BY <1>3, <1>4, <1>5, DropCalm DEF RetryConnectionRequest, serverVars

\* The steps of a server that leave the shape of the maps alone.
LEMMA RetrySentCalm ==
  ASSUME IInv, NEW s \in Servers, NEW kind \in SentKind, NEW now \in Phase \ Stopped,
         NEW next \in Phase, next # "expect", RetrySent(s, kind, now, next),
         UNCHANGED clientVars
  PROVE  Calm
<1>1. s \in Endpoint /\ phase[s] \notin Stopped
  BY DEF Endpoint, RetrySent
<1>2. QED
  BY <1>1, ResendCalm, ForgetCalm DEF RetrySent, clientVars

\* A round of one of the server's poll_* loops is calm.
LEMMA ServerSendCalm ==
  ASSUME IInv, NEW s \in Servers, NEW q \in Queue, ServerSend(s, q),
         UNCHANGED clientVars
  PROVE  Calm
BY SendScheduledCalm DEF ServerSend, clientVars, Endpoint

\* Protocol<Server>::poll is calm.
LEMMA ServerPollCalm ==
  ASSUME IInv, NEW s \in Servers, ServerPoll(s), UNCHANGED clientVars
  PROVE  Calm
<1>1. sentAccepted \in [Servers -> Seq(Sent)]
  BY DEF IInv, TypeOK, ServerTypeOK
<1>2. \A x \in Servers : ToSet(sentAccepted'[x]) \subseteq ToSet(sentAccepted[x])
  BY <1>1, ToSetTail DEF ServerPoll, WithoutFirst
<1>3. QED
  BY <1>2, PollHandlerCalm, DropCalm DEF ServerPoll, PollHandler, clientVars, Endpoint

\* send_to and sent_connection_accepted.
LEMMA SendAcceptedCalm ==
  ASSUME IInv, NEW s \in Servers, NEW p \in Packet, NEW sents \in Seq(Sent),
         NEW next \in Phase, next # "expect", phase[s] \notin Stopped,
         p.src = s, p.kind = "ConnectionAccepted",
         ToSet(sents) \subseteq ToSet(sentAccepted[s]),
         p \in network \/ Fresh(p),
         SendAccepted(s, p, sents, next)
  PROVE  /\ \A x \in Servers, id \in ConnectionId :
              SamePeer(awaitingAck'[x][id], awaitingAck[x][id])
         /\ CalmNetwork
         /\ CalmPhase
         /\ \A x \in Servers : \A y \in ToSet(sentAccepted'[x]) :
              \/ y \in ToSet(sentAccepted[x])
              \/ /\ y.packet \in network'
                 /\ y.packet.src = x
                 /\ y.packet.kind = "ConnectionAccepted"
<1> DEFINE peer == awaitingAck[s][p.id]
           last == peer # NoPeer /\ peer.sequence = SequenceLimit
<1>1. /\ awaitingAck \in [Servers -> [ConnectionId -> Peer \cup {NoPeer}]]
      /\ sentAccepted \in [Servers -> Seq(Sent)]
      /\ phase \in [Endpoint -> Phase]
      /\ p.id \in ConnectionId /\ s \in Endpoint
  BY PacketFields DEF IInv, TypeOK, ProtocolTypeOK, ServerTypeOK, Endpoint
<1>2. network' = network \cup {p}
  BY DEF SendAccepted
<1>3. CalmNetwork
  BY <1>2 DEF CalmNetwork
<1>4. CalmPhase
  <2>1. phase' = [phase EXCEPT ![s] = IF last THEN "exhausted" ELSE next]
    BY DEF SendAccepted
  <2>2. QED
    BY <1>1, <2>1 DEF CalmPhase, IInv, CreateNeverFails
<1>5. \A x \in Servers, id \in ConnectionId :
        SamePeer(awaitingAck'[x][id], awaitingAck[x][id])
  <2>1. CASE last \/ peer = NoPeer
    BY <2>1 DEF SendAccepted, SamePeer
  <2>2. CASE ~last /\ peer # NoPeer
    <3>1. peer \in Peer /\ peer.sequence # SequenceLimit
      BY <1>1, <2>2
    <3>2. /\ [peer EXCEPT !.sequence = @ + 1] # NoPeer
          /\ [peer EXCEPT !.sequence = @ + 1].address = peer.address
      BY <3>1, NextSequenceType, NoPeerAssumption DEF Peer
    <3>3. awaitingAck' = [awaitingAck EXCEPT ![s][p.id] =
                            [peer EXCEPT !.sequence = @ + 1]]
      BY <2>2 DEF SendAccepted
    <3>4. QED
      BY <1>1, <2>2, <3>2, <3>3 DEF SamePeer
  <2>3. QED
    BY <2>1, <2>2
<1>6. \A x \in Servers : \A y \in ToSet(sentAccepted'[x]) :
        \/ y \in ToSet(sentAccepted[x])
        \/ /\ y.packet \in network'
           /\ y.packet.src = x
           /\ y.packet.kind = "ConnectionAccepted"
  <2> DEFINE y == [packet |-> p, time |-> clock[s]]
  <2>1. CASE sentAccepted' = [sentAccepted EXCEPT ![s] = sents]
    BY <1>1, <2>1
  <2>2. CASE sentAccepted' = [sentAccepted EXCEPT ![s] = Append(sents, y)]
    <3>1. y \in Sent /\ y.packet = p
      BY <1>1 DEF Sent, IInv, TypeOK, ProtocolTypeOK
    <3> HIDE DEF y
    <3>2. ToSet(Append(sents, y)) = ToSet(sents) \cup {y}
      BY <3>1, ToSetAppend
    <3>3. QED
      BY <1>1, <1>2, <2>2, <3>1, <3>2
  <2>3. QED
    BY <2>1, <2>2 DEF SendAccepted
<1>7. QED
  BY <1>3, <1>4, <1>5, <1>6

\* poll_retry_connection_accepted is calm.
LEMMA RetryConnectionAcceptedCalm ==
  ASSUME IInv, NEW s \in Servers, RetryConnectionAccepted(s), UNCHANGED clientVars
  PROVE  Calm
<1> DEFINE p == Last(sentAccepted[s]).packet
           sents == Front(sentAccepted[s])
<1>1. /\ s \in Endpoint /\ phase[s] = "app" /\ phase[s] \notin Stopped
      /\ "retryData" \in Phase /\ "retryData" \notin Stopped
  BY DEF Endpoint, Phase, Stopped, RetryConnectionAccepted
<1>2. /\ sentAccepted \in [Servers -> Seq(Sent)]
      /\ phase \in [Endpoint -> Phase]
  BY DEF IInv, TypeOK, ServerTypeOK, ProtocolTypeOK
<1>3. sents \in Seq(Sent) /\ ToSet(sents) \subseteq ToSet(sentAccepted[s])
  BY <1>2, FrontType, ToSetFront
<1>4. CASE Overdue(s, sentAccepted[s])
  <2>1. Last(sentAccepted[s]) \in ToSet(sentAccepted[s])
    BY <1>2, <1>4, ToSetLast DEF Overdue
  <2>2. p \in network /\ p.src = s /\ p.kind = "ConnectionAccepted"
    BY <2>1 DEF IInv, SentWasSent
  <2>3. p \in Packet
    BY <2>2 DEF IInv, TypeOK, ProtocolTypeOK
  <2>4. SendAccepted(s, p, sents, "retryData")
    BY <1>4 DEF RetryConnectionAccepted
  <2> HIDE DEF p, sents
  <2>5. /\ \A x \in Servers, id \in ConnectionId :
             SamePeer(awaitingAck'[x][id], awaitingAck[x][id])
        /\ CalmNetwork
        /\ CalmPhase
        /\ \A x \in Servers : \A y \in ToSet(sentAccepted'[x]) :
             \/ y \in ToSet(sentAccepted[x])
             \/ /\ y.packet \in network'
                /\ y.packet.src = x
                /\ y.packet.kind = "ConnectionAccepted"
    BY <1>1, <1>3, <2>2, <2>3, <2>4, SendAcceptedCalm DEF Stopped
  <2>6. /\ UNCHANGED <<connected, scheduled, sent, connectionIdTracker,
                       scheduledAccepted>>
        /\ UNCHANGED <<requesting, awaiting, scheduledRequest, sentRequest>>
    BY DEF RetryConnectionAccepted, clientVars
  <2>7. CalmMaps
    BY <2>5, <2>6 DEF CalmMaps, SamePeer
  <2>8. SentWasSent'
    BY <2>5, <2>6, SentKept DEF CalmNetwork
  <2>9. ScheduledToConnected'
    BY <2>6 DEF IInv, ScheduledToConnected
  <2>10. QED
    BY <2>5, <2>7, <2>8, <2>9 DEF Calm
<1>5. CASE ~Overdue(s, sentAccepted[s])
  <2>1. CalmPhase
    BY <1>1, <1>2, <1>5 DEF RetryConnectionAccepted, CalmPhase, IInv, CreateNeverFails
  <2>2. \A x \in Servers : ToSet(sentAccepted'[x]) \subseteq ToSet(sentAccepted[x])
    BY <1>2, <1>3, <1>5 DEF RetryConnectionAccepted
  <2>3. QED
    BY <1>5, <2>1, <2>2, DropCalm DEF RetryConnectionAccepted, clientVars
<1>6. QED
  BY <1>4, <1>5

\* poll_connection_accepted is calm: the packet it adds speaks true.
LEMMA SendConnectionAcceptedCalm ==
  ASSUME IInv, TypeOK', NEW s \in Servers, SendConnectionAccepted(s),
         UNCHANGED clientVars
  PROVE  Calm
<1> DEFINE item == Head(scheduledAccepted[s])
           peer == awaitingAck[s][item.id]
           p == [kind |-> "ConnectionAccepted", src |-> s, dst |-> item.address,
                 sequence |-> peer.sequence, ack |-> peer.remoteAck,
                 id |-> item.id, packetId |-> 0, index |-> 0, total |-> 1]
<1>1. /\ s \in Endpoint /\ phase[s] = "send" /\ phase[s] \notin Stopped
      /\ "send" \in Phase
  BY DEF Endpoint, Phase, Stopped, SendConnectionAccepted, IntoPacket, HandshakeItem
<1>2. /\ scheduledAccepted \in [Servers -> Seq(ScheduledAccepted)]
      /\ sentAccepted \in [Servers -> Seq(Sent)]
      /\ scheduledAccepted[s] # <<>>
  BY DEF IInv, TypeOK, ServerTypeOK, SendConnectionAccepted, IntoPacket, HandshakeItem
<1>3. item \in ToSet(scheduledAccepted[s]) /\ item \in ScheduledAccepted
  BY <1>2, ToSetTail, TailType
<1>4. peer # NoPeer /\ peer.address = item.address
  BY <1>3 DEF IInv, AcceptsAwait
<1>5. SendAccepted(s, p, sentAccepted[s], "send")
  BY <1>4 DEF SendConnectionAccepted, IntoPacket, HandshakeItem
<1>6. scheduledAccepted' = [scheduledAccepted EXCEPT ![s] = <<>>]
  <2>1. Tail(scheduledAccepted[s]) = <<>>
    BY <1>2 DEF IInv, AcceptsAwait
  <2>2. scheduledAccepted' = [scheduledAccepted EXCEPT ![s] = Tail(@)]
    BY DEF SendConnectionAccepted, IntoPacket, HandshakeItem
  <2>3. QED
    BY <2>1, <2>2
<1>7. /\ p.kind = "ConnectionAccepted" /\ p.src = s
      /\ p.id = item.id /\ p.dst = item.address
  OBVIOUS
<1>8. p \in Packet
  BY <1>5 DEF SendAccepted, TypeOK, ProtocolTypeOK
<1>9. Fresh(p)
  <2>1. item.id \in ConnectionId
    BY <1>3 DEF ScheduledAccepted
  <2>2. Owns(s, item.id, item.address)
    BY <1>4, <2>1 DEF IInv, UniqueIds, Owns, Owner
  <2> HIDE DEF p, item
  <2>3. QED
    BY <1>1, <1>2, <1>6, <1>7, <2>1, <2>2 DEF Fresh
<1> HIDE DEF p, item
<1>10. /\ \A x \in Servers, id \in ConnectionId :
            SamePeer(awaitingAck'[x][id], awaitingAck[x][id])
       /\ CalmNetwork
       /\ CalmPhase
       /\ \A x \in Servers : \A y \in ToSet(sentAccepted'[x]) :
            \/ y \in ToSet(sentAccepted[x])
            \/ /\ y.packet \in network'
               /\ y.packet.src = x
               /\ y.packet.kind = "ConnectionAccepted"
  BY <1>1, <1>2, <1>5, <1>7, <1>8, <1>9, SendAcceptedCalm
<1>11. /\ UNCHANGED <<connected, scheduled, sent, connectionIdTracker>>
       /\ UNCHANGED <<requesting, awaiting, scheduledRequest, sentRequest>>
  BY DEF SendConnectionAccepted, IntoPacket, HandshakeItem, clientVars
<1>12. CalmMaps
  BY <1>2, <1>6, <1>10, <1>11 DEF CalmMaps, SamePeer
<1>13. SentWasSent'
  BY <1>10, <1>11, SentKept DEF CalmNetwork
<1>14. ScheduledToConnected'
  BY <1>11 DEF IInv, ScheduledToConnected
<1>15. QED
  BY <1>10, <1>12, <1>13, <1>14 DEF Calm

-----------------------------------------------------------------------------
(***************************************************************************)
(* A client asks for a connection.                                         *)
(***************************************************************************)

\* Steps that change neither connected nor what a server knows.
ServersSame ==
  UNCHANGED <<connected, awaitingAck, connectionIdTracker, scheduledAccepted>>

\* A step that changes neither connected nor a server's maps keeps what is
\* said of them.
LEMMA ServersSameStep ==
  ASSUME IInv, ServersSame
  PROVE  /\ TrackerAhead' /\ AcceptsAwait' /\ UniqueIds'
         /\ IdsAgree' /\ EstablishedOnBothSides'
         /\ \A s \in Servers, id \in ConnectionId : Owner(s, id)' = Owner(s, id)
BY DEF IInv, ServersSame, TrackerAhead, AcceptsAwait, UniqueIds, IdsAgree,
       EstablishedOnBothSides, Owns, Owner, AcceptPending, ConnectedIds

\* Client::connect keeps the inductive invariant.
LEMMA ConnectStep ==
  ASSUME IInv, TypeOK', NEW c \in Clients, NEW s \in Servers, Connect(c, s),
         UNCHANGED serverVars
  PROVE  IInv'
<1> DEFINE peer == NewPeer(s, 0)
<1>1. /\ requesting \in [Clients -> [Endpoint -> Peer \cup {NoPeer}]]
      /\ scheduledRequest \in [Clients -> Seq(Servers)]
      /\ s \in Endpoint /\ c \in Endpoint
  BY DEF IInv, TypeOK, ClientTypeOK, Endpoint
<1>2. peer # NoPeer /\ peer.address = s
  <2>1. peer \in Peer
    BY <1>1, NewPeerType, WidthAssumption DEF Ack
  <2>2. QED
    BY <2>1, NoPeerAssumption DEF NewPeer
<1>3. ~KnownPeer(c, s)
  BY DEF Connect
<1>4. /\ requesting' = [requesting EXCEPT ![c][s] = peer]
      /\ scheduledRequest' = [scheduledRequest EXCEPT ![c] = Append(@, s)]
      /\ UNCHANGED <<network, phase, connected, scheduled, sent, awaiting, sentRequest>>
  BY DEF Connect
<1> HIDE DEF peer
<1>5. /\ TrackerAhead' /\ AcceptsAwait' /\ UniqueIds'
      /\ IdsAgree' /\ EstablishedOnBothSides'
      /\ \A x \in Servers, id \in ConnectionId : Owner(x, id)' = Owner(x, id)
  BY <1>4, ServersSameStep DEF ServersSame, serverVars
<1>6. AddressesFit'
  BY <1>1, <1>2, <1>4, <1>5 DEF IInv, AddressesFit
<1>7. RequestsRequest'
  <2> SUFFICES ASSUME NEW x \in Clients
               PROVE  /\ \A a \in ToSet(scheduledRequest'[x]) : requesting'[x][a] # NoPeer
                      /\ \A i, j \in DOMAIN scheduledRequest'[x] :
                           scheduledRequest'[x][i] = scheduledRequest'[x][j] => i = j
    BY DEF RequestsRequest
  <2> DEFINE list == scheduledRequest[c]
  <2>1. CASE x # c
    BY <1>1, <1>4, <2>1 DEF IInv, RequestsRequest
  <2>2. CASE x = c
    <3>1. list \in Seq(Servers) /\ scheduledRequest'[c] = Append(list, s)
      BY <1>1, <1>4
    <3>2. ToSet(Append(list, s)) = ToSet(list) \cup {s}
      BY <3>1, ToSetAppend
    <3>3. \A a \in ToSet(list) : requesting[c][a] # NoPeer /\ a \in Servers
      BY <3>1, ToSetType DEF IInv, RequestsRequest
    <3>4. s \notin ToSet(list)
      BY <1>3, <3>3 DEF KnownPeer
    <3>5. \A i, j \in DOMAIN list : list[i] = list[j] => i = j
      BY DEF IInv, RequestsRequest
    <3>6. \A i \in DOMAIN list : list[i] # s
      BY <3>4 DEF ToSet
    <3>7. \A i, j \in DOMAIN Append(list, s) :
             Append(list, s)[i] = Append(list, s)[j] => i = j
      <4>1. /\ Len(list) \in Nat
            /\ DOMAIN list = 1 .. Len(list)
            /\ DOMAIN Append(list, s) = 1 .. Len(list) + 1
            /\ Append(list, s)[Len(list) + 1] = s
            /\ \A i \in 1 .. Len(list) : Append(list, s)[i] = list[i]
        BY <3>1
      <4> HIDE DEF list
      <4>2. \A i \in 1 .. Len(list) + 1 : i \in 1 .. Len(list) \/ i = Len(list) + 1
        BY <4>1
      <4>3. QED
        BY <3>5, <3>6, <4>1, <4>2
    <3>8. \A a \in ToSet(list) \cup {s} : requesting'[c][a] # NoPeer
      BY <1>1, <1>2, <1>4, <3>3 DEF Endpoint
    <3>9. QED
      BY <2>2, <3>1, <3>2, <3>7, <3>8
  <2>3. QED
    BY <2>1, <2>2
<1>8. ScheduledToConnected' /\ SentWasSent'
  BY <1>4 DEF IInv, ScheduledToConnected, SentWasSent, serverVars
<1>9. PacketsSpeakTrue'
  <2> SUFFICES ASSUME NEW p \in network
               PROVE  /\ p.kind = "ConnectionRequest" => RequestTrue(p)'
                      /\ p.kind # "ConnectionRequest" /\ p.src \in Servers =>
                           FromServerTrue(p)'
                      /\ p.kind # "ConnectionRequest" /\ p.src \in Clients =>
                           FromClientTrue(p)'
    BY <1>4 DEF PacketsSpeakTrue
  <2>1. CASE p.kind = "ConnectionRequest"
    <3>1. RequestTrue(p)
      BY <2>1 DEF IInv, PacketsSpeakTrue
    <3>2. ~(p.src = c /\ p.dst = s)
      BY <1>3, <3>1 DEF RequestTrue
    <3>3. requesting'[p.src][p.dst] = requesting[p.src][p.dst]
      BY <1>1, <1>4, <3>1, <3>2 DEF RequestTrue, Endpoint
    <3>4. KnownPeer(p.src, p.dst)'
      BY <1>4, <3>1, <3>3 DEF RequestTrue, KnownPeer, ConnectedIds
    <3>5. QED
      BY <1>4, <2>1, <3>1, <3>3, <3>4 DEF RequestTrue
  <2>2. CASE p.kind # "ConnectionRequest"
    <3>1. p.id \in ConnectionId
      BY <2>2, PacketFields DEF IInv, TypeOK, ProtocolTypeOK
    <3>2. QED
      BY <1>4, <1>5, <2>2, <3>1
      DEF IInv, PacketsSpeakTrue, FromServerTrue, FromClientTrue, Owns,
          AcceptPending, serverVars
  <2>3. QED
    BY <2>1, <2>2
<1>10. OneStatePerServer'
  <2> SUFFICES ASSUME NEW x \in Clients, NEW y \in Servers
               PROVE  LET ids == {id \in ConnectedIds(x) : connected[x][id].address = y}
                      IN  /\ \A i, j \in ids : i = j
                          /\ requesting'[x][y] # NoPeer => awaiting[x][y] = NoPeer /\ ids = {}
                          /\ awaiting[x][y] # NoPeer => ids = {}
    BY <1>4 DEF OneStatePerServer, ConnectedIds
  <2>1. CASE x = c /\ y = s
    BY <1>3, <2>1 DEF IInv, OneStatePerServer, KnownPeer
  <2>2. CASE ~(x = c /\ y = s)
    <3>1. requesting'[x][y] = requesting[x][y]
      BY <1>1, <1>4, <2>2 DEF Endpoint
    <3>2. QED
      BY <3>1 DEF IInv, OneStatePerServer
  <2>3. QED
    BY <2>1, <2>2
<1>11. CreateNeverFails'
  BY <1>4 DEF IInv, CreateNeverFails
<1>12. QED
  BY <1>5, <1>6, <1>7, <1>8, <1>9, <1>10, <1>11 DEF IInv

(***************************************************************************)
(* The request goes out: its address is requesting, so create_* finds it,  *)
(* and it awaits the answer from then on, unless its sequence was the last.*)
(***************************************************************************)
LEMMA SendConnectionRequestStep ==
  ASSUME IInv, TypeOK', NEW c \in Clients, SendConnectionRequest(c),
         UNCHANGED serverVars
  PROVE  IInv'
<1> DEFINE s == Head(scheduledRequest[c])
           list == scheduledRequest[c]
           peer == requesting[c][s]
           p == [kind |-> "ConnectionRequest", src |-> c, dst |-> s,
                 sequence |-> peer.sequence, ack |-> peer.remoteAck, id |-> 0,
                 packetId |-> 0, index |-> 0, total |-> 1]
           moved == [peer EXCEPT !.sequence = @ + 1]
           last == peer.sequence = SequenceLimit
<1>1. /\ requesting \in [Clients -> [Endpoint -> Peer \cup {NoPeer}]]
      /\ awaiting \in [Clients -> [Endpoint -> Peer \cup {NoPeer}]]
      /\ scheduledRequest \in [Clients -> Seq(Servers)]
      /\ sentRequest \in [Clients -> Seq(Sent)]
      /\ phase \in [Endpoint -> Phase]
      /\ c \in Endpoint
  BY DEF IInv, TypeOK, ClientTypeOK, ProtocolTypeOK, Endpoint
<1>2. list # <<>> /\ phase[c] = "send"
  BY DEF SendConnectionRequest, IntoPacket, HandshakeItem
<1>3. s \in ToSet(list) /\ s \in Servers /\ s \in Endpoint
  BY <1>1, <1>2, ToSetTail, TailType DEF Endpoint
<1>4. peer # NoPeer
  BY <1>3 DEF IInv, RequestsRequest
<1>5. peer \in Peer /\ peer.address = s
  BY <1>1, <1>3, <1>4 DEF IInv, AddressesFit
<1>6. SendRequest(c, p, sentRequest[c], "send")
  BY <1>4 DEF SendConnectionRequest, IntoPacket, HandshakeItem
<1>7. p.kind = "ConnectionRequest" /\ p.src = c /\ p.dst = s
  OBVIOUS
<1>8. ~last => moved # NoPeer /\ moved.address = s
  BY <1>5, NextSequenceType, NoPeerAssumption DEF Peer
<1>9. /\ network' = network \cup {p}
      /\ phase' = [phase EXCEPT ![c] = IF last THEN "exhausted" ELSE "send"]
      /\ requesting' = IF last THEN requesting
                       ELSE [requesting EXCEPT ![c][s] = NoPeer]
      /\ awaiting' = IF last THEN awaiting ELSE [awaiting EXCEPT ![c][s] = moved]
      /\ scheduledRequest' = [scheduledRequest EXCEPT ![c] = Tail(@)]
      /\ UNCHANGED <<connected, scheduled, sent>>
  BY <1>4, <1>6, <1>7 DEF SendRequest, SendConnectionRequest, IntoPacket, HandshakeItem
<1>10. \A x \in Clients : \A y \in ToSet(sentRequest'[x]) :
         \/ y \in ToSet(sentRequest[x])
         \/ /\ y.packet \in network'
            /\ y.packet.src = x
            /\ y.packet.kind = "ConnectionRequest"
  <2> DEFINE y == [packet |-> p, time |-> clock[c]]
  <2>1. CASE sentRequest' = [sentRequest EXCEPT ![c] = @]
    BY <1>1, <2>1
  <2>2. CASE sentRequest' = [sentRequest EXCEPT ![c] = Append(@, y)]
    <3>1. p \in Packet
      BY <1>9 DEF TypeOK, ProtocolTypeOK
    <3> HIDE DEF p
    <3>2. y \in Sent /\ y.packet = p
      BY <1>1, <3>1 DEF Sent, IInv, TypeOK, ProtocolTypeOK
    <3> HIDE DEF y
    <3>3. ToSet(Append(sentRequest[c], y)) = ToSet(sentRequest[c]) \cup {y}
      BY <1>1, <3>2, ToSetAppend
    <3>4. QED
      BY <1>1, <1>7, <1>9, <2>2, <3>2, <3>3
  <2>3. QED
    BY <1>4, <1>6, <2>1, <2>2 DEF SendRequest
<1>11. SentWasSent'
  BY <1>9, <1>10, SentKept DEF serverVars
<1>12. ScheduledToConnected'
  BY <1>9 DEF IInv, ScheduledToConnected
<1>13. /\ TrackerAhead' /\ AcceptsAwait' /\ UniqueIds'
       /\ IdsAgree' /\ EstablishedOnBothSides'
       /\ \A x \in Servers, id \in ConnectionId : Owner(x, id)' = Owner(x, id)
  BY <1>9, ServersSameStep DEF ServersSame, serverVars
<1> HIDE DEF p, peer, moved, last, s, list
<1>14. AddressesFit'
  BY <1>1, <1>3, <1>8, <1>9, <1>13 DEF IInv, AddressesFit
<1>15. \A x \in Clients, y \in Endpoint :
         ~(x = c /\ y = s) => /\ requesting'[x][y] = requesting[x][y]
                              /\ awaiting'[x][y] = awaiting[x][y]
  BY <1>1, <1>9
<1>16. ~last => requesting'[c][s] = NoPeer /\ awaiting'[c][s] = moved
  BY <1>1, <1>3, <1>9
<1>17. RequestsRequest'
  <2> SUFFICES ASSUME NEW x \in Clients
               PROVE  /\ \A a \in ToSet(scheduledRequest'[x]) : requesting'[x][a] # NoPeer
                      /\ \A i, j \in DOMAIN scheduledRequest'[x] :
                           scheduledRequest'[x][i] = scheduledRequest'[x][j] => i = j
    BY DEF RequestsRequest
  <2>1. CASE x # c
    <3>1. /\ scheduledRequest'[x] = scheduledRequest[x]
          /\ \A a \in Endpoint : requesting'[x][a] = requesting[x][a]
      BY <1>1, <1>9, <1>15, <2>1
    <3>2. ToSet(scheduledRequest[x]) \subseteq Endpoint
      BY <1>1, ToSetType DEF Endpoint
    <3>3. QED
      BY <3>1, <3>2 DEF IInv, RequestsRequest
  <2>2. CASE x = c
    <3>1. list \in Seq(Servers) /\ scheduledRequest'[c] = Tail(list)
      BY <1>1, <1>9 DEF list
    <3>2. /\ Len(list) \in Nat /\ Len(list) > 0
          /\ DOMAIN list = 1 .. Len(list)
          /\ DOMAIN Tail(list) = 1 .. Len(list) - 1
          /\ \A i \in 1 .. Len(list) - 1 : Tail(list)[i] = list[i + 1]
          /\ s = list[1]
      BY <1>2, <3>1 DEF s, list
    <3>3. \A i, j \in DOMAIN list : list[i] = list[j] => i = j
      BY DEF IInv, RequestsRequest, list
    <3>4. \A i, j \in DOMAIN Tail(list) : Tail(list)[i] = Tail(list)[j] => i = j
      <4>1. \A i \in 1 .. Len(list) - 1 : i + 1 \in 1 .. Len(list)
        BY <3>2
      <4>2. QED
        BY <3>2, <3>3, <4>1
    <3>5. s \notin ToSet(Tail(list))
      <4>1. \A i \in 1 .. Len(list) - 1 : i + 1 \in 1 .. Len(list) /\ i + 1 # 1
        BY <3>2
      <4>2. \A i \in 1 .. Len(list) - 1 : Tail(list)[i] # list[1]
        BY <3>2, <3>3, <4>1
      <4>3. QED
        BY <3>2, <4>2 DEF ToSet
    <3>6. ToSet(Tail(list)) \subseteq ToSet(list) /\ ToSet(list) \subseteq Endpoint
      BY <1>2, <3>1, ToSetTail, ToSetType DEF Endpoint
    <3>7. \A a \in ToSet(list) : requesting[c][a] # NoPeer
      BY DEF IInv, RequestsRequest, list
    <3>8. \A a \in ToSet(Tail(list)) : requesting'[c][a] # NoPeer
      BY <1>15, <3>5, <3>6, <3>7
    <3>9. QED
      BY <2>2, <3>1, <3>4, <3>8
  <2>3. QED
    BY <2>1, <2>2
<1>18. PacketsSpeakTrue'
  <2> SUFFICES ASSUME NEW r \in network'
               PROVE  /\ r.kind = "ConnectionRequest" => RequestTrue(r)'
                      /\ r.kind # "ConnectionRequest" /\ r.src \in Servers =>
                           FromServerTrue(r)'
                      /\ r.kind # "ConnectionRequest" /\ r.src \in Clients =>
                           FromClientTrue(r)'
    BY DEF PacketsSpeakTrue
  <2>1. CASE r = p \/ (r.kind = "ConnectionRequest" /\ r.src = c /\ r.dst = s)
    <3>1. r.kind = "ConnectionRequest" /\ r.src = c /\ r.dst = s
      BY <1>7, <2>1
    <3>2. CASE last
      <4>1. phase'[c] \in Stopped
        BY <1>1, <1>9, <3>2 DEF Stopped
      <4>2. requesting'[c][s] # NoPeer
        BY <1>4, <1>9, <3>2 DEF peer
      <4>3. QED
        BY <1>3, <3>1, <4>1, <4>2 DEF RequestTrue, KnownPeer
    <3>3. CASE ~last
      <4>1. requesting'[c][s] = NoPeer /\ awaiting'[c][s] # NoPeer
        BY <1>8, <1>16, <3>3
      <4>2. QED
        BY <1>3, <3>1, <4>1 DEF RequestTrue, KnownPeer
    <3>4. QED
      BY <3>2, <3>3
  <2>2. CASE r \in network /\ r.kind = "ConnectionRequest" /\ ~(r.src = c /\ r.dst = s)
    <3>1. RequestTrue(r)
      BY <2>2 DEF IInv, PacketsSpeakTrue
    <3>2. /\ requesting'[r.src][r.dst] = requesting[r.src][r.dst]
          /\ awaiting'[r.src][r.dst] = awaiting[r.src][r.dst]
      BY <1>15, <2>2, <3>1 DEF RequestTrue, Endpoint
    <3>3. KnownPeer(r.src, r.dst)'
      BY <1>9, <3>1, <3>2 DEF RequestTrue, KnownPeer, ConnectedIds
    <3>4. phase[r.src] \in Stopped => phase'[r.src] \in Stopped
      BY <1>1, <1>2, <1>9 DEF Stopped
    <3>5. QED
      BY <2>2, <3>1, <3>2, <3>3, <3>4 DEF RequestTrue
  <2>3. CASE r \in network /\ r.kind # "ConnectionRequest"
    <3>1. r.id \in ConnectionId
      BY <2>3, PacketFields DEF IInv, TypeOK, ProtocolTypeOK
    <3>2. QED
      BY <1>9, <1>13, <2>3, <3>1
      DEF IInv, PacketsSpeakTrue, FromServerTrue, FromClientTrue, Owns,
          AcceptPending, serverVars
  <2>4. QED
    BY <1>7, <1>9, <2>1, <2>2, <2>3
<1>19. OneStatePerServer'
  <2> SUFFICES ASSUME NEW x \in Clients, NEW y \in Servers
               PROVE  LET ids == {id \in ConnectedIds(x) : connected[x][id].address = y}
                      IN  /\ \A i, j \in ids : i = j
                          /\ requesting'[x][y] # NoPeer => awaiting'[x][y] = NoPeer /\ ids = {}
                          /\ awaiting'[x][y] # NoPeer => ids = {}
    BY <1>9 DEF OneStatePerServer, ConnectedIds
  <2>1. CASE ~(x = c /\ y = s) \/ last
    <3>1. requesting'[x][y] = requesting[x][y] /\ awaiting'[x][y] = awaiting[x][y]
      BY <1>9, <1>15, <2>1 DEF Endpoint
    <3>2. QED
      BY <3>1 DEF IInv, OneStatePerServer
  <2>2. CASE x = c /\ y = s /\ ~last
    BY <1>4, <1>16, <2>2 DEF IInv, OneStatePerServer, peer
  <2>3. QED
    BY <2>1, <2>2
<1>20. CreateNeverFails'
  BY <1>1, <1>9 DEF IInv, CreateNeverFails
<1>21. QED
  BY <1>11, <1>12, <1>13, <1>14, <1>17, <1>18, <1>19, <1>20 DEF IInv

-----------------------------------------------------------------------------
(***************************************************************************)
(* A client receives.  Either the shape of its maps stays, or a packet of  *)
(* a server it awaits connects it to that server under the packet's id.    *)
(***************************************************************************)

\* p acks a peer: the peer is the same, whatever was acked.
LEMMA AckedSame ==
  ASSUME NEW peer \in Peer, NEW p \in Packet
  PROVE  Acked(peer, p) # NoPeer /\ Acked(peer, p).address = peer.address
<1>1. Acked(peer, p) # NoPeer
  BY AckedType, NoPeerAssumption
<1>2. QED
  BY <1>1 DEF Acked, Peer

\* Acking a connected peer leaves every id with its peer.
LEMMA AckConnectedSame ==
  ASSUME IInv, NEW c \in Clients, NEW p \in Packet,
         p.kind # "ConnectionRequest", connected[c][p.id] # NoPeer,
         AckConnected(c, p)
  PROVE  \A e \in Endpoint, id \in ConnectionId :
            SamePeer(connected'[e][id], connected[e][id])
<1>1. /\ connected \in [Endpoint -> [ConnectionId -> Peer \cup {NoPeer}]]
      /\ c \in Endpoint /\ p.id \in ConnectionId
  BY PacketFields DEF IInv, TypeOK, ProtocolTypeOK, Endpoint
<1>2. connected' = [connected EXCEPT ![c][p.id] = Acked(connected[c][p.id], p)]
  BY <1>1 DEF AckConnected
<1>3. connected[c][p.id] \in Peer
  BY <1>1
<1>4. QED
  BY <1>1, <1>2, <1>3, AckedSame DEF SamePeer

\* Client::on_received leaves every id with its peer, or connects one that was
\* awaiting.
LEMMA ClientReceiveShape ==
  ASSUME IInv, NEW c \in Clients, NEW p \in network, ClientReceive(c, p)
  PROVE  \/ /\ awaiting' = awaiting
            /\ \A e \in Endpoint, id \in ConnectionId :
                 SamePeer(connected'[e][id], connected[e][id])
         \/ /\ p.kind # "ConnectionRequest"
            /\ connected[c][p.id] = NoPeer
            /\ awaiting[c][p.src] # NoPeer
            /\ Establish(c, p)
<1> DEFINE Same == /\ awaiting' = awaiting
                   /\ \A e \in Endpoint, id \in ConnectionId :
                        SamePeer(connected'[e][id], connected[e][id])
           New == /\ p.kind # "ConnectionRequest"
                  /\ connected[c][p.id] = NoPeer
                  /\ awaiting[c][p.src] # NoPeer
                  /\ Establish(c, p)
<1>1. p \in Packet
  BY DEF IInv, TypeOK, ProtocolTypeOK
<1>2. ASSUME UNCHANGED <<connected, awaiting>> PROVE Same
  BY <1>2 DEF SamePeer
<1>3. ASSUME p.kind # "ConnectionRequest", connected[c][p.id] # NoPeer,
             AckConnected(c, p)
      PROVE  Same
  BY <1>1, <1>3, AckConnectedSame DEF AckConnected
<1>4. CASE p.kind = "ConnectionRequest"
  BY <1>2, <1>4 DEF ClientReceive, ClientOnReceived, Refuse
<1>5. CASE p.kind = "ConnectionAccepted"
  <2>1. OnConnectionAccepted(c, p)
    BY <1>5 DEF ClientReceive, ClientOnReceived
  <2>2. QED
    BY <1>2, <1>5, <2>1 DEF OnConnectionAccepted, Refuse
<1>6. CASE p.kind = "DataTransfer"
  <2>1. OnDataTransfer(c, p)
    BY <1>6 DEF ClientReceive, ClientOnReceived
  <2>2. QED
    BY <1>2, <1>3, <1>6, <2>1 DEF OnDataTransfer
<1>7. CASE p.kind = "Fragment"
  <2>1. OnFragment(c, p)
    BY <1>7 DEF ClientReceive, ClientOnReceived
  <2>2. QED
    BY <1>2, <1>3, <1>7, <2>1 DEF OnFragment, Refuse
<1>8. CASE p.kind = "Heartbeat"
  <2>1. OnHeartbeat(c, p)
    BY <1>8 DEF ClientReceive, ClientOnReceived
  <2>2. QED
    BY <1>2, <1>3, <1>8, <2>1 DEF OnHeartbeat
<1>9. p.kind \in Kind
  BY <1>1, PacketFields
<1>10. QED
  BY <1>4, <1>5, <1>6, <1>7, <1>8, <1>9 DEF Kind

\* Client::on_received keeps the inductive invariant, whatever packet arrives.
LEMMA ClientReceiveStep ==
  ASSUME IInv, TypeOK', NEW c \in Clients, NEW p \in network,
         ClientReceive(c, p), UNCHANGED serverVars
  PROVE  IInv'
<1>1. /\ connected \in [Endpoint -> [ConnectionId -> Peer \cup {NoPeer}]]
      /\ awaiting \in [Clients -> [Endpoint -> Peer \cup {NoPeer}]]
      /\ phase \in [Endpoint -> Phase]
      /\ p \in Packet /\ c \in Endpoint /\ c \notin Servers
  BY EndpointAssumption DEF IInv, TypeOK, ProtocolTypeOK, ClientTypeOK, Endpoint
<1>2. /\ UNCHANGED <<network, scheduled, sent>>
      /\ UNCHANGED <<requesting, scheduledRequest, sentRequest>>
      /\ phase' = [phase EXCEPT ![c] = "poll"] /\ phase[c] = "send" /\ p.dst = c
  BY DEF ClientReceive, ClientOnReceived, Receives, Returns
<1>3. CalmPhase
  BY <1>1, <1>2 DEF CalmPhase, IInv, CreateNeverFails, Stopped
<1>4. CASE /\ awaiting' = awaiting
           /\ \A e \in Endpoint, id \in ConnectionId :
                SamePeer(connected'[e][id], connected[e][id])
  <2>1. CalmMaps
    BY <1>2, <1>4 DEF CalmMaps, SamePeer, serverVars
  <2>2. CalmNetwork
    BY <1>2 DEF CalmNetwork
  <2>3. SentWasSent'
    BY <1>2 DEF IInv, SentWasSent, serverVars
  <2>4. ScheduledToConnected'
    BY <1>2, <2>1, CalmGrows, ScheduledKept
  <2>5. QED
    BY <1>3, <2>1, <2>2, <2>3, <2>4, CalmStep DEF Calm
<1>5. CASE /\ p.kind # "ConnectionRequest"
           /\ connected[c][p.id] = NoPeer
           /\ awaiting[c][p.src] # NoPeer
           /\ Establish(c, p)
  <2> DEFINE s == p.src
             id == p.id
             peer == Acked(awaiting[c][s], p)
  <2>1. id \in ConnectionId /\ s \in Endpoint
    BY <1>1, <1>5, PacketFields
  <2>2. s \in Servers /\ awaiting[c][s].address = s /\ awaiting[c][s] \in Peer
    BY <1>1, <1>5, <2>1 DEF IInv, AddressesFit
  <2>3. peer # NoPeer /\ peer.address = s
    BY <1>1, <2>2, AckedSame
  <2>4. /\ connected' = [connected EXCEPT ![c][id] = peer]
        /\ awaiting' = [awaiting EXCEPT ![c][s] = NoPeer]
    BY <1>5 DEF Establish, NoLongerAwaiting
  <2>5. Owns(s, id, c) /\ ~AcceptPending(s, id)
    BY <1>2, <1>5, <2>2 DEF IInv, PacketsSpeakTrue, FromServerTrue
  <2> HIDE DEF peer
  <2>6. /\ connected'[c][id] = peer
        /\ \A e \in Endpoint, i \in ConnectionId :
             ~(e = c /\ i = id) => connected'[e][i] = connected[e][i]
    BY <1>1, <2>1, <2>4
  <2>7. /\ awaiting'[c][s] = NoPeer
        /\ \A x \in Clients, a \in Endpoint :
             ~(x = c /\ a = s) => awaiting'[x][a] = awaiting[x][a]
    BY <1>1, <2>1, <2>4
  <2>8. ConnectedGrows
    BY <1>5, <2>6 DEF ConnectedGrows
  <2>9. \A x \in Servers, i \in ConnectionId :
          /\ Owner(x, i)' = Owner(x, i)
          /\ connected'[x][i] = connected[x][i]
    BY <1>1, <2>6 DEF Owner, serverVars, Endpoint
  <2>10. AddressesFit'
    BY <1>2, <2>1, <2>7, <2>9 DEF IInv, AddressesFit
  <2>11. TrackerAhead' /\ AcceptsAwait'
    BY <2>9 DEF IInv, TrackerAhead, AcceptsAwait, serverVars
  <2>12. RequestsRequest'
    BY <1>2 DEF IInv, RequestsRequest
  <2>13. ScheduledToConnected'
    BY <1>2, <2>8, ScheduledKept
  <2>14. SentWasSent'
    BY <1>2 DEF IInv, SentWasSent, serverVars
  <2>15. UniqueIds'
    BY <2>9 DEF IInv, UniqueIds, Owns, serverVars
  <2>16. PacketsSpeakTrue'
    <3> SUFFICES ASSUME NEW r \in network
                 PROVE  /\ r.kind = "ConnectionRequest" => RequestTrue(r)'
                        /\ r.kind # "ConnectionRequest" /\ r.src \in Servers =>
                             FromServerTrue(r)'
                        /\ r.kind # "ConnectionRequest" /\ r.src \in Clients =>
                             FromClientTrue(r)'
      BY <1>2 DEF PacketsSpeakTrue
    <3>1. CASE r.kind = "ConnectionRequest"
      <4>1. RequestTrue(r)
        BY <3>1 DEF IInv, PacketsSpeakTrue
      <4>2. KnownPeer(r.src, r.dst)'
        <5>1. CASE r.src = c /\ r.dst = s
          BY <2>1, <2>3, <2>6, <5>1 DEF KnownPeer, ConnectedIds
        <5>2. CASE ~(r.src = c /\ r.dst = s)
          <6>1. awaiting'[r.src][r.dst] = awaiting[r.src][r.dst]
            BY <2>7, <4>1, <5>2 DEF RequestTrue, Endpoint
          <6>2. QED
            BY <1>2, <2>8, <4>1, <6>1
            DEF RequestTrue, KnownPeer, ConnectedIds, ConnectedGrows, Endpoint
        <5>3. QED
          BY <5>1, <5>2
      <4>3. phase[r.src] \in Stopped => phase'[r.src] \in Stopped
        BY <1>3, <4>1 DEF CalmPhase, RequestTrue, Endpoint
      <4>4. QED
        BY <1>2, <3>1, <4>1, <4>2, <4>3 DEF RequestTrue
    <3>2. CASE r.kind # "ConnectionRequest"
      <4>1. r.id \in ConnectionId
        BY <3>2, PacketFields DEF IInv, TypeOK, ProtocolTypeOK
      <4>2. r.src \in Servers => FromServerTrue(r)'
        BY <2>9, <3>2, <4>1
        DEF IInv, PacketsSpeakTrue, FromServerTrue, Owns, AcceptPending, serverVars
      <4>3. r.src \in Clients => FromClientTrue(r)'
        BY <2>8, <3>2, <4>1
        DEF IInv, PacketsSpeakTrue, FromClientTrue, ConnectedGrows, Endpoint
      <4>4. QED
        BY <3>2, <4>2, <4>3
    <3>3. QED
      BY <3>1, <3>2
  <2>17. IdsAgree'
    <3> SUFFICES ASSUME NEW x \in Clients, NEW i \in ConnectionId,
                        connected'[x][i] # NoPeer
                 PROVE  /\ connected'[x][i].address \in Servers
                        /\ Owns(connected[x][i].address, i, x)'
                        /\ ~AcceptPending(connected[x][i].address, i)'
      BY DEF IdsAgree, ConnectedIds
    <3>1. CASE x = c /\ i = id
      BY <2>2, <2>3, <2>5, <2>6, <2>9, <3>1 DEF Owns, AcceptPending, serverVars
    <3>2. CASE ~(x = c /\ i = id)
      BY <2>6, <2>9, <3>2
      DEF IInv, IdsAgree, ConnectedIds, Owns, AcceptPending, serverVars, Endpoint
    <3>3. QED
      BY <3>1, <3>2
  <2>18. OneStatePerServer'
    <3> SUFFICES ASSUME NEW x \in Clients, NEW y \in Servers
                 PROVE  /\ \A i, j \in ConnectionId :
                             /\ connected'[x][i] # NoPeer
                             /\ connected'[x][i].address = y
                             /\ connected'[x][j] # NoPeer
                             /\ connected'[x][j].address = y
                             => i = j
                        /\ requesting[x][y] # NoPeer => awaiting'[x][y] = NoPeer
                        /\ \A i \in ConnectionId :
                             /\ connected'[x][i] # NoPeer
                             /\ connected'[x][i].address = y
                             => requesting[x][y] = NoPeer /\ awaiting'[x][y] = NoPeer
      BY <1>2 DEF OneStatePerServer, ConnectedIds
    <3>1. /\ \A i, j \in ConnectionId :
               /\ connected[x][i] # NoPeer
               /\ connected[x][i].address = y
               /\ connected[x][j] # NoPeer
               /\ connected[x][j].address = y
               => i = j
          /\ requesting[x][y] # NoPeer => awaiting[x][y] = NoPeer
          /\ \A i \in ConnectionId :
               connected[x][i] # NoPeer /\ connected[x][i].address = y
               => requesting[x][y] = NoPeer /\ awaiting[x][y] = NoPeer
      <4> DEFINE ids == {i \in ConnectedIds(x) : connected[x][i].address = y}
      <4>1. /\ \A i, j \in ids : i = j
            /\ requesting[x][y] # NoPeer => awaiting[x][y] = NoPeer /\ ids = {}
            /\ awaiting[x][y] # NoPeer => ids = {}
        BY DEF IInv, OneStatePerServer
      <4>2. \A i \in ConnectionId :
              connected[x][i] # NoPeer /\ connected[x][i].address = y => i \in ids
        BY DEF ConnectedIds
      <4> HIDE DEF ids
      <4>3. /\ \A i, j \in ids : i = j
            /\ requesting[x][y] # NoPeer => awaiting[x][y] = NoPeer
            /\ \A i \in ids : requesting[x][y] = NoPeer /\ awaiting[x][y] = NoPeer
        BY <4>1
      <4>4. QED
        BY <4>2, <4>3
    <3>2. CASE x = c /\ y = s
      <4>1. /\ requesting[c][s] = NoPeer
            /\ \A i \in ConnectionId :
                 connected[c][i] # NoPeer => connected[c][i].address # s
        BY <1>5, <3>1, <3>2
      <4>2. \A i \in ConnectionId :
              connected'[c][i] # NoPeer /\ connected'[c][i].address = s => i = id
        BY <1>1, <2>6, <4>1
      <4>3. QED
        BY <2>7, <3>2, <4>1, <4>2, Zenon
    <3>3. CASE ~(x = c /\ y = s)
      <4>1. awaiting'[x][y] = awaiting[x][y]
        BY <2>2, <2>7, <3>3 DEF Endpoint
      <4>2. \A i \in ConnectionId :
              connected'[x][i] # NoPeer /\ connected'[x][i].address = y =>
                connected[x][i] # NoPeer /\ connected[x][i].address = y
        BY <2>3, <2>6, <3>3 DEF Endpoint
      <4>3. QED
        BY <3>1, <4>1, <4>2, Zenon
    <3>4. QED
      BY <3>2, <3>3
  <2>19. EstablishedOnBothSides'
    <3>1. \A x \in Servers, i \in ConnectionId : connected[x][i] # NoPeer =>
             connected[x][i].address \in Endpoint
      BY <1>1 DEF Peer, Endpoint
    <3>2. QED
      BY <2>8, <2>9, <3>1
      DEF IInv, EstablishedOnBothSides, ConnectedIds, ConnectedGrows
  <2>20. CreateNeverFails'
    BY <1>3 DEF CalmPhase, CreateNeverFails
  <2>21. QED
    BY <2>10, <2>11, <2>12, <2>13, <2>14, <2>15, <2>16, <2>17, <2>18, <2>19,
       <2>20 DEF IInv
<1>6. QED
  BY <1>4, <1>5, ClientReceiveShape

-----------------------------------------------------------------------------
(***************************************************************************)
(* A server receives.  A request of an unknown client is granted the next  *)
(* id; the first packet that carries a granted id connects its peer; every *)
(* other packet leaves the shape of the maps alone.                        *)
(***************************************************************************)

Granted(s, p) ==
  LET id == connectionIdTracker[s]
  IN  /\ p.kind = "ConnectionRequest"
      /\ ~ConnectionRequestAnotherState(s, p.src)
      /\ connectionIdTracker' = [connectionIdTracker EXCEPT ![s] = id + 1]
      /\ scheduledAccepted' = [scheduledAccepted EXCEPT ![s] =
                                 Append(@, [id |-> id, address |-> p.src])]
      /\ awaitingAck' = [awaitingAck EXCEPT ![s][id] = NewPeer(p.src, p.sequence)]
      /\ connected' = connected

Joined(s, p) ==
  /\ p.kind # "ConnectionRequest"
  /\ connected[s][p.id] = NoPeer
  /\ awaitingAck[s][p.id] # NoPeer
  /\ connected' = [connected EXCEPT ![s][p.id] = Acked(awaitingAck[s][p.id], p)]
  /\ awaitingAck' = [awaitingAck EXCEPT ![s][p.id] = NoPeer]
  /\ UNCHANGED <<connectionIdTracker, scheduledAccepted>>

SameShape ==
  /\ \A e \in Endpoint, id \in ConnectionId :
       SamePeer(connected'[e][id], connected[e][id])
  /\ UNCHANGED <<awaitingAck, connectionIdTracker, scheduledAccepted>>

\* A packet of a known id leaves every id with its peer, or moves one from
\* awaiting to connected.
LEMMA AckPeerShape ==
  ASSUME IInv, NEW s \in Servers, NEW p \in Packet, p.kind # "ConnectionRequest",
         KnownId(s, p.id), AckPeer(s, p)
  PROVE  SameShape \/ Joined(s, p)
<1>1. /\ connected \in [Endpoint -> [ConnectionId -> Peer \cup {NoPeer}]]
      /\ s \in Endpoint /\ p.id \in ConnectionId
  BY PacketFields DEF IInv, TypeOK, ProtocolTypeOK, Endpoint
<1>2. UNCHANGED <<connectionIdTracker, scheduledAccepted>>
  BY DEF AckPeer
<1>3. CASE connected[s][p.id] # NoPeer
  <2>1. connected' = [connected EXCEPT ![s][p.id] = Acked(connected[s][p.id], p)]
    BY <1>1, <1>3 DEF AckPeer
  <2>2. connected[s][p.id] \in Peer
    BY <1>1, <1>3
  <2>3. \A e \in Endpoint, id \in ConnectionId :
          SamePeer(connected'[e][id], connected[e][id])
    BY <1>1, <1>3, <2>1, <2>2, AckedSame DEF SamePeer
  <2>4. QED
    BY <1>2, <1>3, <2>3 DEF SameShape, AckPeer
<1>4. CASE connected[s][p.id] = NoPeer
  <2>1. connected' = [connected EXCEPT ![s][p.id] = Acked(awaitingAck[s][p.id], p)]
    BY <1>1, <1>4 DEF AckPeer
  <2>2. QED
    BY <1>2, <1>4, <2>1 DEF Joined, AckPeer, KnownId
<1>5. QED
  BY <1>3, <1>4

\* Server::on_received leaves every id with its peer, grants one, or connects
\* one.
LEMMA ServerReceiveShape ==
  ASSUME IInv, NEW s \in Servers, NEW p \in network, ServerReceive(s, p)
  PROVE  /\ SameShape \/ Granted(s, p) \/ Joined(s, p)
         /\ CalmPhase
         /\ UNCHANGED <<network, scheduled, sent, sentAccepted>>
<1>1. /\ p \in Packet /\ s \in Endpoint /\ phase[s] = "send"
      /\ phase \in [Endpoint -> Phase]
  BY DEF IInv, TypeOK, ProtocolTypeOK, Endpoint, ServerReceive, ServerOnReceived, Receives
<1>2. UNCHANGED <<network, scheduled, sent, sentAccepted>>
  BY DEF ServerReceive, ServerOnReceived, Receives
<1>3. ASSUME Returns(s) \/ phase' = [phase EXCEPT ![s] = "exhausted"]
      PROVE  CalmPhase
  BY <1>1, <1>3 DEF Returns, CalmPhase, IInv, CreateNeverFails, Stopped
<1>4. ASSUME UNCHANGED <<connected, awaitingAck, connectionIdTracker, scheduledAccepted>>
      PROVE  SameShape
  BY <1>4 DEF SameShape, SamePeer
<1>5. ASSUME NEW error, Refused(s, p, error)
      PROVE  SameShape /\ CalmPhase
  BY <1>3, <1>4, <1>5 DEF Refused
<1>6. ASSUME KnownId(s, p.id), AckPeer(s, p), p.kind # "ConnectionRequest"
      PROVE  (SameShape \/ Joined(s, p)) /\ CalmPhase
  BY <1>1, <1>3, <1>6, AckPeerShape DEF AckPeer
<1>7. CASE p.kind = "ConnectionRequest"
  <2>1. OnConnectionRequest(s, p)
    BY <1>7 DEF ServerReceive, ServerOnReceived
  <2>2. CASE ConnectionRequestAnotherState(s, p.src)
    BY <1>2, <1>5, <2>1, <2>2 DEF OnConnectionRequest
  <2>3. CASE /\ ~ConnectionRequestAnotherState(s, p.src)
             /\ connectionIdTracker[s] = ConnectionIdLimit
    BY <1>2, <1>3, <1>4, <2>1, <2>3 DEF OnConnectionRequest
  <2>4. CASE /\ ~ConnectionRequestAnotherState(s, p.src)
             /\ connectionIdTracker[s] # ConnectionIdLimit
    BY <1>2, <1>3, <1>7, <2>1, <2>4 DEF OnConnectionRequest, Granted
  <2>5. QED
    BY <2>2, <2>3, <2>4
<1>8. CASE p.kind = "ConnectionAccepted"
  BY <1>2, <1>5, <1>8 DEF ServerReceive, ServerOnReceived
<1>9. CASE p.kind = "DataTransfer"
  <2>1. ServerOnDataTransfer(s, p)
    BY <1>9 DEF ServerReceive, ServerOnReceived
  <2>2. QED
    BY <1>2, <1>5, <1>6, <1>9, <2>1 DEF ServerOnDataTransfer
<1>10. CASE p.kind = "Fragment"
  <2>1. ServerOnFragment(s, p)
    BY <1>10 DEF ServerReceive, ServerOnReceived
  <2>2. QED
    BY <1>2, <1>5, <1>6, <1>10, <2>1 DEF ServerOnFragment
<1>11. CASE p.kind = "Heartbeat"
  <2>1. ServerOnHeartbeat(s, p)
    BY <1>11 DEF ServerReceive, ServerOnReceived
  <2>2. CASE KnownId(s, p.id)
    BY <1>2, <1>6, <1>11, <2>1, <2>2 DEF ServerOnHeartbeat
  <2>3. CASE ~KnownId(s, p.id)
    BY <1>2, <1>3, <1>4, <2>1, <2>3 DEF ServerOnHeartbeat
  <2>4. QED
    BY <2>2, <2>3
<1>12. p.kind \in Kind
  BY <1>1, PacketFields
<1>13. QED
  BY <1>7, <1>8, <1>9, <1>10, <1>11, <1>12 DEF Kind

\* What a server's receipt leaves alone.
LEMMA ReceivedKept ==
  ASSUME IInv, ConnectedGrows, CalmPhase,
         UNCHANGED <<network, scheduled, sent, sentAccepted>>, UNCHANGED clientVars
  PROVE  /\ ScheduledToConnected' /\ SentWasSent' /\ RequestsRequest'
         /\ CreateNeverFails'
         /\ \A p \in network : p.kind = "ConnectionRequest" => RequestTrue(p)'
<1>1. ScheduledToConnected'
  BY ScheduledKept
<1>2. SentWasSent' /\ RequestsRequest'
  BY DEF IInv, SentWasSent, RequestsRequest, clientVars
<1>3. CreateNeverFails'
  BY DEF CalmPhase, CreateNeverFails
<1>4. ASSUME NEW p \in network, p.kind = "ConnectionRequest"
      PROVE  RequestTrue(p)'
  <2>1. RequestTrue(p)
    BY <1>4 DEF IInv, PacketsSpeakTrue
  <2>2. KnownPeer(p.src, p.dst)'
    BY <2>1 DEF RequestTrue, KnownPeer, ConnectedIds, ConnectedGrows, clientVars, Endpoint
  <2>3. QED
    BY <2>1, <2>2 DEF RequestTrue, CalmPhase, clientVars, Endpoint
<1>5. QED
  BY <1>1, <1>2, <1>3, <1>4

\* A granted id is new, and so is the client it is granted to.
LEMMA GrantedStep ==
  ASSUME IInv, TypeOK', NEW s \in Servers, NEW p \in network, Granted(s, p),
         scheduledAccepted[s] = <<>>, CalmPhase,
         UNCHANGED <<network, scheduled, sent, sentAccepted>>, UNCHANGED clientVars
  PROVE  IInv'
<1> DEFINE id == connectionIdTracker[s]
           peer == NewPeer(p.src, p.sequence)
           item == [id |-> id, address |-> p.src]
<1>1. /\ awaitingAck \in [Servers -> [ConnectionId -> Peer \cup {NoPeer}]]
      /\ connectionIdTracker \in [Servers -> ConnectionId]
      /\ scheduledAccepted \in [Servers -> Seq(ScheduledAccepted)]
      /\ connected \in [Endpoint -> [ConnectionId -> Peer \cup {NoPeer}]]
      /\ p \in Packet /\ id \in ConnectionId
  BY DEF IInv, TypeOK, ServerTypeOK, ProtocolTypeOK
<1>2. p.src \in Clients
  BY DEF Granted, IInv, PacketsSpeakTrue, RequestTrue
<1>3. peer # NoPeer /\ peer.address = p.src
  <2>1. p.src \in Endpoint /\ p.sequence \in Ack
    BY <1>1, PacketFields, WidthAssumption DEF Sequence, Ack
  <2>2. peer \in Peer
    BY <2>1, NewPeerType
  <2>3. QED
    BY <2>2, NoPeerAssumption DEF NewPeer
<1>4. /\ connectionIdTracker' = [connectionIdTracker EXCEPT ![s] = id + 1]
      /\ awaitingAck' = [awaitingAck EXCEPT ![s][id] = peer]
      /\ connected' = connected
  BY DEF Granted
<1>5. scheduledAccepted' = [scheduledAccepted EXCEPT ![s] = <<item>>]
  <2>1. Append(scheduledAccepted[s], item) = <<item>>
    OBVIOUS
  <2>2. QED
    BY <2>1 DEF Granted
<1>6. Owner(s, id) = NoPeer
  <2>1. id \in Int /\ ~(id < id)
    BY <1>1 DEF ConnectionId
  <2>2. QED
    BY <1>1, <2>1 DEF IInv, TrackerAhead
<1>7. connected[s][id] = NoPeer /\ awaitingAck[s][id] = NoPeer
  BY <1>6 DEF Owner
<1>8. \A i \in ConnectionId : Owner(s, i) # NoPeer => Owner(s, i).address # p.src
  BY DEF Granted, ConnectionRequestAnotherState, Owner
<1>9. item.id = id /\ item.address = p.src
  OBVIOUS
<1> HIDE DEF peer, item
<1>10. /\ awaitingAck'[s][id] = peer
       /\ \A x \in Servers, i \in ConnectionId :
            ~(x = s /\ i = id) => awaitingAck'[x][i] = awaitingAck[x][i]
  BY <1>1, <1>4
<1>11. /\ \A i \in ConnectionId : i = id => Owner(s, i)' = peer
       /\ \A x \in Servers, i \in ConnectionId :
            ~(x = s /\ i = id) => Owner(x, i)' = Owner(x, i)
  BY <1>4, <1>7, <1>10 DEF Owner
<1>12. /\ connectionIdTracker'[s] = id + 1
       /\ \A x \in Servers : x # s => connectionIdTracker'[x] = connectionIdTracker[x]
  BY <1>1, <1>4
<1>13. /\ scheduledAccepted'[s] = <<item>>
       /\ \A x \in Servers : x # s => scheduledAccepted'[x] = scheduledAccepted[x]
       /\ ToSet(<<item>>) = {item} /\ Len(<<item>>) = 1
  BY <1>1, <1>5 DEF ToSet
<1>14. ConnectedGrows
  BY <1>4 DEF ConnectedGrows
<1>15. /\ ScheduledToConnected' /\ SentWasSent' /\ RequestsRequest'
       /\ CreateNeverFails'
       /\ \A r \in network : r.kind = "ConnectionRequest" => RequestTrue(r)'
  BY <1>14, ReceivedKept
<1>16. AddressesFit'
  BY <1>2, <1>3, <1>11 DEF IInv, AddressesFit, clientVars
<1>17. TrackerAhead'
  <2> SUFFICES ASSUME NEW x \in Servers, NEW i \in ConnectionId, Owner(x, i)' # NoPeer
               PROVE  i < connectionIdTracker'[x]
    BY DEF TrackerAhead
  <2>1. i \in Int /\ id \in Int
    BY <1>1 DEF ConnectionId
  <2>2. CASE x = s /\ i = id
    BY <1>12, <2>1, <2>2
  <2>3. CASE ~(x = s /\ i = id)
    <3>1. i < connectionIdTracker[x]
      BY <1>11, <2>3 DEF IInv, TrackerAhead
    <3>2. QED
      BY <1>12, <2>1, <3>1
  <2>4. QED
    BY <2>2, <2>3
<1>18. AcceptsAwait'
  <2> SUFFICES ASSUME NEW x \in Servers
               PROVE  /\ Len(scheduledAccepted'[x]) <= 1
                      /\ \A k \in ToSet(scheduledAccepted'[x]) :
                           /\ awaitingAck'[x][k.id] # NoPeer
                           /\ awaitingAck'[x][k.id].address = k.address
    BY DEF AcceptsAwait
  <2>1. CASE x = s
    <3>1. Len(scheduledAccepted'[x]) <= 1
      <4>1. scheduledAccepted'[x] = <<item>>
        BY <1>13, <2>1
      <4>2. Len(<<item>>) <= 1
        OBVIOUS
      <4>3. QED
        BY <4>1, <4>2, Zenon
    <3>2. ASSUME NEW k \in ToSet(scheduledAccepted'[x])
          PROVE  /\ awaitingAck'[x][k.id] # NoPeer
                 /\ awaitingAck'[x][k.id].address = k.address
      <4>1. k = item
        BY <1>13, <2>1, <3>2
      <4>2. k.id = id /\ k.address = p.src
        BY <4>1, <1>9
      <4>3. awaitingAck'[x][k.id] = peer
        BY <4>2, <2>1, <1>10
      <4>4. QED
        BY <4>2, <4>3, <1>3
    <3>3. QED
      BY <3>1, <3>2
  <2>2. CASE x # s
    <3>1. \A k \in ToSet(scheduledAccepted[x]) : k.id \in ConnectionId
      <4>1. scheduledAccepted[x] \in Seq(ScheduledAccepted)
        BY <1>1
      <4>2. ToSet(scheduledAccepted[x]) \subseteq ScheduledAccepted
        BY <4>1, ToSetType
      <4>3. QED
        BY <4>2 DEF ScheduledAccepted
    <3>2. QED
      BY <1>10, <1>13, <2>2, <3>1 DEF IInv, AcceptsAwait
  <2>3. QED
    BY <2>1, <2>2
<1>19. \A x \in Servers, i \in ConnectionId :
         ~(x = s /\ i = id) /\ AcceptPending(x, i)' => AcceptPending(x, i)
  BY <1>9, <1>13 DEF AcceptPending
<1>20. PacketsSpeakTrue'
  <2> SUFFICES ASSUME NEW r \in network, r.kind # "ConnectionRequest"
               PROVE  /\ r.src \in Servers => FromServerTrue(r)'
                      /\ r.src \in Clients => FromClientTrue(r)'
    BY <1>15 DEF PacketsSpeakTrue
  <2>1. r.id \in ConnectionId
    BY PacketFields DEF IInv, TypeOK, ProtocolTypeOK
  <2>2. r.src \in Servers => FromServerTrue(r)'
    BY <1>6, <1>11, <1>19, <2>1 DEF IInv, PacketsSpeakTrue, FromServerTrue, Owns
  <2>3. r.src \in Clients => FromClientTrue(r)'
    BY <1>4 DEF IInv, PacketsSpeakTrue, FromClientTrue
  <2>4. QED
    BY <2>2, <2>3
<1>21. UniqueIds'
  <2> SUFFICES ASSUME NEW x \in Servers, NEW i \in ConnectionId
               PROVE  /\ connected[x][i] # NoPeer => awaitingAck'[x][i] = NoPeer
                      /\ \A j \in ConnectionId, c \in Clients :
                           Owns(x, i, c)' /\ Owns(x, j, c)' => i = j
    BY <1>4 DEF UniqueIds
  <2>1. connected[x][i] # NoPeer => awaitingAck'[x][i] = NoPeer
    BY <1>7, <1>10 DEF IInv, UniqueIds
  <2>2. ASSUME NEW j \in ConnectionId, NEW c \in Clients, Owns(x, i, c)', Owns(x, j, c)'
        PROVE  i = j
    BY <1>3, <1>8, <1>11, <2>2 DEF IInv, UniqueIds, Owns
  <2>3. QED
    BY <2>1, <2>2
<1>22. IdsAgree'
  <2> SUFFICES ASSUME NEW c \in Clients, NEW i \in ConnectedIds(c)
               PROVE  /\ connected[c][i].address \in Servers
                      /\ Owns(connected[c][i].address, i, c)'
                      /\ ~AcceptPending(connected[c][i].address, i)'
    BY <1>4 DEF IdsAgree, ConnectedIds
  <2> DEFINE x == connected[c][i].address
  <2>1. x \in Servers /\ Owns(x, i, c) /\ ~AcceptPending(x, i) /\ i \in ConnectionId
    BY DEF IInv, IdsAgree, ConnectedIds
  <2>2. ~(x = s /\ i = id)
    BY <1>6, <2>1 DEF Owns
  <2>3. connected[c][i].address' = x
    BY <1>4
  <2>4. QED
    BY <1>4, <1>11, <1>19, <2>1, <2>2 DEF Owns
<1>23. OneStatePerServer'
  BY <1>4 DEF IInv, OneStatePerServer, ConnectedIds, clientVars
<1>24. EstablishedOnBothSides'
  BY <1>4 DEF IInv, EstablishedOnBothSides, ConnectedIds
<1>25. QED
  BY <1>15, <1>16, <1>17, <1>18, <1>20, <1>21, <1>22, <1>23, <1>24 DEF IInv

\* The peer that becomes connected is the client that carried its id here.
LEMMA JoinedStep ==
  ASSUME IInv, TypeOK', NEW s \in Servers, NEW p \in network, Joined(s, p),
         p.dst = s, CalmPhase,
         UNCHANGED <<network, scheduled, sent, sentAccepted>>, UNCHANGED clientVars
  PROVE  IInv'
<1> DEFINE id == p.id
           peer == Acked(awaitingAck[s][id], p)
<1>1. /\ awaitingAck \in [Servers -> [ConnectionId -> Peer \cup {NoPeer}]]
      /\ connected \in [Endpoint -> [ConnectionId -> Peer \cup {NoPeer}]]
      /\ p \in Packet /\ s \in Endpoint /\ s \notin Clients
  BY EndpointAssumption DEF IInv, TypeOK, ServerTypeOK, ProtocolTypeOK, Endpoint
<1>2. /\ p.kind # "ConnectionRequest"
      /\ connected[s][id] = NoPeer /\ awaitingAck[s][id] # NoPeer
      /\ connected' = [connected EXCEPT ![s][id] = peer]
      /\ awaitingAck' = [awaitingAck EXCEPT ![s][id] = NoPeer]
      /\ UNCHANGED <<connectionIdTracker, scheduledAccepted>>
  BY DEF Joined
<1>3. id \in ConnectionId /\ p.src \in Endpoint
  BY <1>1, <1>2, PacketFields
<1>4. p.src \in Clients
  <2>1. CASE p.src \in Servers
    <3>1. Owns(p.src, id, s)
      BY <1>2, <2>1 DEF IInv, PacketsSpeakTrue, FromServerTrue
    <3>2. s \in Clients
      BY <1>3, <2>1, <3>1 DEF IInv, AddressesFit, Owns
    <3>3. QED
      BY <1>1, <3>2
  <2>2. QED
    BY <1>3, <2>1 DEF Endpoint
<1>5. connected[p.src][id] # NoPeer /\ connected[p.src][id].address = s
  BY <1>2, <1>4 DEF IInv, PacketsSpeakTrue, FromClientTrue
<1>6. Owns(s, id, p.src) /\ ~AcceptPending(s, id)
  BY <1>3, <1>4, <1>5 DEF IInv, IdsAgree, ConnectedIds
<1>7. peer # NoPeer /\ peer.address = awaitingAck[s][id].address /\ peer.address = p.src
  BY <1>1, <1>2, <1>3, <1>6, AckedSame DEF Owns, Owner
<1> HIDE DEF peer
<1>8. /\ connected'[s][id] = peer
      /\ \A e \in Endpoint, i \in ConnectionId :
           ~(e = s /\ i = id) => connected'[e][i] = connected[e][i]
  BY <1>1, <1>2, <1>3
<1>9. /\ awaitingAck'[s][id] = NoPeer
      /\ \A x \in Servers, i \in ConnectionId :
           ~(x = s /\ i = id) => awaitingAck'[x][i] = awaitingAck[x][i]
  BY <1>1, <1>2, <1>3
<1>10. ConnectedGrows
  BY <1>2, <1>8 DEF ConnectedGrows
<1>11. \A x \in Servers, i \in ConnectionId : SamePeer(Owner(x, i)', Owner(x, i))
  <2> SUFFICES ASSUME NEW x \in Servers, NEW i \in ConnectionId
               PROVE  SamePeer(Owner(x, i)', Owner(x, i))
    OBVIOUS
  <2>1. CASE x = s /\ i = id
    <3>1. Owner(s, id) = awaitingAck[s][id] /\ Owner(s, id) # NoPeer
      BY <1>2 DEF Owner
    <3>2. connected'[s][id] = peer /\ peer # NoPeer
      BY <1>7, <1>8
    <3>3. Owner(s, id)' = peer
      BY <3>2 DEF Owner
    <3>4. peer.address = Owner(s, id).address
      BY <1>7, <3>1
    <3> HIDE DEF id
    <3>5. Owner(x, i) = Owner(s, id) /\ Owner(x, i)' = Owner(s, id)'
      BY <2>1 DEF Owner
    <3>6. QED
      BY <1>7, <3>1, <3>3, <3>4, <3>5 DEF SamePeer
  <2>2. CASE ~(x = s /\ i = id)
    BY <1>8, <1>9, <2>2 DEF SamePeer, Owner, Endpoint
  <2>3. QED
    BY <2>1, <2>2
<1>12. \A c \in Clients, i \in ConnectionId : connected'[c][i] = connected[c][i]
  BY <1>1, <1>8 DEF Endpoint
<1>13. /\ ScheduledToConnected' /\ SentWasSent' /\ RequestsRequest'
       /\ CreateNeverFails'
       /\ \A r \in network : r.kind = "ConnectionRequest" => RequestTrue(r)'
  BY <1>10, ReceivedKept
<1>14. AddressesFit'
  BY <1>11 DEF IInv, AddressesFit, SamePeer, clientVars
<1>15. TrackerAhead'
  BY <1>2, <1>11 DEF IInv, TrackerAhead, SamePeer
<1>16. AcceptsAwait'
  <2>1. \A x \in Servers : \A k \in ToSet(scheduledAccepted[x]) :
          k.id \in ConnectionId /\ ~(x = s /\ k.id = id)
    <3>1. \A x \in Servers : scheduledAccepted[x] \in Seq(ScheduledAccepted)
      BY DEF IInv, TypeOK, ServerTypeOK
    <3>2. QED
      BY <1>6, <3>1, ToSetType DEF ScheduledAccepted, AcceptPending
  <2>2. QED
    BY <1>2, <1>9, <2>1 DEF IInv, AcceptsAwait
<1>17. PacketsSpeakTrue'
  <2> SUFFICES ASSUME NEW r \in network, r.kind # "ConnectionRequest"
               PROVE  /\ r.src \in Servers => FromServerTrue(r)'
                      /\ r.src \in Clients => FromClientTrue(r)'
    BY <1>13 DEF PacketsSpeakTrue
  <2>1. r.id \in ConnectionId
    BY PacketFields DEF IInv, TypeOK, ProtocolTypeOK
  <2>2. r.src \in Servers => FromServerTrue(r)'
    BY <1>2, <1>11, <2>1
    DEF IInv, PacketsSpeakTrue, FromServerTrue, Owns, AcceptPending, SamePeer
  <2>3. r.src \in Clients => FromClientTrue(r)'
    BY <1>12, <2>1 DEF IInv, PacketsSpeakTrue, FromClientTrue
  <2>4. QED
    BY <2>2, <2>3
<1>18. UniqueIds'
  <2>1. \A x \in Servers, i \in ConnectionId :
          connected'[x][i] # NoPeer => awaitingAck'[x][i] = NoPeer
    BY <1>8, <1>9 DEF IInv, UniqueIds, Endpoint
  <2>2. QED
    BY <1>11, <2>1 DEF IInv, UniqueIds, Owns, SamePeer
<1>19. IdsAgree'
  <2> SUFFICES ASSUME NEW c \in Clients, NEW i \in ConnectionId, connected'[c][i] # NoPeer
               PROVE  /\ connected'[c][i].address \in Servers
                      /\ Owns(connected[c][i].address, i, c)'
                      /\ ~AcceptPending(connected[c][i].address, i)'
    BY DEF IdsAgree, ConnectedIds
  <2>1. connected'[c][i] = connected[c][i]
    BY <1>12
  <2>2. QED
    BY <1>2, <1>11, <2>1
    DEF IInv, IdsAgree, ConnectedIds, Owns, AcceptPending, SamePeer
<1>20. OneStatePerServer'
  BY <1>12 DEF IInv, OneStatePerServer, ConnectedIds, clientVars
<1>21. EstablishedOnBothSides'
  <2> SUFFICES ASSUME NEW x \in Servers, NEW i \in ConnectionId, connected'[x][i] # NoPeer
               PROVE  /\ connected'[connected'[x][i].address][i] # NoPeer
                      /\ connected'[connected'[x][i].address][i].address = x
    BY DEF EstablishedOnBothSides, ConnectedIds
  <2>1. CASE x = s /\ i = id
    BY <1>3, <1>4, <1>5, <1>7, <1>8, <1>12, <2>1
  <2>2. CASE ~(x = s /\ i = id)
    <3>1. connected'[x][i] = connected[x][i]
      BY <1>8, <2>2 DEF Endpoint
    <3>2. connected[x][i].address \in Endpoint
      BY <1>1, <3>1 DEF Peer, Endpoint
    <3>3. QED
      BY <1>10, <3>1, <3>2
      DEF IInv, EstablishedOnBothSides, ConnectedIds, ConnectedGrows
  <2>3. QED
    BY <2>1, <2>2
<1>22. QED
  BY <1>13, <1>14, <1>15, <1>16, <1>17, <1>18, <1>19, <1>20, <1>21 DEF IInv

\* Server::on_received keeps the inductive invariant, whatever packet arrives.
LEMMA ServerReceiveStep ==
  ASSUME IInv, TypeOK', NEW s \in Servers, NEW p \in network,
         ServerReceive(s, p), UNCHANGED clientVars
  PROVE  IInv'
<1>1. /\ CalmPhase
      /\ UNCHANGED <<network, scheduled, sent, sentAccepted>>
      /\ scheduledAccepted[s] = <<>> /\ p.dst = s
  BY ServerReceiveShape DEF ServerReceive, ServerOnReceived, Receives
<1>2. CASE SameShape
  <2>1. CalmMaps
    BY <1>2 DEF SameShape, CalmMaps, SamePeer, clientVars
  <2>2. CalmNetwork
    BY <1>1 DEF CalmNetwork
  <2>3. SentWasSent' /\ ScheduledToConnected'
    BY <1>1, <2>1, CalmGrows, ReceivedKept
  <2>4. QED
    BY <1>1, <2>1, <2>2, <2>3, CalmStep DEF Calm
<1>3. QED
  BY <1>1, <1>2, ServerReceiveShape, GrantedStep, JoinedStep

-----------------------------------------------------------------------------
(***************************************************************************)
(* IInv is an invariant, and with it the properties it is made of.         *)
(***************************************************************************)

\* Every endpoint starts in the inductive invariant.
LEMMA IInvInit == Init => IInv
<1> SUFFICES ASSUME Init PROVE IInv
  OBVIOUS
<1> USE DEF Init, ProtocolInit, ClientInit, ServerInit
<1>1. TypeOK
  BY InitType
<1>2. \A s \in Servers, id \in ConnectionId : Owner(s, id) = NoPeer
  BY DEF Owner, Endpoint
<1>3. \A e \in Endpoint : ConnectedIds(e) = {}
  BY DEF ConnectedIds
<1>4. AddressesFit /\ TrackerAhead
  BY <1>2 DEF AddressesFit, TrackerAhead
<1>5. AcceptsAwait /\ RequestsRequest /\ ScheduledToConnected
  BY ToSetEmpty DEF AcceptsAwait, RequestsRequest, ScheduledToConnected
<1>6. PacketsSpeakTrue /\ SentWasSent
  BY ToSetEmpty DEF PacketsSpeakTrue, SentWasSent
<1>7. UniqueIds
  BY <1>2 DEF UniqueIds, Owns, Endpoint
<1>8. IdsAgree /\ OneStatePerServer /\ EstablishedOnBothSides
  BY <1>3 DEF IdsAgree, OneStatePerServer, EstablishedOnBothSides, Endpoint
<1>9. CreateNeverFails
  BY DEF CreateNeverFails
<1>10. QED
  BY <1>1, <1>4, <1>5, <1>6, <1>7, <1>8, <1>9 DEF IInv

\* The inductive invariant is inductive: the steps of all handlers together.
LEMMA IInvNext == IInv /\ [Next]_vars => IInv'
<1> SUFFICES ASSUME IInv, [Next]_vars PROVE IInv'
  OBVIOUS
<1>1. TypeOK'
  BY NextType DEF IInv
<1>2. ASSUME NEW c \in Clients, ClientNext(c), UNCHANGED serverVars
      PROVE  IInv'
  <2>1. CASE \E s \in Servers : Connect(c, s)
    BY <1>1, <1>2, <2>1, ConnectStep
  <2>2. CASE SendConnectionRequest(c)
    BY <1>1, <1>2, <2>2, SendConnectionRequestStep
  <2>3. CASE \/ RetryConnectionRequest(c)
             \/ ClientRetryDataTransfer(c)
             \/ \E q \in Queue : ClientSend(c, q)
             \/ ClientPoll(c)
    BY <1>1, <1>2, <2>3, CalmStep, RetryConnectionRequestCalm, ClientRetryCalm,
       ClientSendCalm, ClientPollCalm
  <2>4. CASE \E p \in network : ClientReceive(c, p)
    BY <1>1, <1>2, <2>4, ClientReceiveStep
  <2>5. CASE (Schedule(c) \/ Heartbeat(c) \/ Tick(c)) /\ UNCHANGED clientVars
    BY <1>1, <1>2, <2>5, CallStep, TickStep DEF Endpoint
  <2>6. QED
    BY <1>2, <2>1, <2>2, <2>3, <2>4, <2>5 DEF ClientNext, ClientPolls
<1>3. ASSUME NEW s \in Servers, ServerNext(s), UNCHANGED clientVars
      PROVE  IInv'
  <2>1. CASE RetryConnectionAccepted(s) \/ SendConnectionAccepted(s)
    BY <1>1, <1>3, <2>1, CalmStep, RetryConnectionAcceptedCalm,
       SendConnectionAcceptedCalm
  <2>2. CASE ServerRetryDataTransfer(s) \/ ServerRetryFragment(s)
    <3>1. /\ {"DataTransfer", "Fragment"} \subseteq SentKind
          /\ {"retryData", "retryFragment"} \subseteq Phase \ Stopped
          /\ {"retryFragment", "send"} \subseteq Phase
      BY DEF SentKind, Phase, Stopped
    <3>2. Calm
      BY <1>3, <2>2, <3>1, RetrySentCalm
      DEF ServerRetryDataTransfer, ServerRetryFragment
    <3>3. QED
      BY <1>1, <3>2, CalmStep
  <2>3. CASE (\E q \in Queue : ServerSend(s, q)) \/ ServerPoll(s)
    BY <1>1, <1>3, <2>3, CalmStep, ServerSendCalm, ServerPollCalm
  <2>4. CASE \E p \in network : ServerReceive(s, p)
    BY <1>1, <1>3, <2>4, ServerReceiveStep
  <2>5. CASE (Schedule(s) \/ Heartbeat(s) \/ Tick(s)) /\ UNCHANGED serverVars
    BY <1>1, <1>3, <2>5, CallStep, TickStep DEF Endpoint
  <2>6. QED
    BY <1>3, <2>1, <2>2, <2>3, <2>4, <2>5 DEF ServerNext, ServerPolls
<1>4. CASE UNCHANGED vars
  <2>1. Calm
    <3>1. /\ UNCHANGED <<network, phase, connected, scheduled, sent>>
          /\ UNCHANGED <<requesting, awaiting, scheduledRequest, sentRequest>>
          /\ UNCHANGED <<awaitingAck, connectionIdTracker, scheduledAccepted, sentAccepted>>
      BY <1>4 DEF vars, protocolVars, clientVars, serverVars
    <3>2. CalmPhase
      BY <3>1 DEF CalmPhase, IInv, CreateNeverFails
    <3>3. QED
      BY <3>1, <3>2, DropCalm
  <2>2. QED
    BY <1>1, <2>1, CalmStep
<1>5. QED
  BY <1>2, <1>3, <1>4 DEF Next

(***************************************************************************)
(* The inductive invariant holds of every reachable state.                 *)
(***************************************************************************)
THEOREM Inductive == Spec => []IInv
BY IInvInit, IInvNext, PTL DEF Spec

(***************************************************************************)
(* However often a request arrives, its client has one id at a server, and *)
(* that id is in one state.                                                *)
(***************************************************************************)
THEOREM UniqueIdsHolds == Spec => []UniqueIds
<1>1. IInv => UniqueIds
  BY DEF IInv
<1>2. QED
  BY Inductive, <1>1, PTL

(***************************************************************************)
(* What a client is connected under is what that server granted it.        *)
(***************************************************************************)
THEOREM IdsAgreeHolds == Spec => []IdsAgree
<1>1. IInv => IdsAgree
  BY DEF IInv
<1>2. QED
  BY Inductive, <1>1, PTL

(***************************************************************************)
(* A server connects a peer only after the client connected to it, under   *)
(* the same id, over a network that loses, repeats and reorders.           *)
(***************************************************************************)
THEOREM EstablishedHolds == Spec => []EstablishedOnBothSides
<1>1. IInv => EstablishedOnBothSides
  BY DEF IInv
<1>2. QED
  BY Inductive, <1>1, PTL

(***************************************************************************)
(* A client has a remote address in one state only.                        *)
(***************************************************************************)
THEOREM OneStateHolds == Spec => []OneStatePerServer
<1>1. IInv => OneStatePerServer
  BY DEF IInv
<1>2. QED
  BY Inductive, <1>1, PTL

(***************************************************************************)
(* "Creating a packet should never fail!" is true: none of the expects in  *)
(* create_* can panic.                                                     *)
(***************************************************************************)
THEOREM CreateHolds == Spec => []CreateNeverFails
<1>1. IInv => CreateNeverFails
  BY DEF IInv
<1>2. QED
  BY Inductive, <1>1, PTL

=============================================================================
