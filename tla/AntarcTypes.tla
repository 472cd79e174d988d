---------------------------- MODULE AntarcTypes -----------------------------
(***************************************************************************)
(* Type correctness, for every number of endpoints and every width.        *)
(***************************************************************************)
EXTENDS Antarc, FiniteSetTheorems, SequenceTheorems, TLAPS

-----------------------------------------------------------------------------
(***************************************************************************)
(* The data.                                                               *)
(***************************************************************************)

\* The fields of a packet; only a connection request has no id.
LEMMA PacketFields ==
  ASSUME NEW p \in Packet
  PROVE  /\ p.kind \in Kind
         /\ p.src \in Endpoint
         /\ p.dst \in Endpoint
         /\ p.sequence \in Sequence
         /\ p.ack \in Ack
         /\ p.packetId \in Nat
         /\ p.index \in FragmentByte
         /\ p.total \in FragmentByte
         /\ p.kind # "ConnectionRequest" => p.id \in ConnectionId
         /\ p.kind = "ConnectionRequest" => p.id = 0
BY WidthAssumption DEF Packet, PacketId, ConnectionId

\* What create_* builds is a packet.
LEMMA MadePacket ==
  ASSUME NEW kind \in Kind, NEW src \in Endpoint, NEW dst \in Endpoint,
         NEW sequence \in Sequence, NEW ack \in Ack,
         NEW id \in 0 .. ConnectionIdLimit, NEW packetId \in PacketId,
         NEW index \in FragmentByte, NEW total \in FragmentByte,
         kind = "ConnectionRequest" <=> id = 0
  PROVE  [kind |-> kind, src |-> src, dst |-> dst, sequence |-> sequence,
          ack |-> ack, id |-> id, packetId |-> packetId, index |-> index,
          total |-> total] \in Packet
BY DEF Packet

\* A new peer is a peer, and so is one that saw a packet or sent one more.
LEMMA NewPeerType ==
  ASSUME NEW a \in Endpoint, NEW ack \in Ack
  PROVE  NewPeer(a, ack) \in Peer
BY WidthAssumption DEF NewPeer, Peer, Sequence, Ack

\* A peer that has been acked by a packet is a peer.
LEMMA AckedType ==
  ASSUME NEW peer \in Peer, NEW p \in Packet
  PROVE  Acked(peer, p) \in Peer
<1>1. p.sequence \in Ack /\ p.ack \in Ack
  BY PacketFields, WidthAssumption DEF Sequence, Ack
<1>2. QED
  BY <1>1 DEF Acked, Peer

\* A peer below the last sequence may have it advanced.
LEMMA NextSequenceType ==
  ASSUME NEW peer \in Peer, peer.sequence # SequenceLimit
  PROVE  [peer EXCEPT !.sequence = @ + 1] \in Peer
BY WidthAssumption DEF Peer, Sequence

\* What is left of a sequence, and its last element.
LEMMA FrontType ==
  ASSUME NEW S, NEW s \in Seq(S)
  PROVE  Front(s) \in Seq(S)
BY DEF Front

\* The packet a retry pops is one the list holds.
LEMMA LastType ==
  ASSUME NEW S, NEW s \in Seq(S), s # <<>>
  PROVE  Last(s) \in S
BY DEF Last

\* A list without its first item, as poll leaves it, is such a list.
LEMMA TailType ==
  ASSUME NEW S, NEW s \in Seq(S), s # <<>>
  PROVE  /\ Head(s) \in S
         /\ Tail(s) \in Seq(S)
OBVIOUS

\* A list of all elements of the empty set, and of a set of one.
LEMMA ListOfNone == SetToSeq({}) = <<>>
<1> DEFINE F == {f \in [1 .. Cardinality({}) -> {}] : IsInjective(f)}
<1>1. Cardinality({}) = 0
  BY FS_EmptySet
<1>2. \A f \in [1 .. 0 -> {}] : f = <<>>
  OBVIOUS
<1>3. <<>> \in [1 .. 0 -> {}] /\ IsInjective(<<>>)
  BY DEF IsInjective
<1>4. QED
  BY <1>1, <1>2, <1>3 DEF SetToSeq

\* Of one element there is one list.
LEMMA ListOfOne ==
  ASSUME NEW x
  PROVE  SetToSeq({x}) = <<x>>
<1>1. Cardinality({x}) = 1
  BY FS_Singleton
<1>2. \A f \in [1 .. 1 -> {x}] : f = <<x>>
  OBVIOUS
<1>3. <<x>> \in [1 .. 1 -> {x}] /\ IsInjective(<<x>>)
  BY DEF IsInjective
<1>4. QED
  BY <1>1, <1>2, <1>3 DEF SetToSeq

\* A list that is not empty, and no longer than one, is its head.
LEMMA ShortList ==
  ASSUME NEW S, NEW list \in Seq(S), list # <<>>, Len(list) <= 1
  PROVE  Len(list) = 1 /\ Tail(list) = <<>> /\ list = <<Head(list)>> /\ Head(list) \in S
<1>1. Len(list) = 1
  <2>1. Len(list) \in Nat
    OBVIOUS
  <2>2. Len(list) # 0
    BY EmptySeq
  <2>3. QED
    BY <2>1, <2>2
<1>2. Tail(list) \in Seq(S) /\ Len(Tail(list)) = 0
  BY <1>1
<1>3. Tail(list) = <<>>
  BY <1>2
<1>4. list = <<Head(list)>> /\ Head(list) \in S
  BY <1>1
<1>5. QED
  BY <1>1, <1>3, <1>4

\* A list of one item is not empty.
LEMMA OneIsSome ==
  ASSUME NEW list, Len(list) = 1
  PROVE  list # <<>>
<1> SUFFICES ASSUME list = <<>> PROVE FALSE
  OBVIOUS
<1>1. Len(<<>>) = 0
  OBVIOUS
<1>2. QED
  BY <1>1

\* A list that was appended to is longer by one.
LEMMA LongerList ==
  ASSUME NEW S, NEW list \in Seq(S), NEW x \in S
  PROVE  Append(list, x) # <<>> /\ Len(Append(list, x)) = Len(list) + 1
<1>1. Len(Append(list, x)) = Len(list) + 1 /\ Len(list) \in Nat
  OBVIOUS
<1>2. Len(Append(list, x)) # 0
  BY <1>1
<1>3. Len(<<>>) = 0
  OBVIOUS
<1>4. QED
  BY <1>1, <1>2, <1>3

\* The lists poll drains hold what the reliability handler keeps.
LEMMA DrainOrderType ==
  ASSUME NEW q \in Queue
  PROVE  /\ DrainOrder[q].kind \in SentKind
         /\ DrainOrder[q].reliable \in BOOLEAN
<1>1. CASE q = 1  BY <1>1 DEF DrainOrder, SentKind
<1>2. CASE q = 2  BY <1>2 DEF DrainOrder, SentKind
<1>3. CASE q = 3  BY <1>3 DEF DrainOrder, SentKind
<1>4. CASE q = 4  BY <1>4 DEF DrainOrder, SentKind
<1>5. CASE q = 5  BY <1>5 DEF DrainOrder, SentKind
<1>6. CASE q = 6  BY <1>6 DEF DrainOrder, SentKind
<1>7. QED
  BY <1>1, <1>2, <1>3, <1>4, <1>5, <1>6 DEF Queue

-----------------------------------------------------------------------------
(***************************************************************************)
(* What the services share.                                                *)
(***************************************************************************)

\* A call is for a sequence of connected ids.
LEMMA RecipientsType ==
  ASSUME NEW e \in Endpoint, NEW ids \in Recipients(e)
  PROVE  ids \in Seq(ConnectedIds(e))
<1>1. CASE \E id \in ConnectedIds(e) : ids = <<id>>
  BY <1>1
<1>2. CASE ids \in SetToSeqs(ConnectedIds(e))
  <2>1. IsFiniteSet(ConnectionId)
    BY FS_Interval, WidthAssumption DEF ConnectionId
  <2>2. Cardinality(ConnectedIds(e)) \in Nat
    BY <2>1, FS_Subset, FS_CardinalityType DEF ConnectedIds
  <2>3. ids \in [1 .. Cardinality(ConnectedIds(e)) -> ConnectedIds(e)]
    BY <1>2 DEF SetToSeqs
  <2>4. QED
    BY <2>2, <2>3
<1>3. QED
  BY <1>1, <1>2 DEF Recipients

\* One call pushes well-formed items.
LEMMA BatchType ==
  ASSUME ProtocolTypeOK, NEW e \in Endpoint, NEW ids \in Recipients(e),
         NEW total \in Nat
  PROVE  Batch(e, ids, total) \in Seq(Scheduled)
<1> DEFINE n == total * Len(ids)
           item(k) == LET id == ids[((k - 1) % Len(ids)) + 1]
                      IN  [id |-> id,
                           address |-> connected[e][id].address,
                           packetId |-> packetIdTracker[e],
                           index |-> ((k - 1) \div Len(ids)) % FragmentModulus,
                           total |-> total % FragmentModulus]
<1>1. ids \in Seq(ConnectedIds(e))
  BY RecipientsType
<1>2. Len(ids) \in Nat
  BY <1>1
<1>3. n \in Nat
  BY <1>2
<1>4. ASSUME NEW k \in 1 .. n
      PROVE  item(k) \in Scheduled
  <2>1. Len(ids) # 0
    BY <1>2, <1>4
  <2>2. ((k - 1) % Len(ids)) + 1 \in 1 .. Len(ids)
    BY <1>2, <1>3, <2>1
  <2>3. ids[((k - 1) % Len(ids)) + 1] \in ConnectedIds(e)
    BY <1>1, <2>2
  <2>4. /\ ids[((k - 1) % Len(ids)) + 1] \in ConnectionId
        /\ connected[e][ids[((k - 1) % Len(ids)) + 1]] \in Peer
    BY <2>3 DEF ConnectedIds, ProtocolTypeOK
  <2>5. (k - 1) \div Len(ids) \in Int
    BY <1>2, <1>3, <2>1
  <2>6. \A i \in Int : i % FragmentModulus \in FragmentByte
    BY WidthAssumption DEF FragmentByte
  <2>7. packetIdTracker[e] \in PacketId
    BY DEF ProtocolTypeOK
  <2>8. QED
    BY <2>4, <2>5, <2>6, <2>7 DEF Scheduled, Peer
<1>5. Batch(e, ids, total) = [k \in 1 .. n |-> item(k)]
  BY DEF Batch, ScheduledItem
<1>6. [k \in 1 .. n |-> item(k)] \in [1 .. n -> Scheduled]
  BY <1>4
<1> HIDE DEF n, item
<1>7. QED
  BY <1>3, <1>5, <1>6

\* A call queues its items and spends a packet id.
LEMMA EnqueueType ==
  ASSUME ProtocolTypeOK, NEW e \in Endpoint, NEW q \in Queue,
         NEW items \in Seq(Scheduled), Enqueue(e, q, items)
  PROVE  ProtocolTypeOK'
<1>1. scheduled' \in [Endpoint -> [Queue -> Seq(Scheduled)]]
  BY DEF ProtocolTypeOK, Enqueue
<1>2. packetIdTracker' \in [Endpoint -> PacketId]
  BY DEF ProtocolTypeOK, Enqueue, PacketId
<1>3. QED
  BY <1>1, <1>2 DEF ProtocolTypeOK, Enqueue

\* schedule and heartbeat queue well-formed items.
LEMMA CallType ==
  ASSUME ProtocolTypeOK, NEW e \in Endpoint, Schedule(e) \/ Heartbeat(e)
  PROVE  ProtocolTypeOK'
<1> USE ClockAssumption DEF Queue
<1>1. CASE Schedule(e)
  BY <1>1, BatchType, EnqueueType DEF Schedule
<1>2. CASE Heartbeat(e)
  BY <1>2, BatchType, EnqueueType DEF Heartbeat
<1>3. QED
  BY <1>1, <1>2

\* A reading of the timer is a number.
LEMMA TickType ==
  ASSUME ProtocolTypeOK, NEW e \in Endpoint, Tick(e)
  PROVE  ProtocolTypeOK'
<1>1. clock' \in [Endpoint -> Nat]
  BY DEF ProtocolTypeOK, Tick
<1>2. QED
  BY <1>1 DEF ProtocolTypeOK, Tick

\* send_to and sent_* keep what they change well formed.
LEMMA SendPacketType ==
  ASSUME ProtocolTypeOK, NEW e \in Endpoint, NEW p \in Packet,
         NEW reliable \in BOOLEAN,
         NEW peers \in [ConnectionId -> Peer \cup {NoPeer}],
         NEW sents \in [SentKind -> Seq(Sent)], NEW next \in Phase,
         SendPacket(e, p, reliable, peers, sents, next)
  PROVE  /\ network' \subseteq Packet
         /\ phase' \in [Endpoint -> Phase]
         /\ connected' \in [Endpoint -> [ConnectionId -> Peer \cup {NoPeer}]]
         /\ sent' \in [Endpoint -> [SentKind -> Seq(Sent)]]
<1>2. network' \subseteq Packet
  BY DEF SendPacket, ProtocolTypeOK
<1>3. CASE Exhausts(peers[p.id], p)
  BY <1>2, <1>3, ZenonT(30) DEF SendPacket, ProtocolTypeOK, Phase, Stopped
<1>4. CASE ~Exhausts(peers[p.id], p)
  <2> DEFINE moved == IF peers[p.id] # NoPeer /\ EndsGroup(p)
                        THEN [peers EXCEPT ![p.id].sequence = @ + 1]
                        ELSE peers
             kept == IF reliable
                       THEN [sents EXCEPT ![p.kind] =
                               Append(@, [packet |-> p, time |-> clock[e]])]
                       ELSE sents
  <2>1. moved \in [ConnectionId -> Peer \cup {NoPeer}]
    <3>1. CASE peers[p.id] # NoPeer /\ EndsGroup(p) /\ p.id \in ConnectionId
      <4>1. peers[p.id] \in Peer /\ peers[p.id].sequence # SequenceLimit
        BY <1>4, <3>1 DEF Exhausts
      <4>2. [peers[p.id] EXCEPT !.sequence = @ + 1] \in Peer
        BY <4>1, NextSequenceType
      <4>3. QED
        BY <3>1, <4>2
    <3>2. QED
      BY <3>1
  <2>2. kept \in [SentKind -> Seq(Sent)]
    <3> DEFINE x == [packet |-> p, time |-> clock[e]]
    <3>1. x \in Sent
      BY DEF Sent, ProtocolTypeOK
    <3> HIDE DEF x
    <3>2. \A k \in SentKind : Append(sents[k], x) \in Seq(Sent)
      BY <3>1
    <3>3. [sents EXCEPT ![p.kind] = Append(@, x)] \in [SentKind -> Seq(Sent)]
      BY <3>2
    <3>4. QED
      BY <3>3 DEF x
  <2>3. phase' = [phase EXCEPT ![e] = next]
        /\ connected' = [connected EXCEPT ![e] = moved]
        /\ sent' = [sent EXCEPT ![e] = kept]
    BY <1>4 DEF SendPacket
  <2> HIDE DEF moved, kept
  <2>4. QED
    BY <1>2, <2>1, <2>2, <2>3 DEF ProtocolTypeOK
<1>5. QED
  BY <1>3, <1>4

\* create_* builds a packet from a scheduled item of a connected peer.
LEMMA CreatedType ==
  ASSUME ProtocolTypeOK, NEW e \in Endpoint, NEW q \in Queue,
         scheduled[e][q] # <<>>,
         connected[e][Head(scheduled[e][q]).id] # NoPeer
  PROVE  /\ Head(scheduled[e][q]) \in Scheduled
         /\ Created(e, q, Head(scheduled[e][q])) \in Packet
<1> DEFINE item == Head(scheduled[e][q])
<1>1. item \in Scheduled
  BY DEF ProtocolTypeOK
<1>2. connected[e][item.id] \in Peer
  BY <1>1 DEF ProtocolTypeOK, Scheduled
<1>3. DrainOrder[q].kind \in Kind /\ DrainOrder[q].kind # "ConnectionRequest"
  BY DrainOrderType DEF SentKind, Kind
<1>4. /\ item.id \in 0 .. ConnectionIdLimit /\ item.id # 0
      /\ item.address \in Endpoint /\ item.packetId \in PacketId
      /\ item.index \in FragmentByte /\ item.total \in FragmentByte
  BY <1>1, WidthAssumption DEF Scheduled, ConnectionId
<1>5. connected[e][item.id].sequence \in Sequence
      /\ connected[e][item.id].remoteAck \in Ack
  BY <1>2 DEF Peer
<1> HIDE DEF item
<1>6. Created(e, q, item) \in Packet
  BY <1>3, <1>4, <1>5, MadePacket DEF Created, IntoPacket
<1>7. QED
  BY <1>1, <1>6 DEF item

\* What a round of a poll_* loop does to the state both services have.
LEMMA SendScheduledType ==
  ASSUME ProtocolTypeOK, NEW e \in Endpoint, NEW q \in Queue,
         NEW peers \in [ConnectionId -> Peer \cup {NoPeer}],
         SendScheduled(e, q, peers)
  PROVE  ProtocolTypeOK'
<1> DEFINE item == Head(scheduled[e][q])
<1>1. scheduled[e][q] # <<>> /\ scheduled[e][q] \in Seq(Scheduled)
  BY DEF SendScheduled, NextInLine, ProtocolTypeOK
<1>2. scheduled' \in [Endpoint -> [Queue -> Seq(Scheduled)]]
  BY <1>1 DEF SendScheduled, ProtocolTypeOK
<1>3. CASE connected[e][item.id] = NoPeer
  <2>1. phase' \in [Endpoint -> Phase]
    BY <1>3 DEF SendScheduled, ProtocolTypeOK, Phase, Stopped
  <2>2. QED
    BY <1>2, <1>3, <2>1 DEF SendScheduled, ProtocolTypeOK
<1>4. CASE connected[e][item.id] # NoPeer
  <2>1. Created(e, q, item) \in Packet
    BY <1>1, <1>4, CreatedType
  <2>2. SendPacket(e, Created(e, q, item), DrainOrder[q].reliable, peers,
                   sent[e], "send")
    BY <1>4 DEF SendScheduled
  <2>3. /\ network' \subseteq Packet
        /\ phase' \in [Endpoint -> Phase]
        /\ connected' \in [Endpoint -> [ConnectionId -> Peer \cup {NoPeer}]]
        /\ sent' \in [Endpoint -> [SentKind -> Seq(Sent)]]
    <3>1. "send" \in Phase
      BY DEF Phase
    <3>2. sent[e] \in [SentKind -> Seq(Sent)]
      BY DEF ProtocolTypeOK
    <3>3. QED
      BY <2>1, <2>2, <3>1, <3>2, SendPacketType, DrainOrderType
  <2>4. QED
    BY <1>2, <2>3 DEF SendScheduled, ProtocolTypeOK
<1>5. QED
  BY <1>3, <1>4

\* What a retry does.
LEMMA ResendType ==
  ASSUME ProtocolTypeOK, NEW e \in Endpoint, NEW kind \in SentKind,
         NEW peers \in [ConnectionId -> Peer \cup {NoPeer}],
         NEW next \in Phase, sent[e][kind] # <<>>,
         Resend(e, kind, peers, next)
  PROVE  ProtocolTypeOK'
<1>1. sent[e][kind] \in Seq(Sent)
  BY DEF ProtocolTypeOK
<1>2. Last(sent[e][kind]).packet \in Packet
  BY <1>1, LastType DEF Sent
<1>3. [sent[e] EXCEPT ![kind] = Front(@)] \in [SentKind -> Seq(Sent)]
  BY <1>1, FrontType DEF ProtocolTypeOK
<1>4. /\ network' \subseteq Packet
      /\ phase' \in [Endpoint -> Phase]
      /\ connected' \in [Endpoint -> [ConnectionId -> Peer \cup {NoPeer}]]
      /\ sent' \in [Endpoint -> [SentKind -> Seq(Sent)]]
  BY <1>2, <1>3, SendPacketType DEF Resend
<1>5. QED
  BY <1>4 DEF ProtocolTypeOK, Resend

\* A retry that is not due leaves lists of sent packets.
LEMMA ForgetType ==
  ASSUME ProtocolTypeOK, NEW e \in Endpoint, NEW kind \in SentKind,
         NEW next \in Phase, Forget(e, kind, next)
  PROVE  ProtocolTypeOK'
<1>1. sent[e][kind] \in Seq(Sent)
  BY DEF ProtocolTypeOK
<1>2. sent' \in [Endpoint -> [SentKind -> Seq(Sent)]]
  BY <1>1, FrontType DEF ProtocolTypeOK, Forget
<1>3. QED
  BY <1>2 DEF ProtocolTypeOK, Forget

\* The end of a poll, but for the reassembler, which is each service's own.
LEMMA PollHandlerType ==
  ASSUME ProtocolTypeOK, NEW e \in Endpoint, PollHandler(e),
         reassembler' \in [Endpoint -> [ConnectionId -> [Sequence -> Seq(Received)]]]
  PROVE  ProtocolTypeOK'
<1>1. Expired(sent[e]) \in [SentKind -> Seq(Sent)]
  <2>1. sent[e] \in [SentKind -> Seq(Sent)]
    BY DEF ProtocolTypeOK
  <2>2. QED
    BY <2>1, TailType DEF Expired, SentKind
<1>2. phase' \in [Endpoint -> Phase]
  BY DEF PollHandler, ProtocolTypeOK, Phase
<1>3. sent' \in [Endpoint -> [SentKind -> Seq(Sent)]]
  BY <1>1 DEF PollHandler, ProtocolTypeOK
<1>4. api' \in [Endpoint -> Seq(Event)]
  BY DEF PollHandler, ProtocolTypeOK
<1>5. QED
  BY <1>2, <1>3, <1>4 DEF PollHandler, ProtocolTypeOK

\* What on_received pushes to api.
LEMMA PushType ==
  ASSUME ProtocolTypeOK, NEW e \in Endpoint, NEW event \in Event, Push(e, event)
  PROVE  api' \in [Endpoint -> Seq(Event)]
BY DEF ProtocolTypeOK, Push

\* The Err of on_received is an event.
LEMMA FailType ==
  ASSUME NEW error \in Error, NEW p \in Packet
  PROVE  Fail(error, p) \in Event
BY PacketFields DEF Fail, Event

\* A data transfer handed to the application is an event.
LEMMA DeliveredType ==
  ASSUME NEW p \in Packet, p.kind # "ConnectionRequest"
  PROVE  DataTransferEvent(p.id, <<PartOf(p)>>) \in Event
<1>1. PartOf(p) \in Part
  BY PacketFields DEF PartOf, Part, PacketId
<1>2. p.id \in ConnectionId
  BY PacketFields
<1>3. QED
  BY <1>1, <1>2 DEF DataTransferEvent, Event

\* The fragment arm of on_received keeps lines of received fragments.
LEMMA ReassembleType ==
  ASSUME ProtocolTypeOK, NEW e \in Endpoint, NEW p \in Packet,
         p.kind # "ConnectionRequest", Reassemble(e, p)
  PROVE  /\ reassembler' \in [Endpoint -> [ConnectionId -> [Sequence -> Seq(Received)]]]
         /\ api' \in [Endpoint -> Seq(Event)]
<1> DEFINE line == reassembler[e][p.id][p.sequence]
           part == [packetId |-> p.packetId, index |-> p.index, time |-> clock[e]]
           longer == Append(line, part)
           whole == line # <<>> /\ Len(longer) = p.total
           parts == JoinedParts(longer)
<1>1. /\ p.id \in ConnectionId /\ p.sequence \in Sequence
      /\ p.packetId \in PacketId /\ p.index \in FragmentByte
  BY PacketFields DEF PacketId
<1>2. line \in Seq(Received)
  BY <1>1 DEF ProtocolTypeOK
<1>3. part \in Received
  BY <1>1 DEF Received, ProtocolTypeOK
<1>4. longer \in Seq(Received)
  BY <1>2, <1>3
<1>5. parts \in Seq(Part)
  <2> HIDE DEF longer
  <2>1. Len(longer) - 1 \in Int
    BY <1>4
  <2>2. \A i \in 1 .. Len(longer) - 1 : longer[i] \in Received
    BY <1>4, SMTT(30)
  <2>3. parts \in [1 .. Len(longer) - 1 -> Part]
    BY <2>2 DEF JoinedParts, Received, Part
  <2>4. CASE Len(longer) = 0
    BY <2>3, <2>4
  <2>5. CASE Len(longer) # 0
    <3>1. Len(longer) - 1 \in Nat
      BY <1>4, <2>5
    <3>2. QED
      BY <2>3, <3>1
  <2>6. QED
    BY <2>4, <2>5
<1>6. DataTransferEvent(p.id, parts) \in Event
  BY <1>1, <1>5 DEF DataTransferEvent, Event
<1>7. /\ reassembler' = [reassembler EXCEPT ![e][p.id][p.sequence] =
                           IF whole THEN <<>> ELSE longer]
      /\ IF whole THEN Push(e, DataTransferEvent(p.id, parts)) ELSE UNCHANGED api
  BY DEF Reassemble
<1> HIDE DEF whole, parts, longer
<1>8. reassembler' \in [Endpoint -> [ConnectionId -> [Sequence -> Seq(Received)]]]
  <2>1. (IF whole THEN <<>> ELSE longer) \in Seq(Received)
    BY <1>4
  <2>2. QED
    BY <1>1, <1>7, <2>1 DEF ProtocolTypeOK
<1>9. api' \in [Endpoint -> Seq(Event)]
  BY <1>6, <1>7, PushType DEF ProtocolTypeOK
<1>10. QED
  BY <1>8, <1>9

-----------------------------------------------------------------------------
(***************************************************************************)
(* The client.                                                             *)
(***************************************************************************)

\* Client::connect keeps the types.
LEMMA ConnectType ==
  ASSUME ProtocolTypeOK, ClientTypeOK, NEW c \in Clients, NEW s \in Servers,
         Connect(c, s)
  PROVE  ProtocolTypeOK' /\ ClientTypeOK'
<1>1. NewPeer(s, 0) \in Peer
  BY NewPeerType, WidthAssumption DEF Endpoint, Ack
<1>2. requesting' \in [Clients -> [Endpoint -> Peer \cup {NoPeer}]]
  BY <1>1 DEF ClientTypeOK, Connect
<1>3. scheduledRequest' \in [Clients -> Seq(Servers)]
  BY DEF ClientTypeOK, Connect
<1>4. packetIdTracker' \in [Endpoint -> PacketId]
  BY DEF ProtocolTypeOK, Connect, PacketId, Endpoint
<1>5. QED
  BY <1>2, <1>3, <1>4 DEF ClientTypeOK, ProtocolTypeOK, Connect

\* sent_connection_request keeps the types of the maps it moves a peer
\* between.
LEMMA SendRequestType ==
  ASSUME ProtocolTypeOK, ClientTypeOK, NEW c \in Clients, NEW p \in Packet,
         NEW sents \in Seq(Sent), NEW next \in Phase,
         SendRequest(c, p, sents, next)
  PROVE  /\ network' \subseteq Packet
         /\ phase' \in [Endpoint -> Phase]
         /\ requesting' \in [Clients -> [Endpoint -> Peer \cup {NoPeer}]]
         /\ awaiting' \in [Clients -> [Endpoint -> Peer \cup {NoPeer}]]
         /\ sentRequest' \in [Clients -> Seq(Sent)]
<1> DEFINE peer == requesting[c][p.dst]
<1>1. network' \subseteq Packet
  BY DEF SendRequest, ProtocolTypeOK
<1>2. p.dst \in Endpoint /\ peer \in Peer \cup {NoPeer}
  BY PacketFields DEF ClientTypeOK
<1>3. CASE peer = NoPeer \/ peer.sequence = SequenceLimit
  <2>1. \E why \in Phase : phase' = [phase EXCEPT ![c] = why]
    BY <1>3 DEF SendRequest, Phase, Stopped
  <2>2. sentRequest' = [sentRequest EXCEPT ![c] = sents]
        /\ UNCHANGED <<requesting, awaiting>>
    BY <1>3 DEF SendRequest
  <2>3. QED
    BY <1>1, <2>1, <2>2 DEF ProtocolTypeOK, ClientTypeOK
<1>4. CASE peer # NoPeer /\ peer.sequence # SequenceLimit
  <2>1. [peer EXCEPT !.sequence = @ + 1] \in Peer
    BY <1>2, <1>4, NextSequenceType
  <2>2. [packet |-> p, time |-> clock[c]] \in Sent
    BY DEF Sent, ProtocolTypeOK, Endpoint
  <2>3. Append(sents, [packet |-> p, time |-> clock[c]]) \in Seq(Sent)
    BY <2>2
  <2>4. /\ phase' = [phase EXCEPT ![c] = next]
        /\ requesting' = [requesting EXCEPT ![c][p.dst] = NoPeer]
        /\ awaiting' = [awaiting EXCEPT ![c][p.dst] =
                          [peer EXCEPT !.sequence = @ + 1]]
        /\ sentRequest' =
             [sentRequest EXCEPT ![c] =
                Append(sents, [packet |-> p, time |-> clock[c]])]
    BY <1>4 DEF SendRequest
  <2>5. phase' \in [Endpoint -> Phase]
    BY <2>4 DEF ProtocolTypeOK
  <2>6. requesting' \in [Clients -> [Endpoint -> Peer \cup {NoPeer}]]
    BY <2>4 DEF ClientTypeOK
  <2>7. awaiting' \in [Clients -> [Endpoint -> Peer \cup {NoPeer}]]
    BY <2>1, <2>4 DEF ClientTypeOK
  <2>8. sentRequest' \in [Clients -> Seq(Sent)]
    BY <2>3, <2>4 DEF ClientTypeOK
  <2>9. QED
    BY <1>1, <2>5, <2>6, <2>7, <2>8
<1>5. QED
  BY <1>3, <1>4

\* poll_retry_connection_request keeps the types.
LEMMA RetryConnectionRequestType ==
  ASSUME ProtocolTypeOK, ClientTypeOK, NEW c \in Clients,
         RetryConnectionRequest(c)
  PROVE  ProtocolTypeOK' /\ ClientTypeOK'
<1>1. sentRequest[c] \in Seq(Sent) /\ Front(sentRequest[c]) \in Seq(Sent)
  BY FrontType DEF ClientTypeOK
<1>2. "retryData" \in Phase
  BY DEF Phase
<1>3. CASE Overdue(c, sentRequest[c])
  <2>1. Last(sentRequest[c]).packet \in Packet
    BY <1>1, <1>3, LastType DEF Overdue, Sent
  <2>2. QED
    BY <1>1, <1>2, <1>3, <2>1, SendRequestType
    DEF RetryConnectionRequest, ProtocolTypeOK, ClientTypeOK
<1>4. CASE ~Overdue(c, sentRequest[c])
  BY <1>1, <1>2, <1>4, ZenonT(30)
  DEF RetryConnectionRequest, ProtocolTypeOK, ClientTypeOK
<1>5. QED
  BY <1>3, <1>4

\* poll_connection_request keeps the types.
LEMMA SendConnectionRequestType ==
  ASSUME ProtocolTypeOK, ClientTypeOK, NEW c \in Clients,
         SendConnectionRequest(c)
  PROVE  ProtocolTypeOK' /\ ClientTypeOK'
<1> DEFINE s == Head(scheduledRequest[c])
           peer == requesting[c][s]
           p == [kind |-> "ConnectionRequest", src |-> c, dst |-> s,
                 sequence |-> peer.sequence, ack |-> peer.remoteAck, id |-> 0,
                 packetId |-> 0, index |-> 0, total |-> 1]
<1>1. scheduledRequest[c] \in Seq(Servers) /\ scheduledRequest[c] # <<>>
  BY DEF SendConnectionRequest, IntoPacket, HandshakeItem, ClientTypeOK
<1>2. s \in Servers /\ Tail(scheduledRequest[c]) \in Seq(Servers)
  BY <1>1
<1>3. scheduledRequest' \in [Clients -> Seq(Servers)]
  BY <1>2 DEF SendConnectionRequest, IntoPacket, HandshakeItem, ClientTypeOK
<1>4. CASE peer = NoPeer
  <2>1. phase' \in [Endpoint -> Phase]
    BY <1>4 DEF SendConnectionRequest, IntoPacket, HandshakeItem, ProtocolTypeOK, Phase, Stopped
  <2>2. QED
    BY <1>3, <1>4, <2>1 DEF SendConnectionRequest, IntoPacket, HandshakeItem, ProtocolTypeOK, ClientTypeOK
<1>5. CASE peer # NoPeer
  <2>1. peer.sequence \in Sequence /\ peer.remoteAck \in Ack
    BY <1>2, <1>5 DEF ClientTypeOK, Endpoint, Peer
  <2>2. p \in Packet
    <3>1. 0 \in FragmentByte /\ 1 \in FragmentByte /\ 0 \in PacketId
          /\ 0 \in 0 .. ConnectionIdLimit
      BY WidthAssumption DEF FragmentByte, PacketId
    <3>2. "ConnectionRequest" \in Kind /\ c \in Endpoint /\ s \in Endpoint
      BY <1>2 DEF Kind, Endpoint
    <3> HIDE DEF peer, s
    <3>3. QED
      BY <2>1, <3>1, <3>2, MadePacket
  <2>3. SendRequest(c, p, sentRequest[c], "send")
    BY <1>5 DEF SendConnectionRequest, IntoPacket, HandshakeItem
  <2>4. sentRequest[c] \in Seq(Sent) /\ "send" \in Phase
    BY DEF ClientTypeOK, Phase
  <2> HIDE DEF p
  <2>5. /\ network' \subseteq Packet
        /\ phase' \in [Endpoint -> Phase]
        /\ requesting' \in [Clients -> [Endpoint -> Peer \cup {NoPeer}]]
        /\ awaiting' \in [Clients -> [Endpoint -> Peer \cup {NoPeer}]]
        /\ sentRequest' \in [Clients -> Seq(Sent)]
    BY <2>2, <2>3, <2>4, SendRequestType
  <2>6. QED
    BY <1>3, <2>5 DEF SendConnectionRequest, IntoPacket, HandshakeItem, ProtocolTypeOK, ClientTypeOK
<1>6. QED
  BY <1>4, <1>5

\* The client's connected map, an awaiting peer added, is such a map.
LEMMA PromotedType ==
  ASSUME ProtocolTypeOK, ClientTypeOK, NEW c \in Clients, NEW id,
         NEW s \in Endpoint
  PROVE  Promoted(c, id, s) \in [ConnectionId -> Peer \cup {NoPeer}]
<1>1. awaiting[c][s] \in Peer \cup {NoPeer}
  BY DEF ClientTypeOK
<1>2. connected[c] \in [ConnectionId -> Peer \cup {NoPeer}]
  BY DEF ProtocolTypeOK, Endpoint
<1>3. QED
  BY <1>1, <1>2 DEF Promoted

\* Removing an address keeps the awaiting map one.
LEMMA NoLongerAwaitingType ==
  ASSUME ClientTypeOK, NEW c \in Clients, NEW s, NoLongerAwaiting(c, s)
  PROVE  awaiting' \in [Clients -> [Endpoint -> Peer \cup {NoPeer}]]
BY DEF ClientTypeOK, NoLongerAwaiting

\* The client's poll_retry_data_transfer keeps the types.
LEMMA ClientRetryType ==
  ASSUME ProtocolTypeOK, ClientTypeOK, NEW c \in Clients,
         ClientRetryDataTransfer(c)
  PROVE  ProtocolTypeOK' /\ ClientTypeOK'
<1> DEFINE list == sent[c]["DataTransfer"]
           p == Last(list).packet
<1>1. c \in Endpoint /\ "DataTransfer" \in SentKind /\ "send" \in Phase
  BY DEF Endpoint, SentKind, Phase
<1>2. CASE Overdue(c, list)
  <2>1. list # <<>> /\ list \in Seq(Sent)
    BY <1>1, <1>2 DEF Overdue, ProtocolTypeOK
  <2>2. p \in Packet
    BY <2>1, LastType DEF Sent
  <2>3. p.dst \in Endpoint
    BY <2>2, PacketFields
  <2>4. /\ Resend(c, "DataTransfer", Promoted(c, p.id, p.dst), "send")
        /\ NoLongerAwaiting(c, p.dst)
        /\ UNCHANGED <<requesting, scheduledRequest, sentRequest>>
    BY <1>2 DEF ClientRetryDataTransfer
  <2>5. ProtocolTypeOK'
    BY <1>1, <2>1, <2>3, <2>4, ResendType, PromotedType
  <2>6. QED
    BY <2>4, <2>5, NoLongerAwaitingType DEF ClientTypeOK
<1>3. CASE ~Overdue(c, list)
  BY <1>1, <1>3, ForgetType DEF ClientRetryDataTransfer, ClientTypeOK
<1>4. QED
  BY <1>2, <1>3

\* A round of one of the client's poll_* loops keeps the types.
LEMMA ClientSendType ==
  ASSUME ProtocolTypeOK, ClientTypeOK, NEW c \in Clients, NEW q \in Queue,
         ClientSend(c, q)
  PROVE  ProtocolTypeOK' /\ ClientTypeOK'
<1> DEFINE item == Head(scheduled[c][q])
<1>1. c \in Endpoint
  BY DEF Endpoint
<1>2. scheduled[c][q] # <<>> /\ scheduled[c][q] \in Seq(Scheduled)
  BY <1>1 DEF ClientSend, SendScheduled, NextInLine, ProtocolTypeOK
<1>3. item.address \in Endpoint
  <2>1. item \in Scheduled
    BY <1>2, TailType
  <2>2. QED
    BY <2>1 DEF Scheduled
<1>4. ProtocolTypeOK'
  <2>1. SendScheduled(c, q, Promoted(c, item.id, item.address))
    BY DEF ClientSend
  <2>2. Promoted(c, item.id, item.address) \in [ConnectionId -> Peer \cup {NoPeer}]
    BY <1>3, PromotedType
  <2>3. QED
    BY <1>1, <2>1, <2>2, SendScheduledType
<1>5. awaiting' \in [Clients -> [Endpoint -> Peer \cup {NoPeer}]]
  BY NoLongerAwaitingType DEF ClientSend, ClientTypeOK
<1>6. QED
  BY <1>4, <1>5 DEF ClientSend, ClientTypeOK

\* What an arm of on_received changes is well formed.
LEMMA EstablishType ==
  ASSUME ProtocolTypeOK, ClientTypeOK, NEW c \in Clients, NEW p \in Packet,
         awaiting[c][p.src] # NoPeer, Establish(c, p)
  PROVE  /\ connected' \in [Endpoint -> [ConnectionId -> Peer \cup {NoPeer}]]
         /\ awaiting' \in [Clients -> [Endpoint -> Peer \cup {NoPeer}]]
<1>1. awaiting[c][p.src] \in Peer
  BY PacketFields DEF ClientTypeOK
<1>2. Acked(awaiting[c][p.src], p) \in Peer
  BY <1>1, AckedType
<1>3. QED
  BY <1>2, NoLongerAwaitingType DEF Establish, ProtocolTypeOK

\* Acking a connected peer keeps the connected map one.
LEMMA AckConnectedType ==
  ASSUME ProtocolTypeOK, ClientTypeOK, NEW c \in Clients, NEW p \in Packet,
         p.kind # "ConnectionRequest", connected[c][p.id] # NoPeer,
         AckConnected(c, p)
  PROVE  connected' \in [Endpoint -> [ConnectionId -> Peer \cup {NoPeer}]]
<1>1. p.id \in ConnectionId /\ c \in Endpoint
  BY PacketFields DEF Endpoint
<1>2. connected[c][p.id] \in Peer
  BY <1>1 DEF ProtocolTypeOK
<1>3. Acked(connected[c][p.id], p) \in Peer
  BY <1>2, AckedType
<1>4. QED
  BY <1>1, <1>3 DEF AckConnected, ProtocolTypeOK

\* An Err of on_received changes only the events, and they stay events.
LEMMA RefuseType ==
  ASSUME ProtocolTypeOK, ClientTypeOK, NEW c \in Clients, NEW p \in Packet,
         NEW error \in Error, Refuse(c, p, error)
  PROVE  /\ UNCHANGED <<connected, reassembler, awaiting>>
         /\ api' \in [Endpoint -> Seq(Event)]
<1>1. Fail(error, p) \in Event /\ c \in Endpoint
  BY FailType DEF Endpoint
<1>2. QED
  BY <1>1, PushType DEF Refuse

\* Client::on_received keeps the types, whatever packet arrives.
LEMMA ClientOnReceivedType ==
  ASSUME ProtocolTypeOK, ClientTypeOK, NEW c \in Clients, NEW p \in network,
         Returns(c), ClientOnReceived(c, p),
         UNCHANGED <<network, clock, scheduled, sent>>
  PROVE  ProtocolTypeOK' /\ ClientTypeOK'
<1> DEFINE Fine ==
      /\ connected' \in [Endpoint -> [ConnectionId -> Peer \cup {NoPeer}]]
      /\ reassembler' \in [Endpoint -> [ConnectionId -> [Sequence -> Seq(Received)]]]
      /\ api' \in [Endpoint -> Seq(Event)]
      /\ awaiting' \in [Clients -> [Endpoint -> Peer \cup {NoPeer}]]
<1>1. p \in Packet /\ c \in Endpoint
  BY DEF ProtocolTypeOK, Endpoint
<1>2. /\ connected \in [Endpoint -> [ConnectionId -> Peer \cup {NoPeer}]]
      /\ reassembler \in [Endpoint -> [ConnectionId -> [Sequence -> Seq(Received)]]]
      /\ api \in [Endpoint -> Seq(Event)]
      /\ awaiting \in [Clients -> [Endpoint -> Peer \cup {NoPeer}]]
  BY DEF ProtocolTypeOK, ClientTypeOK
<1>3. Error = {"PeerInAnotherState", "NoPeersConnected", "InvalidPacketType"}
  BY DEF Error
<1>4. CASE p.kind = "ConnectionRequest"
  <2>1. Refuse(c, p, "InvalidPacketType")
    BY <1>4 DEF ClientOnReceived
  <2>2. Fine
    BY <1>1, <1>2, <1>3, <2>1, RefuseType
  <2>3. QED
    BY <2>2 DEF ClientOnReceived, Returns, ProtocolTypeOK, ClientTypeOK, Phase
<1>5. CASE p.kind = "ConnectionAccepted"
  <2>1. OnConnectionAccepted(c, p)
    BY <1>5 DEF ClientOnReceived
  <2>2. Fine
    BY <1>1, <1>2, <1>3, <2>1, RefuseType, EstablishType DEF OnConnectionAccepted
  <2>3. QED
    BY <2>2 DEF ClientOnReceived, Returns, ProtocolTypeOK, ClientTypeOK, Phase
<1>6. CASE p.kind = "DataTransfer"
  <2>1. OnDataTransfer(c, p)
    BY <1>6 DEF ClientOnReceived
  <2>2. Fine
    BY <1>1, <1>2, <1>6, <2>1, EstablishType, AckConnectedType, PushType,
       DeliveredType
    DEF OnDataTransfer, AckConnected
  <2>3. QED
    BY <2>2 DEF ClientOnReceived, Returns, ProtocolTypeOK, ClientTypeOK, Phase
<1>7. CASE p.kind = "Fragment"
  <2>1. OnFragment(c, p)
    BY <1>7 DEF ClientOnReceived
  <2>2. Fine
    BY <1>1, <1>2, <1>3, <1>7, <2>1, RefuseType, AckConnectedType, ReassembleType
    DEF OnFragment, AckConnected
  <2>3. QED
    BY <2>2 DEF ClientOnReceived, Returns, ProtocolTypeOK, ClientTypeOK, Phase
<1>8. CASE p.kind = "Heartbeat"
  <2>1. OnHeartbeat(c, p)
    BY <1>8 DEF ClientOnReceived
  <2>2. Fine
    BY <1>1, <1>2, <1>8, <2>1, EstablishType, AckConnectedType
    DEF OnHeartbeat, AckConnected
  <2>3. QED
    BY <2>2 DEF ClientOnReceived, Returns, ProtocolTypeOK, ClientTypeOK, Phase
<1>9. p.kind \in Kind
  BY <1>1, PacketFields
<1>10. QED
  BY <1>4, <1>5, <1>6, <1>7, <1>8, <1>9 DEF Kind

\* So does a packet that arrives over the network.
LEMMA ClientReceiveType ==
  ASSUME ProtocolTypeOK, ClientTypeOK, NEW c \in Clients, NEW p \in network,
         ClientReceive(c, p)
  PROVE  ProtocolTypeOK' /\ ClientTypeOK'
BY ClientOnReceivedType DEF ClientReceive, Receives

\* Protocol<Client>::poll keeps the types.
LEMMA ClientPollType ==
  ASSUME ProtocolTypeOK, ClientTypeOK, NEW c \in Clients, ClientPoll(c)
  PROVE  ProtocolTypeOK' /\ ClientTypeOK'
<1>1. ProtocolTypeOK'
  BY PollHandlerType DEF ClientPoll, ProtocolTypeOK, Endpoint
<1>2. sentRequest' \in [Clients -> Seq(Sent)]
  BY TailType DEF ClientPoll, WithoutFirst, ClientTypeOK
<1>3. QED
  BY <1>1, <1>2 DEF ClientPoll, ClientTypeOK

\* Every step of a client keeps the types.
LEMMA ClientNextType ==
  ASSUME ProtocolTypeOK, ClientTypeOK, NEW c \in Clients, ClientNext(c)
  PROVE  ProtocolTypeOK' /\ ClientTypeOK'
<1>1. CASE \E s \in Servers : Connect(c, s)
  BY <1>1, ConnectType
<1>2. CASE ClientPolls(c)
  BY <1>2, RetryConnectionRequestType, ClientRetryType,
     SendConnectionRequestType, ClientSendType, ClientPollType
  DEF ClientPolls
<1>3. CASE \E p \in network : ClientReceive(c, p)
  BY <1>3, ClientReceiveType
<1>4. CASE (Schedule(c) \/ Heartbeat(c) \/ Tick(c)) /\ UNCHANGED clientVars
  <2>1. ProtocolTypeOK'
    BY <1>4, CallType, TickType DEF Endpoint
  <2>2. QED
    BY <1>4, <2>1 DEF clientVars, ClientTypeOK
<1>5. QED
  BY <1>1, <1>2, <1>3, <1>4 DEF ClientNext

-----------------------------------------------------------------------------
(***************************************************************************)
(* The server.                                                             *)
(***************************************************************************)

\* sent_connection_accepted keeps the types.
LEMMA SendAcceptedType ==
  ASSUME ProtocolTypeOK, ServerTypeOK, NEW s \in Servers, NEW p \in Packet,
         NEW sents \in Seq(Sent), NEW next \in Phase,
         SendAccepted(s, p, sents, next)
  PROVE  /\ network' \subseteq Packet
         /\ phase' \in [Endpoint -> Phase]
         /\ awaitingAck' \in [Servers -> [ConnectionId -> Peer \cup {NoPeer}]]
         /\ sentAccepted' \in [Servers -> Seq(Sent)]
<1> DEFINE peer == awaitingAck[s][p.id]
<1>1. network' \subseteq Packet
  BY DEF SendAccepted, ProtocolTypeOK
<1>2. CASE peer # NoPeer /\ peer.sequence = SequenceLimit
  <2>1. phase' \in [Endpoint -> Phase]
    BY <1>2 DEF SendAccepted, ProtocolTypeOK, Phase, Stopped
  <2>2. QED
    BY <1>1, <1>2, <2>1 DEF SendAccepted, ServerTypeOK
<1>3. CASE ~(peer # NoPeer /\ peer.sequence = SequenceLimit)
  <2>1. /\ phase' = [phase EXCEPT ![s] = next]
        /\ awaitingAck' = IF peer = NoPeer THEN awaitingAck
                          ELSE [awaitingAck EXCEPT ![s][p.id].sequence = @ + 1]
        /\ sentAccepted' =
             [sentAccepted EXCEPT ![s] =
                Append(sents, [packet |-> p, time |-> clock[s]])]
    BY <1>3 DEF SendAccepted
  <2>2. phase' \in [Endpoint -> Phase]
    BY <2>1 DEF ProtocolTypeOK
  <2>3. awaitingAck' \in [Servers -> [ConnectionId -> Peer \cup {NoPeer}]]
    <3>1. CASE peer # NoPeer /\ p.id \in ConnectionId
      <4>1. peer \in Peer /\ peer.sequence # SequenceLimit
        BY <1>3, <3>1 DEF ServerTypeOK
      <4>2. [peer EXCEPT !.sequence = @ + 1] \in Peer
        BY <4>1, NextSequenceType
      <4>3. awaitingAck' = [awaitingAck EXCEPT ![s][p.id] =
                              [peer EXCEPT !.sequence = @ + 1]]
        BY <2>1, <3>1
      <4>4. QED
        BY <3>1, <4>2, <4>3 DEF ServerTypeOK
    <3>2. CASE peer = NoPeer
      BY <2>1, <3>2 DEF ServerTypeOK
    <3>3. CASE p.id \notin ConnectionId
      BY <2>1, <3>3 DEF ServerTypeOK
    <3>4. QED
      BY <3>1, <3>2, <3>3
  <2>4. sentAccepted' \in [Servers -> Seq(Sent)]
    <3>1. [packet |-> p, time |-> clock[s]] \in Sent
      BY DEF Sent, ProtocolTypeOK, Endpoint
    <3>2. Append(sents, [packet |-> p, time |-> clock[s]]) \in Seq(Sent)
      BY <3>1
    <3>3. QED
      BY <2>1, <3>2 DEF ServerTypeOK
  <2>5. QED
    BY <1>1, <2>2, <2>3, <2>4
<1>4. QED
  BY <1>2, <1>3

\* poll_retry_connection_accepted keeps the types.
LEMMA RetryConnectionAcceptedType ==
  ASSUME ProtocolTypeOK, ServerTypeOK, NEW s \in Servers,
         RetryConnectionAccepted(s)
  PROVE  ProtocolTypeOK' /\ ServerTypeOK'
<1>1. sentAccepted[s] \in Seq(Sent) /\ Front(sentAccepted[s]) \in Seq(Sent)
  BY FrontType DEF ServerTypeOK
<1>2. "retryData" \in Phase
  BY DEF Phase
<1>3. CASE Overdue(s, sentAccepted[s])
  <2>1. Last(sentAccepted[s]).packet \in Packet
    BY <1>1, <1>3, LastType DEF Overdue, Sent
  <2>2. QED
    BY <1>1, <1>2, <1>3, <2>1, SendAcceptedType
    DEF RetryConnectionAccepted, ProtocolTypeOK, ServerTypeOK
<1>4. CASE ~Overdue(s, sentAccepted[s])
  BY <1>1, <1>2, <1>4 DEF RetryConnectionAccepted, ProtocolTypeOK, ServerTypeOK
<1>5. QED
  BY <1>3, <1>4

\* poll_connection_accepted keeps the types.
LEMMA SendConnectionAcceptedType ==
  ASSUME ProtocolTypeOK, ServerTypeOK, NEW s \in Servers,
         SendConnectionAccepted(s)
  PROVE  ProtocolTypeOK' /\ ServerTypeOK'
<1> DEFINE item == Head(scheduledAccepted[s])
           peer == awaitingAck[s][item.id]
           p == [kind |-> "ConnectionAccepted", src |-> s, dst |-> item.address,
                 sequence |-> peer.sequence, ack |-> peer.remoteAck,
                 id |-> item.id, packetId |-> 0, index |-> 0, total |-> 1]
<1>1. scheduledAccepted[s] \in Seq(ScheduledAccepted) /\ scheduledAccepted[s] # <<>>
  BY DEF SendConnectionAccepted, IntoPacket, HandshakeItem, ServerTypeOK
<1>2. item \in ScheduledAccepted /\ Tail(scheduledAccepted[s]) \in Seq(ScheduledAccepted)
  BY <1>1, TailType
<1>3. scheduledAccepted' \in [Servers -> Seq(ScheduledAccepted)]
  BY <1>2 DEF SendConnectionAccepted, IntoPacket, HandshakeItem, ServerTypeOK
<1>4. CASE peer = NoPeer
  <2>1. phase' \in [Endpoint -> Phase]
    BY <1>4 DEF SendConnectionAccepted, IntoPacket, HandshakeItem, ProtocolTypeOK, Phase, Stopped
  <2>2. QED
    BY <1>3, <1>4, <2>1 DEF SendConnectionAccepted, IntoPacket, HandshakeItem, ProtocolTypeOK, ServerTypeOK
<1>5. CASE peer # NoPeer
  <2>1. item.id \in ConnectionId /\ item.address \in Endpoint
    BY <1>2 DEF ScheduledAccepted
  <2>2. peer \in Peer
    BY <1>5, <2>1 DEF ServerTypeOK
  <2>3. peer.sequence \in Sequence /\ peer.remoteAck \in Ack
    BY <2>2 DEF Peer
  <2>4. p \in Packet
    <3>1. 0 \in FragmentByte /\ 1 \in FragmentByte /\ 0 \in PacketId
          /\ item.id \in 0 .. ConnectionIdLimit /\ item.id # 0
      BY <2>1, WidthAssumption DEF FragmentByte, PacketId, ConnectionId
    <3>2. "ConnectionAccepted" \in Kind /\ s \in Endpoint
      BY DEF Kind, Endpoint
    <3> HIDE DEF peer, item
    <3>3. QED
      BY <2>1, <2>3, <3>1, <3>2, MadePacket
  <2>5. SendAccepted(s, p, sentAccepted[s], "send")
    BY <1>5 DEF SendConnectionAccepted, IntoPacket, HandshakeItem
  <2>6. sentAccepted[s] \in Seq(Sent) /\ "send" \in Phase
    BY DEF ServerTypeOK, Phase
  <2> HIDE DEF p
  <2>7. /\ network' \subseteq Packet
        /\ phase' \in [Endpoint -> Phase]
        /\ awaitingAck' \in [Servers -> [ConnectionId -> Peer \cup {NoPeer}]]
        /\ sentAccepted' \in [Servers -> Seq(Sent)]
    BY <2>4, <2>5, <2>6, SendAcceptedType
  <2>8. QED
    BY <1>3, <2>7 DEF SendConnectionAccepted, IntoPacket, HandshakeItem, ProtocolTypeOK, ServerTypeOK
<1>6. QED
  BY <1>4, <1>5

\* The server's poll_retry_data_transfer and poll_retry_fragment keep the
\* types.
LEMMA RetrySentType ==
  ASSUME ProtocolTypeOK, ServerTypeOK, NEW s \in Servers,
         NEW kind \in SentKind, NEW now \in Phase, NEW next \in Phase,
         RetrySent(s, kind, now, next)
  PROVE  ProtocolTypeOK' /\ ServerTypeOK'
<1>1. s \in Endpoint /\ connected[s] \in [ConnectionId -> Peer \cup {NoPeer}]
  BY DEF Endpoint, ProtocolTypeOK
<1>2. ProtocolTypeOK'
  <2>1. CASE Overdue(s, sent[s][kind])
    <3>1. sent[s][kind] # <<>> /\ Resend(s, kind, connected[s], next)
      BY <2>1 DEF RetrySent, Overdue
    <3>2. QED
      BY <1>1, <3>1, ResendType
  <2>2. CASE ~Overdue(s, sent[s][kind])
    BY <1>1, <2>2, ForgetType DEF RetrySent
  <2>3. QED
    BY <2>1, <2>2
<1>3. QED
  BY <1>2 DEF RetrySent, serverVars, ServerTypeOK

\* A round of one of the server's poll_* loops keeps the types.
LEMMA ServerSendType ==
  ASSUME ProtocolTypeOK, ServerTypeOK, NEW s \in Servers, NEW q \in Queue,
         ServerSend(s, q)
  PROVE  ProtocolTypeOK' /\ ServerTypeOK'
<1>1. s \in Endpoint /\ connected[s] \in [ConnectionId -> Peer \cup {NoPeer}]
  BY DEF Endpoint, ProtocolTypeOK
<1>2. ProtocolTypeOK'
  BY <1>1, SendScheduledType DEF ServerSend
<1>3. QED
  BY <1>2 DEF ServerSend, serverVars, ServerTypeOK

\* What an arm of on_received changes is well formed.
LEMMA RefusedType ==
  ASSUME ProtocolTypeOK, ServerTypeOK, NEW s \in Servers, NEW p \in Packet,
         NEW error \in Error, Refused(s, p, error)
  PROVE  /\ UNCHANGED <<packetIdTracker, connected, reassembler, awaitingAck,
                        connectionIdTracker, scheduledAccepted>>
         /\ api' \in [Endpoint -> Seq(Event)]
         /\ phase' \in [Endpoint -> Phase]
<1>1. Fail(error, p) \in Event /\ s \in Endpoint
  BY FailType DEF Endpoint
<1>2. api' \in [Endpoint -> Seq(Event)]
  BY <1>1, PushType DEF Refused
<1>3. phase' \in [Endpoint -> Phase]
  BY DEF Refused, Returns, Phase, ProtocolTypeOK
<1>4. QED
  BY <1>2, <1>3 DEF Refused

\* Acking a peer, and connecting it, keeps both maps of the server.
LEMMA AckPeerType ==
  ASSUME ProtocolTypeOK, ServerTypeOK, NEW s \in Servers, NEW p \in Packet,
         p.kind # "ConnectionRequest", KnownId(s, p.id), AckPeer(s, p)
  PROVE  /\ connected' \in [Endpoint -> [ConnectionId -> Peer \cup {NoPeer}]]
         /\ awaitingAck' \in [Servers -> [ConnectionId -> Peer \cup {NoPeer}]]
         /\ phase' \in [Endpoint -> Phase]
         /\ UNCHANGED <<packetIdTracker, connectionIdTracker, scheduledAccepted>>
<1> DEFINE peer == IF connected[s][p.id] # NoPeer THEN connected[s][p.id]
                   ELSE awaitingAck[s][p.id]
<1>1. p.id \in ConnectionId /\ s \in Endpoint
  BY PacketFields DEF Endpoint
<1>2. peer \in Peer
  BY <1>1 DEF KnownId, ProtocolTypeOK, ServerTypeOK
<1>3. Acked(peer, p) \in Peer
  BY <1>2, AckedType
<1>4. connected' = [connected EXCEPT ![s][p.id] = Acked(peer, p)]
  BY <1>1 DEF AckPeer, ProtocolTypeOK
<1> HIDE DEF peer
<1>5. connected' \in [Endpoint -> [ConnectionId -> Peer \cup {NoPeer}]]
  BY <1>1, <1>3, <1>4 DEF ProtocolTypeOK
<1>6. awaitingAck' \in [Servers -> [ConnectionId -> Peer \cup {NoPeer}]]
  BY DEF AckPeer, ServerTypeOK
<1>7. phase' \in [Endpoint -> Phase]
  BY DEF AckPeer, Returns, Phase, ProtocolTypeOK
<1>8. QED
  BY <1>5, <1>6, <1>7 DEF AckPeer

\* Granting a connection id, or refusing one, keeps the types.
LEMMA OnConnectionRequestType ==
  ASSUME ProtocolTypeOK, ServerTypeOK, NEW s \in Servers, NEW p \in Packet,
         OnConnectionRequest(s, p), UNCHANGED <<network, clock, scheduled, sent>>,
         UNCHANGED sentAccepted
  PROVE  ProtocolTypeOK' /\ ServerTypeOK'
<1> DEFINE id == connectionIdTracker[s]
<1>1. CASE ConnectionRequestAnotherState(s, p.src)
  <2>1. Refused(s, p, "PeerInAnotherState")
    BY <1>1 DEF OnConnectionRequest
  <2>2. QED
    BY <2>1, RefusedType DEF Error, ProtocolTypeOK, ServerTypeOK
<1>2. CASE ~ConnectionRequestAnotherState(s, p.src) /\ id = ConnectionIdLimit
  <2>1. phase' \in [Endpoint -> Phase]
    BY <1>2 DEF OnConnectionRequest, ProtocolTypeOK, Phase, Stopped
  <2>2. QED
    BY <1>2, <2>1 DEF OnConnectionRequest, ProtocolTypeOK, ServerTypeOK
<1>3. CASE ~ConnectionRequestAnotherState(s, p.src) /\ id # ConnectionIdLimit
  <2>1. id \in ConnectionId /\ id + 1 \in ConnectionId
    BY <1>3, WidthAssumption DEF ServerTypeOK, ConnectionId
  <2>2. p.src \in Endpoint /\ p.sequence \in Ack /\ s \in Endpoint
    BY PacketFields, WidthAssumption DEF Sequence, Ack, Endpoint
  <2>3. NewPeer(p.src, p.sequence) \in Peer
    BY <2>2, NewPeerType
  <2>4. [id |-> id, address |-> p.src] \in ScheduledAccepted
    BY <2>1, <2>2 DEF ScheduledAccepted
  <2>5. phase' \in [Endpoint -> Phase]
    BY <1>3 DEF OnConnectionRequest, Returns, Phase, ProtocolTypeOK
  <2>6. connectionIdTracker' \in [Servers -> ConnectionId]
    BY <1>3, <2>1 DEF OnConnectionRequest, ServerTypeOK
  <2>7. scheduledAccepted' \in [Servers -> Seq(ScheduledAccepted)]
    <3> DEFINE item == [id |-> id, address |-> p.src]
    <3>1. scheduledAccepted' = [scheduledAccepted EXCEPT ![s] = Append(@, item)]
      BY <1>3 DEF OnConnectionRequest
    <3>2. item \in ScheduledAccepted
      BY <2>4
    <3> HIDE DEF item
    <3>3. QED
      BY <3>1, <3>2 DEF ServerTypeOK
  <2>8. awaitingAck' \in [Servers -> [ConnectionId -> Peer \cup {NoPeer}]]
    <3> DEFINE peer == NewPeer(p.src, p.sequence)
    <3>1. awaitingAck' = [awaitingAck EXCEPT ![s][id] = peer]
      BY <1>3 DEF OnConnectionRequest
    <3>2. peer \in Peer
      BY <2>3
    <3> HIDE DEF peer, id
    <3>3. QED
      BY <3>1, <3>2 DEF ServerTypeOK
  <2>9. packetIdTracker' \in [Endpoint -> PacketId]
    BY <1>3 DEF OnConnectionRequest, ProtocolTypeOK, PacketId
  <2>10. UNCHANGED <<connected, reassembler, api>>
    BY <1>3 DEF OnConnectionRequest
  <2>11. QED
    BY <2>5, <2>6, <2>7, <2>8, <2>9, <2>10 DEF ProtocolTypeOK, ServerTypeOK
<1>4. QED
  BY <1>1, <1>2, <1>3

\* Server::on_received keeps the types, whatever packet arrives.
LEMMA ServerOnReceivedType ==
  ASSUME ProtocolTypeOK, ServerTypeOK, NEW s \in Servers, NEW p \in network,
         ServerOnReceived(s, p), UNCHANGED <<network, clock, scheduled, sent>>
  PROVE  ProtocolTypeOK' /\ ServerTypeOK'
<1>1. p \in Packet /\ s \in Endpoint
  BY DEF ProtocolTypeOK, Endpoint
<1>2. /\ UNCHANGED <<network, clock, scheduled, sent>>
      /\ UNCHANGED sentAccepted
  BY DEF ServerOnReceived
<1>3. Error = {"PeerInAnotherState", "NoPeersConnected", "InvalidPacketType"}
  BY DEF Error
<1>4. CASE p.kind = "ConnectionRequest"
  BY <1>1, <1>2, <1>4, OnConnectionRequestType DEF ServerOnReceived
<1>5. CASE p.kind = "ConnectionAccepted"
  <2>1. Refused(s, p, "InvalidPacketType")
    BY <1>5 DEF ServerOnReceived
  <2>2. QED
    BY <1>1, <1>2, <1>3, <2>1, RefusedType DEF ProtocolTypeOK, ServerTypeOK
<1>6. CASE p.kind = "DataTransfer"
  <2>1. ServerOnDataTransfer(s, p)
    BY <1>6 DEF ServerOnReceived
  <2>2. CASE KnownId(s, p.id)
    <3>1. AckPeer(s, p) /\ UNCHANGED reassembler
      BY <2>1, <2>2 DEF ServerOnDataTransfer
    <3>2. DataTransferEvent(p.id, <<PartOf(p)>>) \in Event
      BY <1>1, <1>6, DeliveredType
    <3>3. api' \in [Endpoint -> Seq(Event)]
      BY <1>1, <2>1, <2>2, <3>2, PushType DEF ServerOnDataTransfer
    <3>4. QED
      BY <1>1, <1>2, <1>6, <2>2, <3>1, <3>3, AckPeerType
      DEF ProtocolTypeOK, ServerTypeOK
  <2>3. CASE ~KnownId(s, p.id)
    <3>1. Refused(s, p, "NoPeersConnected")
      BY <2>1, <2>3 DEF ServerOnDataTransfer
    <3>2. QED
      BY <1>1, <1>2, <1>3, <3>1, RefusedType DEF ProtocolTypeOK, ServerTypeOK
  <2>4. QED
    BY <2>2, <2>3
<1>7. CASE p.kind = "Fragment"
  <2>1. ServerOnFragment(s, p)
    BY <1>7 DEF ServerOnReceived
  <2>2. CASE KnownId(s, p.id)
    <3>1. AckPeer(s, p) /\ Reassemble(s, p)
      BY <2>1, <2>2 DEF ServerOnFragment
    <3>2. QED
      BY <1>1, <1>2, <1>7, <2>2, <3>1, AckPeerType, ReassembleType
      DEF ProtocolTypeOK, ServerTypeOK
  <2>3. CASE ~KnownId(s, p.id)
    <3>1. Refused(s, p, "NoPeersConnected")
      BY <2>1, <2>3 DEF ServerOnFragment
    <3>2. QED
      BY <1>1, <1>2, <1>3, <3>1, RefusedType DEF ProtocolTypeOK, ServerTypeOK
  <2>4. QED
    BY <2>2, <2>3
<1>8. CASE p.kind = "Heartbeat"
  <2>1. ServerOnHeartbeat(s, p)
    BY <1>8 DEF ServerOnReceived
  <2>2. CASE KnownId(s, p.id)
    <3>1. AckPeer(s, p) /\ UNCHANGED <<reassembler, api>>
      BY <2>1, <2>2 DEF ServerOnHeartbeat
    <3>2. QED
      BY <1>1, <1>2, <1>8, <2>2, <3>1, AckPeerType DEF ProtocolTypeOK, ServerTypeOK
  <2>3. CASE ~KnownId(s, p.id)
    <3>1. phase' \in [Endpoint -> Phase]
      BY <2>1, <2>3 DEF ServerOnHeartbeat, Returns, Phase, ProtocolTypeOK
    <3>2. QED
      BY <1>2, <2>1, <2>3, <3>1 DEF ServerOnHeartbeat, ProtocolTypeOK, ServerTypeOK
  <2>4. QED
    BY <2>2, <2>3
<1>9. p.kind \in Kind
  BY <1>1, PacketFields
<1>10. QED
  BY <1>4, <1>5, <1>6, <1>7, <1>8, <1>9 DEF Kind

\* So does a packet that arrives over the network.
LEMMA ServerReceiveType ==
  ASSUME ProtocolTypeOK, ServerTypeOK, NEW s \in Servers, NEW p \in network,
         ServerReceive(s, p)
  PROVE  ProtocolTypeOK' /\ ServerTypeOK'
BY ServerOnReceivedType DEF ServerReceive, Receives

\* Protocol<Server>::poll keeps the types, whatever lines it drops.
LEMMA ServerPollType ==
  ASSUME ProtocolTypeOK, ServerTypeOK, NEW s \in Servers, ServerPoll(s)
  PROVE  ProtocolTypeOK' /\ ServerTypeOK'
<1>1. s \in Endpoint
  BY DEF Endpoint
<1>2. reassembler' \in [Endpoint -> [ConnectionId -> [Sequence -> Seq(Received)]]]
  <2>1. PICK drop \in Drops(s) :
          reassembler' = [reassembler EXCEPT ![s] =
                            [id \in ConnectionId |->
                               [n \in Sequence |->
                                  IF n = drop[id] THEN <<>> ELSE @[id][n]]]]
    BY DEF ServerPoll
  <2>2. \A id \in ConnectionId, n \in Sequence : reassembler[s][id][n] \in Seq(Received)
    BY <1>1 DEF ProtocolTypeOK
  <2>3. [id \in ConnectionId |->
           [n \in Sequence |->
              IF n = drop[id] THEN <<>> ELSE reassembler[s][id][n]]]
          \in [ConnectionId -> [Sequence -> Seq(Received)]]
    BY <2>2
  <2>4. QED
    BY <1>1, <2>1, <2>3 DEF ProtocolTypeOK
<1>3. ProtocolTypeOK'
  BY <1>1, <1>2, PollHandlerType DEF ServerPoll
<1>4. sentAccepted' \in [Servers -> Seq(Sent)]
  BY TailType DEF ServerPoll, WithoutFirst, ServerTypeOK
<1>5. QED
  BY <1>3, <1>4 DEF ServerPoll, ServerTypeOK

\* Every step of a server keeps the types.
LEMMA ServerNextType ==
  ASSUME ProtocolTypeOK, ServerTypeOK, NEW s \in Servers, ServerNext(s)
  PROVE  ProtocolTypeOK' /\ ServerTypeOK'
<1>1. CASE ServerPolls(s)
  <2>1. \A kind \in SentKind, now, next \in Phase :
          RetrySent(s, kind, now, next) => ProtocolTypeOK' /\ ServerTypeOK'
    BY RetrySentType
  <2>2. /\ {"DataTransfer", "Fragment"} \subseteq SentKind
        /\ {"retryData", "retryFragment", "send"} \subseteq Phase
    BY DEF SentKind, Phase
  <2>3. CASE ServerRetryDataTransfer(s) \/ ServerRetryFragment(s)
    BY <2>1, <2>2, <2>3 DEF ServerRetryDataTransfer, ServerRetryFragment
  <2>4. QED
    BY <1>1, <2>3, RetryConnectionAcceptedType, SendConnectionAcceptedType,
       ServerSendType, ServerPollType
    DEF ServerPolls
<1>2. CASE \E p \in network : ServerReceive(s, p)
  BY <1>2, ServerReceiveType
<1>3. CASE (Schedule(s) \/ Heartbeat(s) \/ Tick(s)) /\ UNCHANGED serverVars
  <2>1. ProtocolTypeOK'
    BY <1>3, CallType, TickType DEF Endpoint
  <2>2. QED
    BY <1>3, <2>1 DEF serverVars, ServerTypeOK
<1>4. QED
  BY <1>1, <1>2, <1>3 DEF ServerNext

-----------------------------------------------------------------------------
(***************************************************************************)
(* Clients and servers together.                                           *)
(***************************************************************************)

\* Everything an endpoint holds is empty, absent or zero at first.
LEMMA InitType == Init => TypeOK
<1> SUFFICES ASSUME Init PROVE TypeOK
  OBVIOUS
<1>1. ProtocolTypeOK
  BY DEF Init, ProtocolInit, ProtocolTypeOK, Phase, PacketId
<1>2. ClientTypeOK
  BY DEF Init, ClientInit, ClientTypeOK
<1>3. ServerTypeOK
  BY WidthAssumption DEF Init, ServerInit, ServerTypeOK, ConnectionId
<1>4. QED
  BY <1>1, <1>2, <1>3 DEF TypeOK

\* TypeOK is inductive.
LEMMA NextType == TypeOK /\ [Next]_vars => TypeOK'
<1> SUFFICES ASSUME TypeOK, [Next]_vars PROVE TypeOK'
  OBVIOUS
<1>1. ASSUME NEW c \in Clients, ClientNext(c), UNCHANGED serverVars
      PROVE  TypeOK'
  BY <1>1, ClientNextType DEF TypeOK, serverVars, ServerTypeOK
<1>2. ASSUME NEW s \in Servers, ServerNext(s), UNCHANGED clientVars
      PROVE  TypeOK'
  BY <1>2, ServerNextType DEF TypeOK, clientVars, ClientTypeOK
<1>3. CASE UNCHANGED vars
  BY <1>3 DEF vars, protocolVars, clientVars, serverVars, TypeOK,
              ProtocolTypeOK, ClientTypeOK, ServerTypeOK
<1>4. QED
  BY <1>1, <1>2, <1>3 DEF Next

(***************************************************************************)
(* No step of any endpoint writes what its type cannot hold: sequences,    *)
(* connection ids and fragment bytes stay within their widths, since what  *)
(* would exceed them panics first.                                         *)
(***************************************************************************)
THEOREM TypeCorrect == Spec => []TypeOK
BY InitType, NextType, PTL DEF Spec

=============================================================================
