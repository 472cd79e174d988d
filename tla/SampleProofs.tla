---------------------------- MODULE SampleProofs ----------------------------
(***************************************************************************)
(* The two loops of antarc-sample: proofs of EveryPacketAcksTheLast,       *)
(* NothingAfterLoss and ImplementsExchange.                                *)
(*                                                                         *)
(* Every step of a thread is a step of Antarc, which carries its           *)
(* invariants over, and has one of four shapes: nothing is said, a word is *)
(* said, heard, or dropped.  Each shape keeps TalkInv and is a step of     *)
(* Exchange or none; LoopInv is kept thread by thread.                     *)
(***************************************************************************)
EXTENDS SampleInvariant, AntarcSequenceProofs, AntarcRefinement,
        FiniteSetTheorems, SequenceTheorems

-----------------------------------------------------------------------------
(***************************************************************************)
(* The two ends.                                                           *)
(***************************************************************************)

\* There are two ends, each other's other.
LEMMA TwoEnds ==
  /\ Clients = {client} /\ Servers = {server} /\ client # server
  /\ Endpoint = {client, server}
  /\ OtherEnd(client) = server /\ OtherEnd(server) = client
BY ThreadsAssumption, EndpointAssumption DEF Endpoint, OtherEnd, Talk!Other

LEMMA OtherOf ==
  ASSUME NEW e \in Endpoint
  PROVE  /\ OtherEnd(e) \in Endpoint
         /\ OtherEnd(e) # e
         /\ OtherEnd(OtherEnd(e)) = e
         /\ \A x \in Endpoint : x = e \/ x = OtherEnd(e)
BY TwoEnds

\* What is sent last is the largest sequence.
LEMMA LatestIsLast ==
  ASSUME TypeOK, NEW e \in Endpoint, NEW n, Latest(e, n)
  PROVE  LastSent(e) = n
<1>1. \A m \in Numbers(e) : m \in Nat
  BY PacketFields DEF Numbers, TypeOK, ProtocolTypeOK, Sequence
<1>2. LastSent(e) = Max(Numbers(e))
  BY DEF LastSent, Numbers
<1> DEFINE S == Numbers(e)
<1>3. n \in S /\ (\A m \in S : n >= m) /\ \A m \in S : m \in Nat
  BY <1>1 DEF Latest
<1> HIDE DEF S
<1>4. Max(S) = n
  <2>1. Max(S) \in S /\ \A m \in S : Max(S) >= m
    BY <1>3 DEF Max
  <2>2. QED
    BY <1>3, <2>1
<1>5. QED
  BY <1>2, <1>4 DEF S

\* Whom an end knows is the other end, under one id and in one state.
LEMMA OnePeer ==
  ASSUME IInv
  PROVE  /\ \A e \in Endpoint : \A id \in ConnectedIds(e) :
               connected[e][id] \in Peer /\ connected[e][id].address = OtherEnd(e)
         /\ \A e \in Endpoint : \A i, j \in ConnectedIds(e) : i = j
         /\ \A i, j \in ConnectionId :
               Owner(server, i) # NoPeer /\ Owner(server, j) # NoPeer => i = j
         /\ \A i \in ConnectionId : Owner(server, i) # NoPeer => Owns(server, i, client)
         /\ \A i \in ConnectionId : awaitingAck[server][i] # NoPeer =>
               /\ awaitingAck[server][i] \in Peer
               /\ awaitingAck[server][i].address = client
               /\ ConnectedIds(server) = {}
<1> USE TwoEnds
<1>1. \A i \in ConnectionId : Owner(server, i) # NoPeer => Owns(server, i, client)
  BY DEF IInv, AddressesFit, Owns
<1>2. \A i, j \in ConnectionId :
        Owner(server, i) # NoPeer /\ Owner(server, j) # NoPeer => i = j
  BY <1>1 DEF IInv, UniqueIds
<1>3. \A id \in ConnectedIds(server) :
        /\ Owner(server, id) # NoPeer
        /\ connected[server][id].address = client
  BY <1>1 DEF ConnectedIds, Owner, Owns
<1>4. \A id \in ConnectedIds(client) : connected[client][id].address = server
  BY DEF IInv, IdsAgree
<1>5. \A i, j \in ConnectedIds(client) : i = j
  BY <1>4 DEF IInv, OneStatePerServer
<1>6. \A e \in Endpoint : \A id \in ConnectedIds(e) : connected[e][id] \in Peer
  BY DEF IInv, TypeOK, ProtocolTypeOK, ConnectedIds
<1>7. ASSUME NEW i \in ConnectionId, awaitingAck[server][i] # NoPeer
      PROVE  /\ awaitingAck[server][i] \in Peer
             /\ awaitingAck[server][i].address = client
             /\ ConnectedIds(server) = {}
  <2>1. awaitingAck[server][i] \in Peer
    BY <1>7 DEF IInv, TypeOK, ServerTypeOK
  <2>2. connected[server][i] = NoPeer
    BY <1>7 DEF IInv, UniqueIds
  <2>3. Owner(server, i) # NoPeer /\ awaitingAck[server][i].address = client
    BY <1>1, <1>7, <2>2 DEF Owner, Owns
  <2>4. ConnectedIds(server) = {}
    BY <1>2, <1>3, <2>2, <2>3 DEF ConnectedIds
  <2>5. QED
    BY <2>1, <2>3, <2>4
<1>8. \A i, j \in ConnectedIds(server) : i = j
  BY <1>2, <1>3 DEF ConnectedIds
<1>9. QED
  BY <1>1, <1>2, <1>3, <1>4, <1>5, <1>6, <1>7, <1>8

\* A packet goes from one end to the other, and what the packets of the server
\* say is that it knows the client.
LEMMA PacketEnds ==
  ASSUME IInv, NEW p \in network
  PROVE  /\ p.src \in Endpoint
         /\ p.dst = OtherEnd(p.src)
         /\ p.kind = "ConnectionRequest" => p.src = client
         /\ p.kind = "ConnectionAccepted" => p.src = server
         /\ p.src = server => p.id \in ConnectionId /\ Owns(server, p.id, client)
<1> USE TwoEnds
<1>1. p \in Packet
  BY DEF IInv, TypeOK, ProtocolTypeOK
<1>2. p.src \in Endpoint /\ (p.kind # "ConnectionRequest" => p.id \in ConnectionId)
  BY <1>1, PacketFields
<1>3. CASE p.kind = "ConnectionRequest"
  BY <1>3 DEF IInv, PacketsSpeakTrue, RequestTrue
<1>4. CASE p.kind # "ConnectionRequest" /\ p.src = server
  <2>1. FromServerTrue(p)
    BY <1>4 DEF IInv, PacketsSpeakTrue
  <2>2. Owns(server, p.id, p.dst) /\ Owns(server, p.id, client)
    BY <1>2, <1>4, <2>1, OnePeer DEF FromServerTrue, Owns
  <2>3. QED
    BY <1>2, <1>4, <2>2 DEF Owns
<1>5. CASE p.kind # "ConnectionRequest" /\ p.src = client
  <2>1. FromClientTrue(p)
    BY <1>5 DEF IInv, PacketsSpeakTrue
  <2>2. p.id \in ConnectedIds(client)
    BY <1>2, <1>5, <2>1 DEF FromClientTrue, ConnectedIds
  <2>3. QED
    BY <1>2, <1>5, <2>1, <2>2, OnePeer DEF FromClientTrue
<1>6. QED
  BY <1>2, <1>3, <1>4, <1>5

-----------------------------------------------------------------------------
(***************************************************************************)
(* Every step is one of Antarc.                                            *)
(***************************************************************************)

\* A broadcast of one chunk is a call of schedule.
LEMMA BroadcastIsSchedule ==
  ASSUME NEW e \in Endpoint, ScheduleBroadcast(e)
  PROVE  Schedule(e) \/ UNCHANGED protocolVars
<1>1. CASE ConnectedIds(e) = {}
  BY <1>1 DEF ScheduleBroadcast
<1>2. CASE ConnectedIds(e) # {}
  <2>1. MaySchedule(e)
    BY <1>2 DEF ScheduleBroadcast
  <2>2. PICK ids \in SetToSeqs(ConnectedIds(e)) : Enqueue(e, 1, Batch(e, ids, 1))
    BY <1>2 DEF ScheduleBroadcast
  <2>3. ids \in Recipients(e)
    BY DEF Recipients
  <2>4. 1 \in FragmentTotals /\ 1 \in AppLists
    BY PayloadAssumption
  <2>5. DrainOrder[1].kind = IF 1 > 1 THEN "Fragment" ELSE "DataTransfer"
    BY DEF DrainOrder
  <2>6. QED
    BY <2>1, <2>2, <2>3, <2>4, <2>5 DEF Schedule
<1>3. QED
  BY <1>1, <1>2

(***************************************************************************)
(* A thread only calls what an application of Antarc may call, and what it *)
(* receives is in the network.                                             *)
(***************************************************************************)
LEMMA SampleIsAntarc == SampleNext => [Next]_vars
<1> SUFFICES ASSUME SampleNext PROVE [Next]_vars
  OBVIOUS
<1> USE TwoEnds
<1>1. CASE AskForConnection
  BY <1>1 DEF AskForConnection, Next, ClientNext
<1>2. ASSUME NEW e \in Endpoint, Poll(e) PROVE [Next]_vars
  BY <1>2 DEF Poll, Next, ClientNext, ServerNext
<1>3. ASSUME NEW e \in Endpoint, Arrive(e) PROVE [Next]_vars
  <2>1. CASE ClientReceive(client, Head(flight[e])) /\ UNCHANGED serverVars
    <3>1. Head(flight[e]) \in network
      BY <2>1 DEF ClientReceive, Receives
    <3>2. QED
      BY <2>1, <3>1 DEF Next, ClientNext
  <2>2. CASE ServerReceive(server, Head(flight[e])) /\ UNCHANGED clientVars
    <3>1. Head(flight[e]) \in network
      BY <2>2 DEF ServerReceive, Receives
    <3>2. QED
      BY <2>2, <3>1 DEF Next, ServerNext
  <2>3. QED
    BY <1>3, <2>1, <2>2 DEF Arrive
<1>4. ASSUME NEW e \in Endpoint, ScheduleBroadcast(e) PROVE [Next]_vars
  <2>1. UNCHANGED <<clientVars, serverVars>>
    BY <1>4 DEF ScheduleBroadcast
  <2>2. CASE Schedule(e)
    BY <2>1, <2>2 DEF Next, ClientNext, ServerNext
  <2>3. CASE UNCHANGED protocolVars
    BY <2>1, <2>3 DEF vars
  <2>4. QED
    BY <1>4, <2>2, <2>3, BroadcastIsSchedule
<1>5. ASSUME NEW e \in Endpoint, Lose(e) PROVE [Next]_vars
  BY <1>5 DEF Lose
<1>6. ASSUME NEW e \in Endpoint, TimePasses(e) PROVE [Next]_vars
  BY <1>6 DEF TimePasses, Next, ClientNext, ServerNext
<1>7. QED
  BY <1>1, <1>2, <1>3, <1>4, <1>5, <1>6 DEF SampleNext

-----------------------------------------------------------------------------
(***************************************************************************)
(* The shapes of a step, and who takes it.                                 *)
(***************************************************************************)

\* The thread of e takes no part in the step.
Idle(e) ==
  /\ turn'[e] = turn[e]
  /\ phase'[e] = phase[e]
  /\ scheduled'[e] = scheduled[e]
  /\ sent'[e] = sent[e]
  /\ connected'[e] = connected[e]
  /\ e = client => UNCHANGED clientVars
  /\ e = server => UNCHANGED serverVars

\* Nothing is said, and nothing heard.
Silent(e) ==
  /\ HasSomethingToSay(e)' <=> HasSomethingToSay(e)
  /\ UNCHANGED <<network, flight, lost, connected, awaiting, awaitingAck>>
  /\ requesting' = requesting \/ HasSomethingToSay(client)

\* e says p, which is new, can be answered, and acks the last word of the other.
Says(e, p) ==
  /\ HasSomethingToSay(e) /\ ~HasSomethingToSay(e)'
  /\ network' = network \cup {p}
  /\ p.src = e
  /\ p.dst = OtherEnd(e)
  /\ p.kind \notin {"Fragment", "Heartbeat"}
  /\ \A m \in Numbers(e) : m < p.sequence
  /\ Latest(OtherEnd(e), p.ack)
  /\ Answerable(OtherEnd(e), p)'
  /\ flight' = [flight EXCEPT ![OtherEnd(e)] = <<p>>]
  /\ UNCHANGED lost

\* e hears the word on its way to it, acks it, and has an answer.
Hears(e) ==
  /\ flight[e] # <<>>
  /\ HasSomethingToSay(e)'
  /\ flight' = [flight EXCEPT ![e] = Tail(@)]
  /\ UNCHANGED <<network, lost>>
  /\ \A id \in ConnectedIds(e)' : connected'[e][id].remoteAck = Head(flight[e]).sequence
  /\ e = server => \A id \in ConnectionId : awaitingAck'[e][id] # NoPeer =>
       awaitingAck'[e][id].remoteAck = Head(flight[e]).sequence

\* The word on its way to e is lost, or e breaks down over it.
Misses(e) ==
  /\ flight[e] # <<>>
  /\ HasSomethingToSay(e)' <=> HasSomethingToSay(e)
  /\ flight' = [flight EXCEPT ![e] = Tail(@)]
  /\ lost' \in BOOLEAN
  /\ UNCHANGED network

\* LoopInv, for one end.
LoopAt(e) ==
  /\ turn[e] # "poll" => phase[e] = "app"
  /\ turn[e] = "connect" => e = client
  /\ Len(scheduled[e][1]) <= 1
  /\ \A q \in Queue \ {1} : scheduled[e][q] = <<>>
  /\ \A k \in SentKind : sent[e][k] = <<>>
  /\ turn[e] # "poll" \/ phase[e] = "poll" =>
       /\ scheduled[e][1] = <<>>
       /\ e = client => scheduledRequest[e] = <<>>
  /\ turn[e] = "schedule" \/ phase[e] = "poll" =>
       \/ ConnectedIds(e) # {}
       \/ e = server /\ scheduledAccepted[e] # <<>>
  /\ e = client => RequestTrace

\* A step of the thread of e.
Acts(e) ==
  /\ Idle(OtherEnd(e))
  /\ LoopAt(e)'
  /\ turn' \in [Endpoint -> Turn]
  /\ Silent(e) \/ (\E p : Says(e, p)) \/ Hears(e) \/ Misses(e)

LEMMA LoopsAt == LoopInv <=> \A e \in Endpoint : LoopAt(e)
BY TwoEnds DEF LoopInv, LoopAt, TurnsAlternate, OneToSend, NothingLeft, CanAnswer

LEMMA LoopsAtNext == LoopInv' <=> \A e \in Endpoint : LoopAt(e)'
BY TwoEnds DEF LoopInv, LoopAt, TurnsAlternate, OneToSend, NothingLeft, CanAnswer

\* A thread that takes no part has no more to say than before.
LEMMA IdleStays ==
  ASSUME NEW e \in Endpoint, Idle(e)
  PROVE  /\ HasSomethingToSay(e)' <=> HasSomethingToSay(e)
         /\ LoopAt(e) => LoopAt(e)'
<1>1. ConnectedIds(e)' = ConnectedIds(e)
  BY DEF Idle, ConnectedIds
<1>2. e = client => UNCHANGED clientVars
  BY DEF Idle
<1>3. HasSomethingToSay(e)' <=> HasSomethingToSay(e)
  BY DEF Idle, HasSomethingToSay, clientVars, serverVars
<1>4. e = client /\ RequestTrace => RequestTrace'
  BY DEF Idle, RequestTrace, clientVars
<1>5. LoopAt(e) => LoopAt(e)'
  BY <1>1, <1>4 DEF Idle, LoopAt, clientVars, serverVars
<1>6. QED
  BY <1>3, <1>5

-----------------------------------------------------------------------------
(***************************************************************************)
(* What the shapes do to the talk.                                         *)
(***************************************************************************)

\* A word on its way is the only one, and nobody has another to say.
LEMMA OneFlies ==
  ASSUME SampleInv, NEW e \in Endpoint, flight[e] # <<>>
  PROVE  /\ ~lost
         /\ ~HasSomethingToSay(e) /\ ~HasSomethingToSay(OtherEnd(e))
         /\ flight[OtherEnd(e)] = <<>>
         /\ Len(flight[e]) = 1 /\ Tail(flight[e]) = <<>>
         /\ Head(flight[e]) \in ToSet(flight[e])
<1>1. flight[e] \in Seq(Packet)
  BY DEF SampleInv, SampleTypeOK
<1>2. Live(e)
  BY DEF Live
<1>3. ~lost /\ ~Live(OtherEnd(e)) /\ ~HasSomethingToSay(e) /\ Len(flight[e]) <= 1
  BY <1>2 DEF SampleInv, TalkInv, OneWord
<1>4. Len(flight[e]) = 1 /\ Tail(flight[e]) = <<>>
  BY <1>1, <1>3, ShortList
<1>5. Head(flight[e]) \in ToSet(flight[e])
  BY <1>1, <1>4 DEF ToSet
<1>6. QED
  BY <1>3, <1>4, <1>5 DEF Live

\* As long as an end has something to say, nothing is on its way.
LEMMA NoneFlies ==
  ASSUME SampleInv, NEW e \in Endpoint, HasSomethingToSay(e)
  PROVE  /\ ~lost
         /\ ~HasSomethingToSay(OtherEnd(e))
         /\ \A x \in Endpoint : flight[x] = <<>>
<1>1. Live(e)
  BY DEF Live
<1>2. ~lost /\ ~Live(OtherEnd(e)) /\ flight[e] = <<>>
  BY <1>1 DEF SampleInv, TalkInv, OneWord
<1>3. QED
  BY <1>2, TwoEnds DEF Live

LEMMA SilentKept ==
  ASSUME SampleInv, NEW e \in Endpoint, Idle(OtherEnd(e)), Silent(e)
  PROVE  TalkInv'
<1>0. /\ OtherEnd(e) \in Endpoint /\ OtherEnd(e) # e /\ OtherEnd(OtherEnd(e)) = e
      /\ \A x \in Endpoint : x = e \/ x = OtherEnd(e)
  BY OtherOf
<1> USE <1>0
<1>1. \A x \in Endpoint : HasSomethingToSay(x)' <=> HasSomethingToSay(x)
  BY IdleStays DEF Silent
<1>2. UNCHANGED <<network, flight, lost, connected, awaiting, awaitingAck>>
  BY DEF Silent
<1>3. PlainPackets'
  BY <1>2 DEF SampleInv, TalkInv, PlainPackets
<1>4. OneWord'
  <2>1. \A x \in Endpoint : Live(x)' <=> Live(x)
    BY <1>1, <1>2 DEF Live
  <2>2. QED
    BY <1>1, <1>2, <2>1 DEF SampleInv, TalkInv, OneWord
<1>5. \A x, n : Latest(x, n)' <=> Latest(x, n)
  BY <1>2 DEF Latest, Numbers
<1>6. WordsAreLast'
  <2> SUFFICES ASSUME NEW x \in Endpoint, NEW p \in ToSet(flight'[x])
               PROVE  /\ p \in network /\ p.dst = x /\ p.src = OtherEnd(x)
                      /\ Latest(p.src, p.sequence) /\ Latest(x, p.ack)
                      /\ Answerable(x, p)'
    BY <1>2, <1>5 DEF WordsAreLast
  <2>1. p \in ToSet(flight[x])
    BY <1>2
  <2>2. /\ p \in network /\ p.dst = x /\ p.src = OtherEnd(x)
        /\ Latest(p.src, p.sequence) /\ Latest(x, p.ack)
        /\ Answerable(x, p)
    BY <2>1 DEF SampleInv, TalkInv, WordsAreLast
  <2>3. flight[x] # <<>>
    BY <2>1, ToSetEmpty
  <2>4. UNCHANGED requesting
    BY <2>3, NoneFlies, TwoEnds DEF Silent
  <2>5. QED
    BY <1>2, <2>2, <2>4 DEF Answerable, Owner
<1>7. SpeakerHasHeard'
  <2>1. \A x : ConnectedIds(x)' = ConnectedIds(x)
    BY <1>2 DEF ConnectedIds
  <2>2. QED
    BY <1>1, <1>2, <1>5, <2>1 DEF SampleInv, TalkInv, SpeakerHasHeard
<1>8. QED
  BY <1>3, <1>4, <1>6, <1>7 DEF TalkInv

LEMMA SaysKept ==
  ASSUME SampleInv, TypeOK', NEW e \in Endpoint, Idle(OtherEnd(e)), NEW p, Says(e, p)
  PROVE  TalkInv'
<1>0. /\ OtherEnd(e) \in Endpoint /\ OtherEnd(e) # e /\ OtherEnd(OtherEnd(e)) = e
      /\ \A x \in Endpoint : x = e \/ x = OtherEnd(e)
  BY OtherOf
<1> USE <1>0
<1>1. /\ ~lost /\ ~HasSomethingToSay(OtherEnd(e))
      /\ \A x \in Endpoint : flight[x] = <<>>
  BY NoneFlies DEF Says
<1>2. /\ flight'[e] = <<>> /\ flight'[OtherEnd(e)] = <<p>>
      /\ lost' = lost
  BY <1>1 DEF Says, SampleInv, SampleTypeOK
<1>3. \A x \in Endpoint : ~HasSomethingToSay(x)'
  BY <1>1, IdleStays DEF Says
<1>4. PlainPackets'
  BY DEF Says, SampleInv, TalkInv, PlainPackets
<1>5. OneWord'
  <2>1. \A x \in Endpoint : flight'[x] = <<>> \/ flight'[x] = <<p>>
    BY <1>2
  <2>2. \A x \in Endpoint : Len(flight'[x]) <= 1
    <3> SUFFICES ASSUME NEW x \in Endpoint PROVE Len(flight'[x]) <= 1
      OBVIOUS
    <3>1. CASE flight'[x] = <<>>
      BY <3>1
    <3>2. CASE flight'[x] = <<p>>
      <4>1. Len(<<p>>) = 1
        OBVIOUS
      <4>2. QED
        BY <3>2, <4>1
    <3>3. QED
      BY <2>1, <3>1, <3>2
  <2>3. ~HasSomethingToSay(e)' /\ flight'[e] = <<>>
    BY <1>2 DEF Says
  <2>4. ~Live(e)'
    BY <2>3 DEF Live
  <2>5. QED
    BY <1>1, <1>2, <1>3, <2>2, <2>4 DEF OneWord, Live
<1>6. p \in network' /\ p.sequence \in Nat
  BY PacketFields DEF Says, TypeOK, ProtocolTypeOK, Sequence
<1>7. Numbers(e)' = Numbers(e) \cup {p.sequence}
  BY DEF Says, Numbers
<1>8. Numbers(OtherEnd(e))' = Numbers(OtherEnd(e))
  BY DEF Says, Numbers
<1>9. Latest(e, p.sequence)'
  <2>1. \A m \in Numbers(e)' : m <= p.sequence
    <3>1. p.sequence <= p.sequence
      BY <1>6
    <3>2. \A m \in Numbers(e) : m \in Nat
      BY PacketFields DEF Numbers, SampleInv, SampleTypeOK, TypeOK, ProtocolTypeOK, Sequence
    <3>3. \A m \in Numbers(e) : m <= p.sequence
      BY <1>6, <3>2 DEF Says
    <3>4. QED
      BY <1>7, <3>1, <3>3
  <2>2. QED
    BY <1>7, <2>1 DEF Latest
<1>10. Latest(OtherEnd(e), p.ack)'
  BY <1>8 DEF Latest, Says
<1>11. WordsAreLast'
  <2> SUFFICES ASSUME NEW x \in Endpoint, NEW w \in ToSet(flight'[x])
               PROVE  /\ w \in network' /\ w.dst = x /\ w.src = OtherEnd(x)
                      /\ Latest(w.src, w.sequence)' /\ Latest(x, w.ack)'
                      /\ Answerable(x, w)'
    BY DEF WordsAreLast
  <2>1. x = OtherEnd(e)
    BY <1>2, ToSetEmpty
  <2>2. w = p
    BY <1>2, <2>1 DEF ToSet
  <2>3. QED
    BY <1>6, <1>9, <1>10, <2>1, <2>2 DEF Says
<1>12. SpeakerHasHeard'
  BY <1>3 DEF SpeakerHasHeard
<1>13. QED
  BY <1>4, <1>5, <1>11, <1>12 DEF TalkInv

LEMMA HearsKept ==
  ASSUME SampleInv, NEW e \in Endpoint, Idle(OtherEnd(e)), Hears(e)
  PROVE  TalkInv'
<1> DEFINE p == Head(flight[e])
<1>0. /\ OtherEnd(e) \in Endpoint /\ OtherEnd(e) # e /\ OtherEnd(OtherEnd(e)) = e
      /\ \A x \in Endpoint : x = e \/ x = OtherEnd(e)
  BY OtherOf
<1> USE <1>0
<1>1. /\ ~lost /\ ~HasSomethingToSay(OtherEnd(e))
      /\ flight[OtherEnd(e)] = <<>>
      /\ Tail(flight[e]) = <<>>
      /\ p \in ToSet(flight[e])
  BY OneFlies DEF Hears
<1>2. \A x \in Endpoint : flight'[x] = <<>>
  BY <1>1 DEF Hears, SampleInv, SampleTypeOK
<1>3. ~HasSomethingToSay(OtherEnd(e))' /\ ~lost'
  BY <1>1, IdleStays DEF Hears
<1>4. \A x, n : Latest(x, n)' <=> Latest(x, n)
  BY DEF Latest, Numbers, Hears
<1>5. PlainPackets'
  BY DEF Hears, SampleInv, TalkInv, PlainPackets
<1>6. OneWord'
  <2>1. \A x \in Endpoint : Len(flight'[x]) <= 1
    BY <1>2
  <2>2. ~Live(OtherEnd(e))'
    BY <1>2, <1>3 DEF Live
  <2>3. \A x \in Endpoint : Live(x)' => x = e
    BY <2>2
  <2>4. QED
    BY <1>2, <1>3, <2>1, <2>2, <2>3 DEF OneWord
<1>7. WordsAreLast'
  BY <1>2, ToSetEmpty DEF WordsAreLast
<1>8. Latest(OtherEnd(e), p.sequence)
  BY <1>1 DEF SampleInv, TalkInv, WordsAreLast
<1>9. SpeakerHasHeard'
  <2> SUFFICES ASSUME NEW x \in Endpoint, HasSomethingToSay(x)'
               PROVE  /\ \A id \in ConnectedIds(x)' :
                           Latest(OtherEnd(x), connected[x][id].remoteAck)'
                      /\ x = server => \A id \in ConnectionId :
                           awaitingAck'[x][id] # NoPeer =>
                              Latest(client, awaitingAck[x][id].remoteAck)'
    BY DEF SpeakerHasHeard
  <2>1. x = e
    BY <1>3
  <2>2. QED
    BY <1>4, <1>8, <2>1, TwoEnds DEF Hears
<1>10. QED
  BY <1>5, <1>6, <1>7, <1>9 DEF TalkInv

LEMMA MissesKept ==
  ASSUME SampleInv, NEW e \in Endpoint, Idle(OtherEnd(e)), Misses(e)
  PROVE  TalkInv'
<1>0. /\ OtherEnd(e) \in Endpoint /\ OtherEnd(e) # e /\ OtherEnd(OtherEnd(e)) = e
      /\ \A x \in Endpoint : x = e \/ x = OtherEnd(e)
  BY OtherOf
<1> USE <1>0
<1>1. /\ ~HasSomethingToSay(e) /\ ~HasSomethingToSay(OtherEnd(e))
      /\ flight[OtherEnd(e)] = <<>>
      /\ Tail(flight[e]) = <<>>
  BY OneFlies DEF Misses
<1>2. \A x \in Endpoint : flight'[x] = <<>>
  BY <1>1 DEF Misses, SampleInv, SampleTypeOK
<1>3. \A x \in Endpoint : ~HasSomethingToSay(x)'
  BY <1>1, IdleStays DEF Misses
<1>4. PlainPackets'
  BY DEF Misses, SampleInv, TalkInv, PlainPackets
<1>5. OneWord'
  <2>1. \A x \in Endpoint : Len(flight'[x]) <= 1
    BY <1>2
  <2>2. \A x \in Endpoint : ~Live(x)'
    BY <1>2, <1>3 DEF Live
  <2>3. QED
    BY <1>2, <2>1, <2>2 DEF OneWord
<1>6. WordsAreLast'
  BY <1>2, ToSetEmpty DEF WordsAreLast
<1>7. SpeakerHasHeard'
  BY <1>3 DEF SpeakerHasHeard
<1>8. QED
  BY <1>4, <1>5, <1>6, <1>7 DEF TalkInv

\* Whatever a thread does, the talk stays as it should be.
LEMMA TalkKept ==
  ASSUME SampleInv, TypeOK', NEW e \in Endpoint, Acts(e)
  PROVE  TalkInv' /\ SampleTypeOK'
<1>1. TalkInv'
  BY SilentKept, SaysKept, HearsKept, MissesKept DEF Acts
<1>2. flight \in [Endpoint -> Seq(Packet)] /\ lost \in BOOLEAN
  BY DEF SampleInv, SampleTypeOK
<1>3. ASSUME Silent(e) PROVE SampleTypeOK'
  BY <1>2, <1>3 DEF Acts, SampleTypeOK, Silent
<1>4. ASSUME NEW p, Says(e, p) PROVE SampleTypeOK'
  <2>1. p \in Packet
    BY <1>4 DEF Says, TypeOK, ProtocolTypeOK
  <2>2. flight' \in [Endpoint -> Seq(Packet)]
    <3>1. <<p>> \in Seq(Packet)
      BY <2>1
    <3>2. QED
      BY <1>2, <1>4, <3>1 DEF Says
  <2>3. QED
    BY <1>2, <1>4, <2>2 DEF Acts, SampleTypeOK, Says
<1>5. ASSUME flight[e] # <<>>, flight' = [flight EXCEPT ![e] = Tail(@)], lost' \in BOOLEAN
      PROVE  SampleTypeOK'
  <2>1. Tail(flight[e]) \in Seq(Packet)
    BY <1>2, <1>5, TailType
  <2>2. flight' \in [Endpoint -> Seq(Packet)]
    BY <1>2, <1>5, <2>1
  <2>3. QED
    BY <1>5, <2>2 DEF Acts, SampleTypeOK
<1>6. ASSUME Hears(e) \/ Misses(e) PROVE SampleTypeOK'
  BY <1>2, <1>5, <1>6 DEF Hears, Misses
<1>7. QED
  BY <1>1, <1>3, <1>4, <1>6 DEF Acts

Speakers == {e \in Endpoint : HasSomethingToSay(e)}

Flying == [e \in Endpoint |-> Len(flight[e])]

(***************************************************************************)
(* Whatever a thread does, it speaks, hears, loses or none of it.          *)
(***************************************************************************)
LEMMA TalkStep ==
  ASSUME SampleInv, NEW e \in Endpoint, Acts(e)
  PROVE  [Talk!Next]_<<Speakers, Flying>>
<1>0. /\ OtherEnd(e) \in Endpoint /\ OtherEnd(e) # e /\ OtherEnd(OtherEnd(e)) = e
      /\ \A x \in Endpoint : x = e \/ x = OtherEnd(e)
  BY OtherOf
<1> USE <1>0
<1>1. Talk!Ends = Endpoint /\ \A x : Talk!Other(x) = OtherEnd(x)
  BY TwoEnds DEF Talk!Ends, OtherEnd
<1>2. flight \in [Endpoint -> Seq(Packet)]
  BY DEF SampleInv, SampleTypeOK
<1>3. HasSomethingToSay(OtherEnd(e))' <=> HasSomethingToSay(OtherEnd(e))
  BY IdleStays DEF Acts
<1>4. CASE Silent(e)
  <2>1. Speakers' = Speakers
    <3>1. \A x \in Endpoint : HasSomethingToSay(x)' <=> HasSomethingToSay(x)
      BY <1>3, <1>4 DEF Silent
    <3>2. QED
      BY <3>1 DEF Speakers
  <2>2. Flying' = Flying
    BY <1>4 DEF Flying, Silent
  <2>3. QED
    BY <2>1, <2>2
<1>5. ASSUME NEW p, Says(e, p) PROVE Talk!Speak(e)
  <2>1. /\ ~HasSomethingToSay(OtherEnd(e))
        /\ \A x \in Endpoint : flight[x] = <<>>
        /\ HasSomethingToSay(e) /\ ~HasSomethingToSay(e)'
    BY <1>5, NoneFlies DEF Says
  <2>2. Speakers = {e} /\ Speakers' = {}
    <3>1. \A x \in Endpoint : HasSomethingToSay(x) <=> x = e
      BY <2>1
    <3>2. \A x \in Endpoint : ~HasSomethingToSay(x)'
      BY <1>3, <2>1
    <3>3. QED
      BY <3>1, <3>2 DEF Speakers
  <2>3. Flying' = [Flying EXCEPT ![OtherEnd(e)] = 1]
    <3>1. flight' = [flight EXCEPT ![OtherEnd(e)] = <<p>>] /\ Len(<<p>>) = 1
      BY <1>5 DEF Says
    <3>2. QED
      BY <1>2, <3>1 DEF Flying
  <2>4. QED
    BY <1>1, <2>2, <2>3 DEF Talk!Speak, Speakers, Flying
<1>6. ASSUME flight[e] # <<>>, flight' = [flight EXCEPT ![e] = Tail(@)]
      PROVE  Flying[e] = 1 /\ Flying' = [Flying EXCEPT ![e] = 0]
  <2>1. Len(flight[e]) = 1 /\ Len(Tail(flight[e])) = 0
    BY <1>6, OneFlies
  <2>2. QED
    BY <1>2, <1>6, <2>1 DEF Flying
<1>7. CASE Hears(e)
  <2>1. ~HasSomethingToSay(OtherEnd(e))
    BY <1>7, OneFlies DEF Hears
  <2>2. \A x \in Endpoint : HasSomethingToSay(x)' <=> x = e
    BY <1>3, <1>7, <2>1 DEF Hears
  <2>3. Speakers' = {e}
    BY <2>2 DEF Speakers
  <2>4. Flying[e] = 1 /\ Flying' = [Flying EXCEPT ![e] = 0]
    BY <1>6, <1>7 DEF Hears
  <2>5. Talk!Hear(e)
    BY <2>3, <2>4 DEF Talk!Hear, Speakers, Flying
  <2>6. QED
    BY <1>1, <2>5 DEF Talk!Next
<1>8. CASE Misses(e)
  <2>1. \A x \in Endpoint : HasSomethingToSay(x)' <=> HasSomethingToSay(x)
    BY <1>3, <1>8 DEF Misses
  <2>2. Speakers' = Speakers
    BY <2>1 DEF Speakers
  <2>3. Flying[e] = 1 /\ Flying' = [Flying EXCEPT ![e] = 0]
    BY <1>6, <1>8 DEF Misses
  <2>4. Talk!Lose(e)
    BY <2>2, <2>3 DEF Talk!Lose, Speakers, Flying
  <2>5. QED
    BY <1>1, <2>4 DEF Talk!Next
<1>9. QED
  BY <1>1, <1>4, <1>5, <1>7, <1>8 DEF Acts, Talk!Next

-----------------------------------------------------------------------------
(***************************************************************************)
(* Who says nothing.                                                       *)
(***************************************************************************)

\* A poll that sends nothing new puts nothing on its way.
LEMMA CarryNothing ==
  ASSUME SampleTypeOK, Carry, UNCHANGED network
  PROVE  flight' = flight
<1>1. flight \in [Endpoint -> Seq(Packet)]
  BY DEF SampleTypeOK
<1>2. \A e : {p \in network' \ network : p.dst = e} = {}
  OBVIOUS
<1>3. flight' = [e \in Endpoint |-> flight[e] \o <<>>]
  BY <1>2, ListOfNone DEF Carry
<1>4. \A e \in Endpoint : flight[e] \o <<>> = flight[e]
  BY <1>1
<1>5. QED
  BY <1>1, <1>3, <1>4

\* What the loop of an end looks like before a step.
LEMMA LoopBefore ==
  ASSUME SampleInv, NEW e \in Endpoint
  PROVE  /\ LoopAt(e) /\ TypeOK
         /\ turn \in [Endpoint -> Turn]
         /\ phase \in [Endpoint -> Phase]
         /\ scheduled \in [Endpoint -> [Queue -> Seq(Scheduled)]]
         /\ sent \in [Endpoint -> [SentKind -> Seq(Sent)]]
         /\ connected \in [Endpoint -> [ConnectionId -> Peer \cup {NoPeer}]]
         /\ scheduledRequest \in [Clients -> Seq(Servers)]
         /\ sentRequest \in [Clients -> Seq(Sent)]
         /\ scheduledAccepted \in [Servers -> Seq(ScheduledAccepted)]
         /\ sentAccepted \in [Servers -> Seq(Sent)]
         /\ client \in Endpoint /\ server \in Endpoint /\ client # server
         /\ client \in Clients /\ server \in Servers
<1>1. TypeOK /\ LoopAt(e)
  BY LoopsAt DEF SampleInv, SampleTypeOK
<1>2. QED
  BY <1>1, TwoEnds DEF SampleInv, SampleTypeOK, TypeOK, ProtocolTypeOK, ClientTypeOK,
     ServerTypeOK

\* connect turns what the client is about to do into what it has to send.
LEMMA AskActs ==
  ASSUME SampleInv, AskForConnection
  PROVE  Acts(client)
<1> USE LoopBefore, TwoEnds
<1>1. turn[client] = "connect" /\ phase[client] = "app"
  BY DEF AskForConnection, Connect
<1>2. turn' = [turn EXCEPT ![client] = "poll"]
  BY DEF AskForConnection, Turns
<1>3. /\ UNCHANGED <<network, phase, connected, scheduled, sent, awaiting, sentRequest>>
      /\ UNCHANGED <<flight, lost, awaitingAck>>
      /\ UNCHANGED serverVars
  BY DEF AskForConnection, Connect, serverVars
<1>4. scheduledRequest'[client] # <<>>
  <2>1. scheduledRequest[client] \in Seq(Servers)
    OBVIOUS
  <2>2. scheduledRequest'[client] = Append(scheduledRequest[client], server)
    BY DEF AskForConnection, Connect
  <2>3. QED
    BY <2>1, <2>2, LongerList
<1>5. turn' \in [Endpoint -> Turn] /\ turn'[client] = "poll" /\ turn'[server] = turn[server]
  BY <1>2 DEF Turn
<1>6. Idle(server)
  BY <1>3, <1>5 DEF Idle
<1>7. LoopAt(client)
  OBVIOUS
<1>8. RequestTrace'
  BY <1>1, <1>3, <1>7 DEF RequestTrace, LoopAt
<1>9. LoopAt(client)'
  BY <1>1, <1>3, <1>5, <1>7, <1>8 DEF LoopAt
<1>10. Silent(client)
  BY <1>1, <1>3, <1>4, <1>5 DEF Silent, HasSomethingToSay, Stopped
<1>11. QED
  BY <1>5, <1>6, <1>9, <1>10 DEF Acts

\* Time passes without a word.
LEMMA TimeActs ==
  ASSUME SampleInv, NEW e \in Endpoint, TimePasses(e)
  PROVE  Acts(e)
<1> USE LoopBefore, OtherOf
<1>1. /\ UNCHANGED <<network, phase, connected, scheduled, sent, turn, flight, lost>>
      /\ UNCHANGED clientVars /\ UNCHANGED serverVars
  BY DEF TimePasses, Tick
<1>2. Idle(OtherEnd(e)) /\ Idle(e)
  BY <1>1 DEF Idle
<1>3. UNCHANGED <<requesting, awaiting, awaitingAck>>
  BY <1>1 DEF clientVars, serverVars
<1>4. Silent(e)
  BY <1>1, <1>2, <1>3, IdleStays DEF Silent
<1>5. QED
  BY <1>1, <1>2, <1>4, IdleStays DEF Acts

\* A datagram that is dropped disturbs no thread.
LEMMA LoseActs ==
  ASSUME SampleInv, NEW e \in Endpoint, Lose(e)
  PROVE  Acts(e)
<1> USE LoopBefore, OtherOf
<1>1. /\ UNCHANGED <<network, phase, connected, scheduled, sent, turn>>
      /\ UNCHANGED clientVars /\ UNCHANGED serverVars
  BY DEF Lose, vars, protocolVars
<1>2. Idle(OtherEnd(e)) /\ Idle(e)
  BY <1>1 DEF Idle
<1>3. Misses(e)
  BY <1>1, <1>2, IdleStays DEF Misses, Lose
<1>4. QED
  BY <1>1, <1>2, <1>3, IdleStays DEF Acts

\* Between app and send a poll finds nothing to retry.
Retried(e) ==
  /\ phase[e] \in {"app", "retryData", "retryFragment"}
  /\ \E next \in {"retryData", "retryFragment", "send"} :
       phase' = [phase EXCEPT ![e] = next]
  /\ UNCHANGED <<network, connected, scheduled, sent>>
  /\ UNCHANGED <<requesting, awaiting, awaitingAck, scheduledRequest, scheduledAccepted>>
  /\ e = client => UNCHANGED sentRequest /\ sentRequest[client] = <<>>

LEMMA NothingRetried ==
  ASSUME SampleInv, NEW e \in Endpoint,
         \/ /\ e = client
            /\ RetryConnectionRequest(e) \/ ClientRetryDataTransfer(e)
            /\ UNCHANGED serverVars
         \/ /\ e = server
            /\ \/ RetryConnectionAccepted(e)
               \/ ServerRetryDataTransfer(e)
               \/ ServerRetryFragment(e)
            /\ UNCHANGED clientVars
  PROVE  Retried(e)
<1> USE LoopBefore, TwoEnds
<1>1. LoopAt(e)
  OBVIOUS
<1>2. Front(<<>>) = <<>>
  BY DEF Front
<1>3. ASSUME NEW k \in SentKind PROVE sent[e][k] = <<>> /\ ~Overdue(e, sent[e][k])
  BY <1>1 DEF LoopAt, Overdue
<1>4. ASSUME NEW k \in SentKind, sent' = [sent EXCEPT ![e][k] = Front(@)]
      PROVE  sent' = sent
  <2>1. sent' = [sent EXCEPT ![e][k] = <<>>]
    BY <1>2, <1>3, <1>4
  <2>2. QED
    BY <1>3, <2>1
<1>5. CASE e = client /\ RetryConnectionRequest(e) /\ UNCHANGED serverVars
  <2>1. phase[e] = "app" /\ sentRequest[e] = <<>>
    BY <1>1, <1>5 DEF RetryConnectionRequest, LoopAt, RequestTrace
  <2>2. /\ phase' = [phase EXCEPT ![e] = "retryData"]
        /\ sentRequest' = [sentRequest EXCEPT ![e] = <<>>]
        /\ UNCHANGED <<network, requesting, awaiting>>
    BY <1>2, <1>5, <2>1 DEF RetryConnectionRequest, Overdue
  <2>3. sentRequest' = sentRequest
    BY <1>5, <2>1, <2>2
  <2>4. QED
    BY <1>5, <2>1, <2>2, <2>3 DEF RetryConnectionRequest, serverVars, Retried
<1>6. CASE e = client /\ ClientRetryDataTransfer(e) /\ UNCHANGED serverVars
  <2>1. "DataTransfer" \in SentKind
    BY DEF SentKind
  <2>2. /\ Forget(e, "DataTransfer", "send")
        /\ UNCHANGED <<requesting, awaiting, scheduledRequest, sentRequest>>
        /\ phase[e] = "retryData"
    BY <1>3, <1>6, <2>1 DEF ClientRetryDataTransfer
  <2>3. sentRequest[client] = <<>>
    BY <1>1, <1>6, <2>2 DEF LoopAt, RequestTrace
  <2>4. sent' = sent
    BY <1>4, <2>1, <2>2 DEF Forget
  <2>5. QED
    BY <1>6, <2>2, <2>3, <2>4 DEF Forget, serverVars, Retried
<1>7. CASE e = server /\ RetryConnectionAccepted(e) /\ UNCHANGED clientVars
  <2>1. phase[e] = "app" /\ sentAccepted[e] = <<>>
    BY <1>7 DEF RetryConnectionAccepted, SampleInv, SequenceInv, TrackerInv, AcceptTrace
  <2>2. /\ phase' = [phase EXCEPT ![e] = "retryData"]
        /\ UNCHANGED <<network, awaitingAck>>
    BY <1>7, <2>1 DEF RetryConnectionAccepted, Overdue
  <2>3. QED
    BY <1>7, <2>1, <2>2 DEF RetryConnectionAccepted, clientVars, Retried
<1>8. ASSUME e = server, UNCHANGED clientVars, NEW k \in SentKind,
             NEW now \in {"retryData", "retryFragment"},
             NEW next \in {"retryFragment", "send"}, RetrySent(e, k, now, next)
      PROVE  Retried(e)
  <2>1. Forget(e, k, next) /\ phase[e] = now /\ UNCHANGED serverVars
    BY <1>3, <1>8 DEF RetrySent
  <2>2. sent' = sent
    BY <1>4, <2>1 DEF Forget
  <2>3. QED
    BY <1>8, <2>1, <2>2 DEF Forget, clientVars, serverVars, Retried
<1>9. "DataTransfer" \in SentKind /\ "Fragment" \in SentKind
  BY DEF SentKind
<1>10. QED
  BY <1>5, <1>6, <1>7, <1>8, <1>9 DEF ServerRetryDataTransfer, ServerRetryFragment

LEMMA RetryActs ==
  ASSUME SampleInv, NEW e \in Endpoint, Poll(e), Retried(e)
  PROVE  Acts(e)
<1> USE LoopBefore, TwoEnds
<1>1. /\ turn[e] = "poll" /\ Carry /\ UNCHANGED lost
      /\ turn' = [turn EXCEPT ![e] = IF phase[e] = "poll" THEN "schedule" ELSE "poll"]
      /\ e = client => UNCHANGED serverVars
      /\ e = server => UNCHANGED clientVars
  BY DEF Poll, Turns
<1>2. LoopAt(e)
  OBVIOUS
<1>3. turn' = turn
  BY <1>1 DEF Retried
<1>4. flight' = flight
  BY <1>1, CarryNothing DEF Retried, SampleInv
<1>5. PICK next \in {"retryData", "retryFragment", "send"} :
        phase' = [phase EXCEPT ![e] = next]
  BY DEF Retried
<1>6. phase'[e] = next /\ next \notin Stopped \cup {"poll"} /\ phase[e] \notin Stopped \cup {"poll"}
  BY <1>5 DEF Retried, Stopped
<1>7. Idle(OtherEnd(e))
  BY <1>1, <1>3, <1>5, OtherOf DEF Idle, Retried
<1>8. e = client => RequestTrace'
  <2> SUFFICES ASSUME e = client PROVE RequestTrace'
    OBVIOUS
  <2>1. sentRequest'[client] = <<>> /\ scheduledRequest' = scheduledRequest
    BY DEF Retried
  <2>2. Len(scheduledRequest[client]) <= 1
    <3> DEFINE list == scheduledRequest[client]
    <3>1. list \in Seq(Servers)
      OBVIOUS
    <3>2. \A i, j \in DOMAIN list : list[i] = list[j] => i = j
      BY DEF SampleInv, SequenceInv, TrackerInv, IInv, RequestsRequest
    <3>3. \A i \in DOMAIN list : list[i] = server
      BY <3>1
    <3> HIDE DEF list
    <3>4. Len(list) \in Nat /\ DOMAIN list = 1 .. Len(list)
      BY <3>1
    <3>5. ~(Len(list) > 1)
      <4> SUFFICES ASSUME Len(list) > 1 PROVE FALSE
        OBVIOUS
      <4>1. 1 \in DOMAIN list /\ 2 \in DOMAIN list
        BY <3>4
      <4>2. list[1] = list[2]
        BY <3>3, <4>1
      <4>3. QED
        BY <3>2, <4>1, <4>2
    <3>6. QED
      BY <3>4, <3>5 DEF list
  <2>3. Len(sentRequest'[client]) + Len(scheduledRequest'[client]) <= 1
    <3>1. Len(sentRequest'[client]) = 0
      BY <2>1
    <3>2. Len(scheduledRequest'[client]) \in Nat
      BY <2>1
    <3>3. QED
      BY <2>1, <2>2, <3>1, <3>2
  <2>4. QED
    BY <1>6, <2>1, <2>3 DEF RequestTrace
<1>9. LoopAt(e)'
  BY <1>1, <1>2, <1>3, <1>6, <1>8 DEF LoopAt, Retried
<1>10. Silent(e)
  BY <1>1, <1>3, <1>4, <1>6 DEF Silent, HasSomethingToSay, Retried
<1>11. QED
  BY <1>3, <1>7, <1>9, <1>10 DEF Acts

\* A poll that returns hands the turn to the application.
LEMMA ReturnActs ==
  ASSUME SampleInv, NEW e \in Endpoint, Poll(e),
         \/ e = client /\ ClientPoll(e)
         \/ e = server /\ ServerPoll(e)
  PROVE  Acts(e)
<1> USE LoopBefore, TwoEnds
<1>1. PollHandler(e) /\ phase[e] = "poll"
  BY DEF ClientPoll, ServerPoll, PollHandler
<1>2. /\ turn[e] = "poll" /\ Carry /\ UNCHANGED lost
      /\ turn' = [turn EXCEPT ![e] = "schedule"]
      /\ e = client => UNCHANGED serverVars
      /\ e = server => UNCHANGED clientVars
  BY <1>1 DEF Poll, Turns
<1>3. LoopAt(e)
  OBVIOUS
<1>4. /\ UNCHANGED <<network, connected, scheduled>>
      /\ UNCHANGED <<requesting, awaiting, awaitingAck, scheduledRequest, scheduledAccepted>>
  BY <1>1, <1>2 DEF PollHandler, ClientPoll, ServerPoll, clientVars, serverVars
<1>5. flight' = flight
  BY <1>2, <1>4, CarryNothing DEF SampleInv
<1>6. sent' = sent
  <2>1. "DataTransfer" \in SentKind /\ "Fragment" \in SentKind
    BY DEF SentKind
  <2>2. Expired(sent[e]) = sent[e]
    BY <1>3, <2>1 DEF LoopAt, Expired
  <2>3. sent' = [sent EXCEPT ![e] = sent[e]]
    BY <1>1, <2>2 DEF PollHandler
  <2>4. QED
    BY <2>3
<1>7. phase'[e] = "app" /\ phase'[OtherEnd(e)] = phase[OtherEnd(e)]
  BY <1>1, OtherOf DEF PollHandler
<1>8. /\ turn'[e] = "schedule" /\ turn'[OtherEnd(e)] = turn[OtherEnd(e)]
      /\ turn' \in [Endpoint -> Turn]
  BY <1>2, OtherOf DEF Turn
<1>9. Idle(OtherEnd(e))
  BY <1>2, <1>4, <1>6, <1>7, <1>8, OtherOf DEF Idle
<1>10. e = client => RequestTrace'
  <2> SUFFICES ASSUME e = client PROVE RequestTrace'
    OBVIOUS
  <2>1. sentRequest[client] \in Seq(Sent) /\ Len(sentRequest[client]) <= 1
    BY <1>1, <1>3 DEF LoopAt, RequestTrace
  <2>2. WithoutFirst(sentRequest[client]) = <<>>
    BY <2>1, ShortList DEF WithoutFirst
  <2>3. sentRequest' = [sentRequest EXCEPT ![client] = WithoutFirst(@)]
    BY DEF ClientPoll, ServerPoll
  <2>4. sentRequest'[client] = <<>>
    BY <2>2, <2>3
  <2>5. QED
    BY <1>7, <2>4 DEF RequestTrace
<1>11. ConnectedIds(e)' = ConnectedIds(e)
  BY <1>4 DEF ConnectedIds
<1>12. LoopAt(e)'
  BY <1>1, <1>3, <1>4, <1>6, <1>7, <1>8, <1>10, <1>11 DEF LoopAt
<1>13. Silent(e)
  BY <1>1, <1>2, <1>4, <1>5, <1>8 DEF Silent, HasSomethingToSay
<1>14. QED
  BY <1>8, <1>9, <1>12, <1>13 DEF Acts

\* A broadcast to the one peer there is schedules one item.
LEMMA OneItem ==
  ASSUME SampleInv, NEW e \in Endpoint, ConnectedIds(e) # {},
         NEW ids \in SetToSeqs(ConnectedIds(e))
  PROVE  /\ Batch(e, ids, 1) \in Seq(Scheduled)
         /\ Batch(e, ids, 1) # <<>>
         /\ Len(Batch(e, ids, 1)) <= 1
<1>1. PICK id \in ConnectedIds(e) : ConnectedIds(e) = {id}
  BY OnePeer DEF SampleInv, SequenceInv, TrackerInv
<1>2. Cardinality(ConnectedIds(e)) = 1
  BY <1>1, FS_Singleton
<1>3. ids \in [1 .. 1 -> ConnectedIds(e)]
  BY <1>2 DEF SetToSeqs
<1>4. Len(ids) = 1
  BY <1>3
<1>5. ids \in Recipients(e) /\ ProtocolTypeOK
  BY DEF Recipients, SampleInv, SampleTypeOK, TypeOK
<1>6. Batch(e, ids, 1) \in Seq(Scheduled)
  BY <1>5, BatchType
<1>7. DOMAIN Batch(e, ids, 1) = 1 .. 1
  BY <1>4 DEF Batch
<1>8. Len(Batch(e, ids, 1)) = 1
  BY <1>6, <1>7
<1>9. Batch(e, ids, 1) # <<>>
  BY <1>8, OneIsSome
<1>10. QED
  BY <1>6, <1>8, <1>9

\* A broadcast turns what the application is about to do into what it has to
\* send; without a connection, that is the answer to a request.
LEMMA ScheduleActs ==
  ASSUME SampleInv, NEW e \in Endpoint, ScheduleBroadcast(e)
  PROVE  Acts(e)
<1> USE LoopBefore, TwoEnds
<1>1. /\ turn[e] = "schedule"
      /\ turn' = [turn EXCEPT ![e] = "poll"]
      /\ UNCHANGED clientVars /\ UNCHANGED serverVars /\ UNCHANGED <<flight, lost>>
  BY DEF ScheduleBroadcast, Turns
<1>2. LoopAt(e) /\ phase[e] = "app"
  BY <1>1 DEF LoopAt
<1>3. scheduled[e][1] = <<>>
  BY <1>1, <1>2 DEF LoopAt
<1>4. UNCHANGED <<network, phase, connected, sent>>
  BY DEF ScheduleBroadcast, Enqueue, protocolVars
<1>5. /\ turn'[e] = "poll" /\ turn'[OtherEnd(e)] = turn[OtherEnd(e)]
      /\ turn' \in [Endpoint -> Turn]
  BY <1>1, OtherOf DEF Turn
<1>6. /\ scheduled'[OtherEnd(e)] = scheduled[OtherEnd(e)]
      /\ \A q \in Queue \ {1} : scheduled'[e][q] = scheduled[e][q]
      /\ Len(scheduled'[e][1]) <= 1
      /\ scheduled'[e][1] # <<>> \/ (e = server /\ scheduledAccepted[e] # <<>>)
  <2>1. CASE ConnectedIds(e) = {}
    <3>1. scheduled' = scheduled
      BY <2>1 DEF ScheduleBroadcast, protocolVars
    <3>2. QED
      BY <1>1, <1>2, <2>1, <3>1 DEF LoopAt
  <2>2. CASE ConnectedIds(e) # {}
    <3>1. PICK ids \in SetToSeqs(ConnectedIds(e)) : Enqueue(e, 1, Batch(e, ids, 1))
      BY <2>2 DEF ScheduleBroadcast
    <3> DEFINE batch == Batch(e, ids, 1)
    <3>2. batch \in Seq(Scheduled) /\ batch # <<>> /\ Len(batch) <= 1
      BY <2>2, OneItem
    <3>3. scheduled' = [scheduled EXCEPT ![e][1] = @ \o batch]
      BY <3>1 DEF Enqueue
    <3> HIDE DEF batch
    <3>4. scheduled[e][1] \o batch = batch
      BY <1>3, <3>2
    <3>5. 1 \in Queue
      BY DEF Queue
    <3>6. scheduled'[e][1] = batch
      BY <3>3, <3>4, <3>5
    <3>7. \A q \in Queue \ {1} : scheduled'[e][q] = scheduled[e][q]
      BY <3>3
    <3>8. scheduled'[OtherEnd(e)] = scheduled[OtherEnd(e)]
      BY <3>3, OtherOf
    <3>9. Len(scheduled'[e][1]) <= 1 /\ scheduled'[e][1] # <<>>
      BY <3>2, <3>6
    <3>10. QED
      BY <3>7, <3>8, <3>9
  <2>3. QED
    BY <2>1, <2>2
<1>7. Idle(OtherEnd(e))
  BY <1>1, <1>4, <1>5, <1>6, OtherOf DEF Idle
<1>8. RequestTrace => RequestTrace'
  BY <1>1, <1>4 DEF RequestTrace, clientVars
<1>9. LoopAt(e)'
  BY <1>1, <1>2, <1>4, <1>5, <1>6, <1>8 DEF LoopAt, clientVars, serverVars
<1>10. Silent(e)
  <2>1. 1 \in Queue
    BY DEF Queue
  <2>2. HasSomethingToSay(e)
    BY <1>1 DEF HasSomethingToSay
  <2>3. scheduledAccepted' = scheduledAccepted
    BY <1>1 DEF serverVars
  <2>4. HasSomethingToSay(e)'
    BY <1>2, <1>4, <1>6, <2>1, <2>3 DEF HasSomethingToSay, Stopped
  <2>5. QED
    BY <1>1, <1>4, <2>2, <2>4 DEF Silent, clientVars, serverVars
<1>11. QED
  BY <1>5, <1>7, <1>9, <1>10 DEF Acts

-----------------------------------------------------------------------------
(***************************************************************************)
(* Who says something.                                                     *)
(***************************************************************************)

\* A poll that sends a packet puts it on its way.
LEMMA CarryOne ==
  ASSUME SampleTypeOK, Carry, NEW e \in Endpoint, NEW p, p \notin network,
         network' = network \cup {p}, p.dst = e, \A x \in Endpoint : flight[x] = <<>>
  PROVE  flight' = [flight EXCEPT ![e] = <<p>>]
<1>1. flight \in [Endpoint -> Seq(Packet)]
  BY DEF SampleTypeOK
<1>2. network' \ network = {p}
  OBVIOUS
<1>3. {w \in network' \ network : w.dst = e} = {p}
  BY <1>2
<1>4. \A x \in Endpoint : x # e => {w \in network' \ network : w.dst = x} = {}
  BY <1>2
<1>5. \A x \in Endpoint :
        SetToSeq({w \in network' \ network : w.dst = x}) = IF x = e THEN <<p>> ELSE <<>>
  BY <1>3, <1>4, ListOfNone, ListOfOne
<1>6. <<>> \o <<p>> = <<p>> /\ <<>> \o <<>> = <<>>
  OBVIOUS
<1>7. flight' = [x \in Endpoint |-> IF x = e THEN <<p>> ELSE <<>>]
  BY <1>5, <1>6 DEF Carry
<1>8. QED
  BY <1>1, <1>7

\* An end without connections has nothing scheduled.
LEMMA NobodyToSendTo ==
  ASSUME IInv, NEW e \in Endpoint, ConnectedIds(e) = {}
  PROVE  \A q \in Queue : scheduled[e][q] = <<>>
<1> SUFFICES ASSUME NEW q \in Queue, scheduled[e][q] # <<>> PROVE FALSE
  OBVIOUS
<1>1. scheduled[e][q] \in Seq(Scheduled)
  BY DEF IInv, TypeOK, ProtocolTypeOK
<1>2. Head(scheduled[e][q]) \in ToSet(scheduled[e][q])
  BY <1>1, ToSetTail
<1>3. PICK item \in Scheduled : item \in ToSet(scheduled[e][q])
  BY <1>1, <1>2, TailType
<1>4. connected[e][item.id] # NoPeer
  BY <1>3 DEF IInv, ScheduledToConnected
<1>5. QED
  BY <1>3, <1>4 DEF ConnectedIds, Scheduled

\* As long as the client is to ask, nobody has sent anything.
LEMMA NobodySpoke ==
  ASSUME SampleInv, requesting[client][server] # NoPeer, phase[client] \notin Stopped
  PROVE  /\ network = {}
         /\ \A id \in ConnectionId : Owner(server, id) = NoPeer
         /\ ConnectedIds(client) = {}
         /\ \A q \in Queue : scheduled[client][q] = <<>>
<1> USE TwoEnds
<1>1. IInv /\ OwnersAsked
  BY DEF SampleInv, SequenceInv, TrackerInv, LinkInv
<1>2. \A id \in ConnectionId : Owner(server, id) = NoPeer
  BY <1>1, OnePeer DEF OwnersAsked
<1>3. ASSUME NEW p \in network PROVE FALSE
  <2>1. CASE p.src = client
    BY <1>1, <1>3, <2>1, PacketEnds, NoneToRequesting
  <2>2. CASE p.src = server
    BY <1>1, <1>2, <1>3, <2>2, PacketEnds DEF Owns
  <2>3. QED
    BY <1>1, <1>3, <2>1, <2>2, PacketEnds
<1>4. ConnectedIds(client) = {}
  BY <1>1, OnePeer DEF IInv, OneStatePerServer
<1>5. \A q \in Queue : scheduled[client][q] = <<>>
  BY <1>1, <1>4, NobodyToSendTo
<1>6. QED
  BY <1>2, <1>3, <1>4, <1>5

\* The client asks for its connection.
LEMMA RequestActs ==
  ASSUME SampleInv, SequenceLimit > 1, Poll(client), SendConnectionRequest(client)
  PROVE  Acts(client)
<1> USE LoopBefore, TwoEnds
<1> DEFINE peer == requesting[client][server]
<1>0. PICK p : p = IntoPacket(client, "ConnectionRequest", HandshakeItem(0, server), peer)
  OBVIOUS
<1>1. phase[client] = "send" /\ scheduledRequest[client] # <<>>
  BY DEF SendConnectionRequest
<1>2. /\ turn[client] = "poll" /\ Carry /\ UNCHANGED lost
      /\ turn' = [turn EXCEPT ![client] = "poll"]
      /\ UNCHANGED serverVars
  BY <1>1 DEF Poll, Turns
<1>3. LoopAt(client)
  OBVIOUS
<1>4. /\ sentRequest[client] = <<>> /\ Tail(scheduledRequest[client]) = <<>>
      /\ Head(scheduledRequest[client]) = server
      /\ server \in ToSet(scheduledRequest[client])
  <2>1. /\ scheduledRequest[client] \in Seq(Servers) /\ sentRequest[client] \in Seq(Sent)
        /\ Len(sentRequest[client]) + Len(scheduledRequest[client]) <= 1
    BY <1>1, <1>3 DEF LoopAt, RequestTrace
  <2>2. /\ Len(scheduledRequest[client]) \in Nat \ {0}
        /\ Len(sentRequest[client]) \in Nat
        /\ sentRequest[client] # <<>> => Len(sentRequest[client]) # 0
    BY <1>1, <2>1, EmptySeq
  <2>3. Len(scheduledRequest[client]) <= 1 /\ sentRequest[client] = <<>>
    BY <2>1, <2>2
  <2>4. /\ Tail(scheduledRequest[client]) = <<>>
        /\ Head(scheduledRequest[client]) \in Servers
    BY <1>1, <2>1, <2>3, ShortList
  <2>5. Head(scheduledRequest[client]) \in ToSet(scheduledRequest[client])
    BY <1>1, <2>1, ToSetTail
  <2>6. QED
    BY <2>3, <2>4, <2>5
<1>5. peer # NoPeer
  BY <1>4 DEF SampleInv, SequenceInv, TrackerInv, IInv, RequestsRequest
<1>6. peer.sequence = 1 /\ peer.remoteAck = 0
  BY <1>5 DEF SampleInv, LinkInv, RequestingIsFresh, SequenceInv, TrackerInv, RemoteAcksWereSent
<1>7. /\ network = {}
      /\ \A id \in ConnectionId : Owner(server, id) = NoPeer
      /\ \A q \in Queue : scheduled[client][q] = <<>>
  BY <1>1, <1>5, NobodySpoke DEF Stopped
<1>8. /\ network' = network \cup {p}
      /\ phase' = [phase EXCEPT ![client] = "send"]
      /\ scheduledRequest' = [scheduledRequest EXCEPT ![client] = <<>>]
      /\ sentRequest' = [sentRequest EXCEPT ![client] =
                            Append(<<>>, [packet |-> p, time |-> clock[client]])]
      /\ UNCHANGED <<connected, scheduled, sent>>
      /\ requesting' = [requesting EXCEPT ![client][server] = NoPeer]
  <2>1. SendRequest(client, p, sentRequest[client], "send")
    BY <1>0, <1>4, <1>5 DEF SendConnectionRequest
  <2>2. p.dst = server
    BY <1>0 DEF IntoPacket, HandshakeItem
  <2>3. peer.sequence # SequenceLimit
    BY <1>6
  <2>4. /\ network' = network \cup {p}
        /\ phase' = [phase EXCEPT ![client] = "send"]
        /\ sentRequest' = [sentRequest EXCEPT ![client] =
                              Append(<<>>, [packet |-> p, time |-> clock[client]])]
        /\ requesting' = [requesting EXCEPT ![client][server] = NoPeer]
    BY <1>4, <1>5, <2>1, <2>2, <2>3 DEF SendRequest
  <2>5. /\ scheduledRequest' = [scheduledRequest EXCEPT ![client] = <<>>]
        /\ UNCHANGED <<connected, scheduled, sent>>
    BY <1>4 DEF SendConnectionRequest
  <2>6. QED
    BY <2>4, <2>5
<1>9. /\ p.kind = "ConnectionRequest" /\ p.src = client /\ p.dst = server
      /\ p.sequence = 1 /\ p.ack = 0
  BY <1>0, <1>6 DEF IntoPacket, HandshakeItem
<1> HIDE DEF peer
<1>10. /\ phase'[client] = "send" /\ phase'[server] = phase[server]
       /\ scheduledRequest'[client] = <<>>
       /\ sentRequest'[client] = <<[packet |-> p, time |-> clock[client]]>>
       /\ turn'[client] = "poll" /\ turn'[server] = turn[server]
       /\ turn' \in [Endpoint -> Turn]
  BY <1>2, <1>8 DEF Turn
<1>11. Idle(server)
  BY <1>2, <1>8, <1>10 DEF Idle
<1>12. LoopAt(client)'
  <2>1. RequestTrace'
    <3>1. /\ Len(<<>>) = 0
          /\ Len(<<[packet |-> p, time |-> clock[client]]>>) = 1
      OBVIOUS
    <3>2. Len(sentRequest'[client]) + Len(scheduledRequest'[client]) <= 1
      BY <1>10, <3>1
    <3>3. QED
      BY <1>10, <3>2 DEF RequestTrace
  <2>2. QED
    BY <1>3, <1>8, <1>10, <2>1 DEF LoopAt
<1>13. Says(client, p)
  <2>1. HasSomethingToSay(client)
    BY <1>1 DEF HasSomethingToSay, Stopped
  <2>2. ~HasSomethingToSay(client)'
    BY <1>7, <1>8, <1>10 DEF HasSomethingToSay
  <2>3. Numbers(client) = {0} /\ Latest(server, 0)
    BY <1>7 DEF Numbers, Latest
  <2>4. \A m \in Numbers(client) : m < p.sequence
    BY <1>9, <2>3
  <2>5. \A id \in ConnectionId : Owner(server, id)' = NoPeer
    BY <1>2, <1>7, <1>8 DEF Owner, serverVars
  <2>6. Answerable(server, p)'
    BY <1>9, <2>5 DEF Answerable
  <2>7. flight' = [flight EXCEPT ![server] = <<p>>]
    <3>1. \A x \in Endpoint : flight[x] = <<>>
      BY <2>1, NoneFlies
    <3>2. QED
      BY <1>2, <1>7, <1>8, <1>9, <3>1, CarryOne DEF SampleInv
  <2>8. QED
    BY <1>2, <1>8, <1>9, <2>1, <2>2, <2>3, <2>4, <2>6, <2>7 DEF Says
<1>14. QED
  BY <1>10, <1>11, <1>12, <1>13 DEF Acts

\* As long as an accept waits to be sent, its server has sent nothing, and the
\* client awaits it.
LEMMA AcceptAwaited ==
  ASSUME SampleInv, NEW id \in ConnectionId, AcceptPending(server, id)
  PROVE  /\ awaitingAck[server][id] \in Peer
         /\ awaitingAck[server][id].sequence = 1
         /\ awaitingAck[server][id].address = client
         /\ \A p \in network : p.src # server
         /\ \A q \in Queue : scheduled[server][q] = <<>>
         /\ ConnectedIds(client) = {}
         /\ requesting[client][server] = NoPeer
         /\ awaiting[client][server] # NoPeer
<1> USE TwoEnds
<1>1. IInv /\ OwnersAsked
  BY DEF SampleInv, SequenceInv, TrackerInv, LinkInv
<1>2. awaitingAck[server][id] # NoPeer
  BY <1>1 DEF IInv, AcceptsAwait, AcceptPending
<1>3. /\ awaitingAck[server][id] \in Peer
      /\ awaitingAck[server][id].address = client
      /\ ConnectedIds(server) = {}
  BY <1>1, <1>2, OnePeer
<1>4. Owner(server, id) # NoPeer /\ Owns(server, id, client)
  BY <1>1, <1>2, OnePeer DEF Owner
<1>5. awaitingAck[server][id].sequence = 1
  BY <1>4 DEF SampleInv, SequenceInv, TrackerInv, AcceptsAreFirst
<1>6. \A p \in network : p.src # server
  BY <1>1, <1>4, NoneToPending, PacketEnds
<1>7. ConnectedIds(client) = {}
  <2> SUFFICES ASSUME NEW i \in ConnectedIds(client) PROVE FALSE
    OBVIOUS
  <2>1. i \in ConnectionId /\ connected[client][i].address = server
    BY <1>1, OnePeer DEF ConnectedIds
  <2>2. Owns(server, i, client) /\ ~AcceptPending(server, i)
    BY <1>1, <2>1 DEF IInv, IdsAgree
  <2>3. i = id
    BY <1>1, <1>4, <2>1, <2>2 DEF IInv, UniqueIds
  <2>4. QED
    BY <2>2, <2>3
<1>8. requesting[client][server] = NoPeer /\ KnownPeer(client, server)
  BY <1>1, <1>4 DEF OwnersAsked
<1>9. awaiting[client][server] # NoPeer
  BY <1>7, <1>8 DEF KnownPeer
<1>10. QED
  BY <1>1, <1>3, <1>5, <1>6, <1>7, <1>8, <1>9, NobodyToSendTo

\* The server grants the connection.
LEMMA AcceptActs ==
  ASSUME SampleInv, SequenceLimit > 1, Poll(server), SendConnectionAccepted(server)
  PROVE  Acts(server)
<1> USE LoopBefore, TwoEnds
<1> DEFINE item == Head(scheduledAccepted[server])
           peer == awaitingAck[server][item.id]
<1>0. PICK p : p = IntoPacket(server, "ConnectionAccepted",
                              HandshakeItem(item.id, item.address), peer)
  OBVIOUS
<1>1. phase[server] = "send" /\ scheduledAccepted[server] # <<>>
  BY DEF SendConnectionAccepted
<1>2. /\ turn[server] = "poll" /\ Carry /\ UNCHANGED lost
      /\ turn' = [turn EXCEPT ![server] = "poll"]
      /\ UNCHANGED clientVars
  BY <1>1 DEF Poll, Turns
<1>3. LoopAt(server)
  OBVIOUS
<1>4. /\ Tail(scheduledAccepted[server]) = <<>>
      /\ item \in ScheduledAccepted
      /\ item \in ToSet(scheduledAccepted[server])
  <2>1. /\ scheduledAccepted[server] \in Seq(ScheduledAccepted)
        /\ Len(scheduledAccepted[server]) <= 1
    BY DEF SampleInv, SequenceInv, TrackerInv, IInv, AcceptsAwait
  <2>2. QED
    BY <1>1, <2>1, ShortList, ToSetTail
<1>5. item.id \in ConnectionId /\ AcceptPending(server, item.id)
  BY <1>4 DEF AcceptPending, ScheduledAccepted
<1>6. /\ peer \in Peer /\ peer # NoPeer /\ peer.sequence = 1 /\ peer.address = client
      /\ \A w \in network : w.src # server
      /\ \A q \in Queue : scheduled[server][q] = <<>>
      /\ ConnectedIds(client) = {}
      /\ requesting[client][server] = NoPeer
      /\ awaiting[client][server] # NoPeer
  BY <1>5, AcceptAwaited, NoPeerAssumption
<1>7. item.address = client
  BY <1>4, <1>6 DEF SampleInv, SequenceInv, TrackerInv, IInv, AcceptsAwait
<1>8. /\ network' = network \cup {p}
      /\ phase' = [phase EXCEPT ![server] = "send"]
      /\ scheduledAccepted' = [scheduledAccepted EXCEPT ![server] = <<>>]
      /\ UNCHANGED <<connected, scheduled, sent>>
  <2>1. SendAccepted(server, p, sentAccepted[server], "send")
    BY <1>0, <1>6 DEF SendConnectionAccepted
  <2>2. p.id = item.id
    BY <1>0 DEF IntoPacket, HandshakeItem
  <2>3. network' = network \cup {p} /\ phase' = [phase EXCEPT ![server] = "send"]
    BY <1>6, <2>1, <2>2 DEF SendAccepted
  <2>4. /\ scheduledAccepted' = [scheduledAccepted EXCEPT ![server] = <<>>]
        /\ UNCHANGED <<connected, scheduled, sent>>
    BY <1>4 DEF SendConnectionAccepted
  <2>5. QED
    BY <2>3, <2>4
<1>9. /\ p.kind = "ConnectionAccepted" /\ p.src = server /\ p.dst = client
      /\ p.sequence = 1 /\ p.ack = peer.remoteAck /\ p.id = item.id
  BY <1>0, <1>6, <1>7 DEF IntoPacket, HandshakeItem
<1>10. /\ phase'[server] = "send" /\ phase'[client] = phase[client]
       /\ scheduledAccepted'[server] = <<>>
       /\ turn'[server] = "poll" /\ turn'[client] = turn[client]
       /\ turn' \in [Endpoint -> Turn]
  BY <1>2, <1>8 DEF Turn
<1>11. Idle(client)
  BY <1>2, <1>8, <1>10 DEF Idle
<1>12. LoopAt(server)'
  BY <1>3, <1>8, <1>10 DEF LoopAt
<1>13. Says(server, p)
  <2>1. HasSomethingToSay(server)
    BY <1>1 DEF HasSomethingToSay, Stopped
  <2>2. ~HasSomethingToSay(server)'
    BY <1>6, <1>8, <1>10 DEF HasSomethingToSay
  <2>3. \A m \in Numbers(server) : m < p.sequence
    BY <1>6, <1>9 DEF Numbers
  <2>4. Latest(client, p.ack)
    BY <1>5, <1>6, <1>9, <2>1 DEF SampleInv, TalkInv, SpeakerHasHeard
  <2>5. connected[client][p.id] = NoPeer
    BY <1>5, <1>6, <1>9 DEF ConnectedIds
  <2>6. Answerable(client, p)'
    BY <1>2, <1>6, <1>8, <1>9, <2>5 DEF Answerable, clientVars
  <2>7. flight' = [flight EXCEPT ![client] = <<p>>]
    <3>1. \A x \in Endpoint : flight[x] = <<>>
      BY <2>1, NoneFlies
    <3>2. p \notin network
      BY <1>6, <1>9
    <3>3. QED
      BY <1>2, <1>8, <1>9, <3>1, <3>2, CarryOne DEF SampleInv
  <2>8. QED
    BY <1>2, <1>8, <1>9, <2>1, <2>2, <2>3, <2>4, <2>6, <2>7 DEF Says
<1>14. QED
  BY <1>10, <1>11, <1>12, <1>13 DEF Acts
\* What an end has scheduled goes to the other end, in one packet.
LEMMA DataActs ==
  ASSUME SampleInv, NEW e \in Endpoint, NEW q \in Queue, Poll(e),
         \/ e = client /\ ClientSend(e, q)
         \/ e = server /\ ServerSend(e, q)
  PROVE  Acts(e)
<1> USE LoopBefore, TwoEnds
<1> DEFINE item == Head(scheduled[e][q])
           o == OtherEnd(e)
<1>0. /\ o \in Endpoint /\ o # e
      /\ \A x \in Endpoint : x = e \/ x = o
  BY OtherOf
<1>1. PICK peers : SendScheduled(e, q, peers)
  BY DEF ClientSend, ServerSend
<1>2. phase[e] = "send" /\ scheduled[e][q] # <<>>
  BY <1>1 DEF SendScheduled, NextInLine
<1>3. /\ turn[e] = "poll" /\ Carry /\ UNCHANGED lost
      /\ turn' = [turn EXCEPT ![e] = "poll"]
      /\ e = client => UNCHANGED serverVars
      /\ e = server => UNCHANGED clientVars
  BY <1>2 DEF Poll, Turns
<1>4. LoopAt(e)
  OBVIOUS
<1>5. q = 1 /\ Len(scheduled[e][1]) <= 1 /\ scheduled[e][1] \in Seq(Scheduled)
  BY <1>2, <1>4 DEF LoopAt
<1>6. /\ Tail(scheduled[e][q]) = <<>>
      /\ item \in Scheduled
      /\ item \in ToSet(scheduled[e][q])
  BY <1>2, <1>5, ShortList, ToSetTail
<1>7. IInv /\ SequencesAreFree /\ item.id \in ConnectionId
  BY <1>6 DEF SampleInv, SequenceInv, TrackerInv, SequencesFit, Scheduled
<1>8. /\ item.id \in ConnectedIds(e)
      /\ connected[e][item.id] \in Peer
      /\ connected[e][item.id].address = o
      /\ connected[e][item.id] # NoPeer
      /\ item.address = o
  <2>1. connected[e][item.id] # NoPeer /\ connected[e][item.id].address = item.address
    BY <1>6, <1>7 DEF IInv, ScheduledToConnected
  <2>2. item.id \in ConnectedIds(e)
    BY <1>7, <2>1 DEF ConnectedIds
  <2>3. QED
    BY <1>7, <2>1, <2>2, OnePeer
<1> DEFINE peer == connected[e][item.id]
<1>9. PICK p : p = Created(e, q, item)
  OBVIOUS
<1>10. /\ p.kind = "DataTransfer" /\ p.src = e /\ p.dst = o
       /\ p.sequence = peer.sequence /\ p.ack = peer.remoteAck
  <2>1. DrainOrder[1].kind = "DataTransfer"
    BY DEF DrainOrder
  <2>2. QED
    BY <1>5, <1>8, <1>9, <2>1 DEF Created, IntoPacket
<1>11. SendPacket(e, p, DrainOrder[q].reliable, peers, sent[e], "send")
  BY <1>1, <1>8, <1>9 DEF SendScheduled
<1>12. PICK next \in {"send", "exhausted"} : phase' = [phase EXCEPT ![e] = next]
  BY <1>11 DEF SendPacket
<1>13. PICK row : connected' = [connected EXCEPT ![e] = row]
  BY <1>11 DEF SendPacket
<1>14. network' = network \cup {p}
  BY <1>11 DEF SendPacket
<1>15. sent' = sent
  <2>1. DrainOrder[1].reliable = FALSE
    BY DEF DrainOrder
  <2>2. sent' = [sent EXCEPT ![e] = sent[e]]
    BY <1>5, <1>11, <2>1 DEF SendPacket
  <2>3. QED
    BY <2>2
<1>16. /\ scheduled'[e][1] = <<>>
       /\ \A l \in Queue \ {1} : scheduled'[e][l] = <<>>
       /\ scheduled'[o] = scheduled[o]
  <2>1. scheduled' = [scheduled EXCEPT ![e][1] = <<>>]
    BY <1>1, <1>5, <1>6 DEF SendScheduled
  <2>2. 1 \in Queue
    BY DEF Queue
  <2>3. QED
    BY <1>0, <1>4, <2>1, <2>2 DEF LoopAt
<1>17. /\ e = client => /\ UNCHANGED <<scheduledRequest, sentRequest>>
                        /\ scheduledRequest[e] = <<>>
       /\ e = server => /\ UNCHANGED <<scheduledAccepted>>
                        /\ scheduledAccepted[e] = <<>>
  BY DEF ClientSend, ServerSend, serverVars
<1> HIDE DEF item, peer, o
<1>18. /\ turn'[e] = "poll" /\ turn'[o] = turn[o] /\ turn' \in [Endpoint -> Turn]
       /\ phase'[e] = next /\ phase'[o] = phase[o]
       /\ connected'[o] = connected[o]
  BY <1>0, <1>3, <1>12, <1>13 DEF Turn
<1>19. Idle(o)
  BY <1>0, <1>3, <1>15, <1>16, <1>18 DEF Idle
<1>20. e = client => RequestTrace'
  BY <1>2, <1>4, <1>17, <1>18 DEF RequestTrace, LoopAt
<1>21. LoopAt(e)'
  <2>1. Len(scheduled'[e][1]) <= 1
    <3>1. Len(<<>>) = 0
      OBVIOUS
    <3>2. QED
      BY <1>16, <3>1
  <2>2. \A k \in SentKind : sent'[e][k] = <<>>
    BY <1>4, <1>15 DEF LoopAt
  <2>3. QED
    BY <1>16, <1>18, <1>20, <2>1, <2>2 DEF LoopAt
<1>22. Says(e, p)
  <2>1. HasSomethingToSay(e)
    BY <1>2 DEF HasSomethingToSay, Stopped
  <2>2. ~HasSomethingToSay(e)'
    <3>1. \A l \in Queue : scheduled'[e][l] = <<>>
      BY <1>16
    <3>2. QED
      BY <1>17, <1>18, <3>1 DEF HasSomethingToSay
  <2>3. \A m \in Numbers(e) : m < p.sequence
    <3>1. peer.sequence \in Nat /\ 0 < peer.sequence
      BY <1>8, WidthAssumption DEF peer, Peer, Sequence
    <3>2. ASSUME NEW w \in network, w.src = e PROVE w.sequence < peer.sequence
      <4>1. w.dst = o
        BY <1>7, <3>2, PacketEnds DEF o
      <4>2. w.kind # "Fragment"
        BY <3>2 DEF SampleInv, TalkInv, PlainPackets
      <4>3. Fits(e, w)
        BY <1>2, <1>7, <3>2 DEF SequencesAreFree, Stopped
      <4>4. Below(w, peer)
        BY <1>8, <4>2, <4>3 DEF Fits, peer
      <4>5. QED
        BY <1>8, <4>1, <4>4 DEF Below, peer
    <3>3. QED
      BY <1>10, <3>1, <3>2 DEF Numbers
  <2>4. Latest(o, p.ack)
    BY <1>8, <1>10, <2>1 DEF SampleInv, TalkInv, SpeakerHasHeard, peer, o
  <2>5. Answerable(o, p)'
    BY <1>10 DEF Answerable
  <2>6. p \notin network
    <3> SUFFICES ASSUME p \in network PROVE FALSE
      OBVIOUS
    <3>1. p.sequence \in Numbers(e)
      BY <1>10 DEF Numbers
    <3>2. p.sequence \in Nat
      BY <1>8, <1>10, WidthAssumption DEF peer, Peer, Sequence
    <3>3. QED
      BY <2>3, <3>1, <3>2
  <2>7. flight' = [flight EXCEPT ![o] = <<p>>]
    <3>1. \A x \in Endpoint : flight[x] = <<>>
      BY <2>1, NoneFlies
    <3>2. QED
      BY <1>0, <1>3, <1>10, <1>14, <2>6, <3>1, CarryOne DEF SampleInv
  <2>8. QED
    BY <1>3, <1>10, <1>14, <2>1, <2>2, <2>3, <2>4, <2>5, <2>7 DEF Says, o
<1>23. QED
  BY <1>18, <1>19, <1>21, <1>22 DEF Acts, o

-----------------------------------------------------------------------------
(***************************************************************************)
(* Who hears something.                                                    *)
(***************************************************************************)

\* The word an end is about to hear.
LEMMA WordTo ==
  ASSUME SampleInv, NEW e \in Endpoint, flight[e] # <<>>,
         NEW p, p = Head(flight[e])
  PROVE  /\ p \in network /\ p \in Packet
         /\ p.dst = e /\ p.src = OtherEnd(e)
         /\ p.kind \notin {"Fragment", "Heartbeat"}
         /\ Answerable(e, p)
<1>1. p \in ToSet(flight[e])
  BY OneFlies
<1>2. p \in network /\ p.dst = e /\ p.src = OtherEnd(e) /\ Answerable(e, p)
  BY <1>1 DEF SampleInv, TalkInv, WordsAreLast
<1>3. p \in Packet /\ p.kind \notin {"Fragment", "Heartbeat"}
  BY <1>2 DEF SampleInv, SampleTypeOK, TypeOK, ProtocolTypeOK, TalkInv, PlainPackets
<1>4. QED
  BY <1>2, <1>3

\* A poll that has heard a word returns, and what it heard can be answered.
LEMMA HeardActs ==
  ASSUME SampleInv, NEW e \in Endpoint, flight[e] # <<>>,
         flight' = [flight EXCEPT ![e] = Tail(@)],
         UNCHANGED <<turn, lost>>,
         Receives(e, Head(flight[e])), Returns(e),
         connected'[OtherEnd(e)] = connected[OtherEnd(e)],
         e = client => /\ UNCHANGED serverVars
                       /\ UNCHANGED <<scheduledRequest, sentRequest>>
                       /\ scheduledRequest[client] = <<>>,
         e = server => UNCHANGED clientVars,
         ConnectedIds(e)' # {} \/ (e = server /\ scheduledAccepted'[e] # <<>>),
         \A id \in ConnectedIds(e)' : connected'[e][id].remoteAck = Head(flight[e]).sequence,
         e = server => \A id \in ConnectionId : awaitingAck'[e][id] # NoPeer =>
            awaitingAck'[e][id].remoteAck = Head(flight[e]).sequence
  PROVE  Acts(e)
<1> USE LoopBefore, TwoEnds
<1>1. /\ phase[e] = "send" /\ phase' = [phase EXCEPT ![e] = "poll"]
      /\ \A q \in Queue : scheduled[e][q] = <<>>
      /\ UNCHANGED <<network, scheduled, sent>>
  BY DEF Receives, Returns
<1>2. LoopAt(e)
  OBVIOUS
<1>3. turn[e] = "poll"
  BY <1>1, <1>2 DEF LoopAt
<1>4. /\ phase'[e] = "poll" /\ phase'[OtherEnd(e)] = phase[OtherEnd(e)]
      /\ turn' \in [Endpoint -> Turn]
  BY <1>1, OtherOf
<1>5. Idle(OtherEnd(e))
  BY <1>1, <1>4, OtherOf DEF Idle
<1>6. e = client => RequestTrace'
  <2> SUFFICES ASSUME e = client PROVE RequestTrace'
    OBVIOUS
  <2>1. /\ sentRequest[client] \in Seq(Sent) /\ sentRequest' = sentRequest
        /\ Len(sentRequest[client]) + Len(scheduledRequest[client]) <= 1
        /\ scheduledRequest[client] = <<>>
    BY <1>1, <1>2 DEF LoopAt, RequestTrace
  <2>2. Len(sentRequest'[client]) <= 1
    <3>1. Len(<<>>) = 0 /\ Len(sentRequest[client]) \in Nat
      BY <2>1
    <3>2. QED
      BY <2>1, <3>1
  <2>3. QED
    BY <1>4, <2>2 DEF RequestTrace
<1>7. LoopAt(e)'
  <2>1. 1 \in Queue
    BY DEF Queue
  <2>2. QED
    BY <1>1, <1>2, <1>3, <1>4, <1>6, <2>1 DEF LoopAt
<1>8. Hears(e)
  <2>1. HasSomethingToSay(e)'
    BY <1>4 DEF HasSomethingToSay
  <2>2. QED
    BY <1>1, <2>1 DEF Hears
<1>9. QED
  BY <1>4, <1>5, <1>7, <1>8 DEF Acts

\* The client hears that it is accepted, or what the server has sent it.
LEMMA ClientHears ==
  ASSUME SampleInv, Arrive(client)
  PROVE  Acts(client)
<1> USE LoopBefore, TwoEnds
<1>0. PICK p : p = Head(flight[client])
  OBVIOUS
<1>1. /\ flight[client] # <<>>
      /\ ClientReceive(client, p) /\ UNCHANGED serverVars
      /\ flight' = [flight EXCEPT ![client] = Tail(@)]
      /\ UNCHANGED <<turn, lost>>
  BY <1>0 DEF Arrive
<1>2. /\ p \in network /\ p \in Packet /\ p.src = server
      /\ p.kind \notin {"Fragment", "Heartbeat"}
      /\ Answerable(client, p)
  BY <1>0, <1>1, WordTo
<1>3. IInv /\ SentToConnected
  BY DEF SampleInv, SequenceInv, TrackerInv
<1>4. p.kind # "ConnectionRequest" /\ p.id \in ConnectionId /\ Owns(server, p.id, client)
  BY <1>2, <1>3, PacketEnds
<1>5. /\ Receives(client, p) /\ scheduledRequest[client] = <<>> /\ Returns(client)
      /\ ClientOnReceived(client, p)
      /\ UNCHANGED <<requesting, scheduledRequest, sentRequest>>
  BY <1>1 DEF ClientReceive, ClientOnReceived
<1>6. PICK old \in Peer : /\ connected' = [connected EXCEPT ![client][p.id] = Acked(old, p)]
                          /\ \A i \in ConnectedIds(client) : i = p.id
  <2>1. CASE p.kind = "ConnectionAccepted"
    <3>1. /\ awaiting[client][server] # NoPeer
          /\ requesting[client][server] = NoPeer
          /\ connected[client][p.id] = NoPeer
      BY <1>2, <2>1 DEF Answerable
    <3>2. OnConnectionAccepted(client, p)
      BY <1>5, <2>1 DEF ClientOnReceived
    <3>3. connected' = [connected EXCEPT ![client][p.id] = Acked(awaiting[client][server], p)]
      BY <1>2, <3>1, <3>2 DEF OnConnectionAccepted, Establish
    <3>4. ConnectedIds(client) = {}
      BY <1>3, <3>1, OnePeer DEF IInv, OneStatePerServer
    <3>5. awaiting[client][server] \in Peer
      BY <3>1 DEF TypeOK, ClientTypeOK
    <3>6. QED
      BY <3>3, <3>4, <3>5
  <2>2. CASE p.kind = "DataTransfer"
    <3>1. Owner(server, p.id) = connected[server][p.id] /\ connected[server][p.id] # NoPeer
      BY <1>2, <1>3, <2>2 DEF SentToConnected, SentKind, Owner
    <3>2. connected[server][p.id].address = client /\ p.id \in ConnectedIds(server)
      BY <1>4, <3>1 DEF Owns, ConnectedIds
    <3>3. connected[client][p.id] # NoPeer
      BY <1>3, <3>2 DEF IInv, EstablishedOnBothSides
    <3>4. OnDataTransfer(client, p)
      BY <1>5, <2>2 DEF ClientOnReceived
    <3>5. connected' = [connected EXCEPT ![client][p.id] = Acked(@, p)]
      BY <3>3, <3>4 DEF OnDataTransfer, AckConnected
    <3>6. p.id \in ConnectedIds(client)
      BY <1>4, <3>3 DEF ConnectedIds
    <3>7. connected[client][p.id] \in Peer
      BY <1>4, <3>3
    <3>8. connected' = [connected EXCEPT ![client][p.id] = Acked(connected[client][p.id], p)]
      BY <1>4, <3>5
    <3>9. QED
      BY <1>3, <3>6, <3>7, <3>8, OnePeer
  <2>3. p.kind \in {"ConnectionAccepted", "DataTransfer"}
    BY <1>2, <1>4, PacketFields DEF Kind
  <2>4. QED
    BY <2>1, <2>2, <2>3
<1>7. /\ connected'[client][p.id] = Acked(old, p)
      /\ connected'[client][p.id] # NoPeer
      /\ connected'[client][p.id].remoteAck = p.sequence
      /\ \A i \in ConnectionId \ {p.id} : connected'[client][i] = connected[client][i]
      /\ connected'[server] = connected[server]
  BY <1>2, <1>4, <1>6, AckedFields, AckedSame
<1>8. ConnectedIds(client)' = {p.id}
  <2>1. \A i \in ConnectionId \ {p.id} : connected'[client][i] = NoPeer
    BY <1>6, <1>7 DEF ConnectedIds
  <2>2. QED
    BY <1>4, <1>7, <2>1 DEF ConnectedIds
<1>9. \A id \in ConnectedIds(client)' : connected'[client][id].remoteAck = p.sequence
  BY <1>7, <1>8
<1>10. QED
  BY <1>0, <1>1, <1>5, <1>7, <1>8, <1>9, HeardActs

\* The server hears that it is asked for a connection, or what the client has
\* sent it.  With the last id given away, it breaks down instead.
LEMMA ServerHears ==
  ASSUME SampleInv, Arrive(server)
  PROVE  Acts(server)
<1> USE LoopBefore, TwoEnds
<1>0. PICK p : p = Head(flight[server])
  OBVIOUS
<1>1. /\ flight[server] # <<>>
      /\ ServerReceive(server, p) /\ UNCHANGED clientVars
      /\ flight' = [flight EXCEPT ![server] = Tail(@)]
      /\ UNCHANGED <<turn, lost>>
  BY <1>0 DEF Arrive
<1>2. /\ p \in network /\ p \in Packet /\ p.src = client
      /\ p.kind \notin {"Fragment", "Heartbeat"}
      /\ Answerable(server, p)
  BY <1>0, <1>1, WordTo
<1>3. IInv
  BY DEF SampleInv, SequenceInv, TrackerInv
<1>4. Receives(server, p) /\ ServerOnReceived(server, p)
  BY <1>1 DEF ServerReceive
<1>5. CASE p.kind = "ConnectionRequest"
  <2>1. \A id \in ConnectionId : Owner(server, id) = NoPeer
    BY <1>2, <1>5 DEF Answerable
  <2>2. \A id \in ConnectionId : connected[server][id] = NoPeer /\ awaitingAck[server][id] = NoPeer
    BY <2>1 DEF Owner
  <2>3. OnConnectionRequest(server, p) /\ ~ConnectionRequestAnotherState(server, p.src)
    BY <1>4, <1>5, <2>2 DEF ServerOnReceived, ConnectionRequestAnotherState
  <2>4. UNCHANGED connected
    BY <2>3 DEF OnConnectionRequest
  <2>5. CASE connectionIdTracker[server] = ConnectionIdLimit
    <3>1. /\ phase[server] = "send"
          /\ phase' = [phase EXCEPT ![server] = "exhausted"]
          /\ UNCHANGED <<network, connected, scheduled, sent, scheduledAccepted>>
          /\ \A q \in Queue : scheduled[server][q] = <<>>
      BY <1>4, <2>3, <2>5 DEF OnConnectionRequest, Receives
    <3>2. phase'[server] = "exhausted" /\ phase'[client] = phase[client]
      BY <3>1
    <3>3. Idle(client)
      BY <1>1, <3>1, <3>2 DEF Idle
    <3>4. LoopAt(server) /\ turn[server] = "poll"
      BY <3>1 DEF LoopAt
    <3>5. LoopAt(server)'
      BY <1>1, <3>1, <3>2, <3>4 DEF LoopAt
    <3>6. ~HasSomethingToSay(server)
      BY <1>1, OneFlies
    <3>7. ~HasSomethingToSay(server)'
      BY <1>1, <3>2, <3>4 DEF HasSomethingToSay, Stopped
    <3>8. Misses(server)
      BY <1>1, <3>1, <3>6, <3>7 DEF Misses, SampleInv, SampleTypeOK
    <3>9. QED
      BY <1>1, <3>3, <3>5, <3>8 DEF Acts
  <2>6. CASE connectionIdTracker[server] # ConnectionIdLimit
    <3> DEFINE id == connectionIdTracker[server]
               item == [id |-> id, address |-> p.src]
    <3>1. id \in ConnectionId /\ item \in ScheduledAccepted
      BY <1>2 DEF TypeOK, ServerTypeOK, ScheduledAccepted
    <3>2. /\ Returns(server)
          /\ scheduledAccepted' = [scheduledAccepted EXCEPT ![server] = Append(@, item)]
          /\ awaitingAck' = [awaitingAck EXCEPT ![server][id] = NewPeer(p.src, p.sequence)]
      BY <2>3, <2>6 DEF OnConnectionRequest
    <3>3. scheduledAccepted'[server] # <<>>
      BY <3>1, <3>2, LongerList
    <3>4. \A i \in ConnectionId : awaitingAck'[server][i] # NoPeer =>
            awaitingAck'[server][i].remoteAck = p.sequence
      <4>1. awaitingAck \in [Servers -> [ConnectionId -> Peer \cup {NoPeer}]]
        BY DEF TypeOK, ServerTypeOK
      <4>2. NewPeer(p.src, p.sequence).remoteAck = p.sequence
        BY DEF NewPeer
      <4>3. QED
        BY <2>2, <3>1, <3>2, <4>1, <4>2
    <3>5. ConnectedIds(server)' = {}
      BY <2>2, <2>4 DEF ConnectedIds
    <3>6. QED
      BY <1>0, <1>1, <1>4, <2>4, <3>2, <3>3, <3>4, <3>5, HeardActs
  <2>7. QED
    BY <2>5, <2>6
<1>6. CASE p.kind = "DataTransfer"
  <2>1. FromClientTrue(p) /\ p.id \in ConnectionId
    BY <1>2, <1>3, <1>6, PacketFields DEF IInv, PacketsSpeakTrue
  <2>2. p.id \in ConnectedIds(client)
    BY <1>2, <2>1 DEF FromClientTrue, ConnectedIds
  <2>3. Owner(server, p.id) # NoPeer
    BY <1>3, <2>2, OnePeer DEF IInv, IdsAgree, Owns
  <2>4. KnownId(server, p.id)
    BY <2>3 DEF Owner, KnownId
  <2>5. AckPeer(server, p)
    BY <1>4, <1>6, <2>4 DEF ServerOnReceived, ServerOnDataTransfer
  <2>6. \A i \in ConnectionId \ {p.id} :
          connected[server][i] = NoPeer /\ awaitingAck[server][i] = NoPeer
    <3>1. \A i \in ConnectionId \ {p.id} : Owner(server, i) = NoPeer
      BY <1>3, <2>1, <2>3, OnePeer
    <3>2. QED
      BY <3>1 DEF Owner
  <2>7. Owner(server, p.id) \in Peer
    BY <2>1, <2>3 DEF Owner, TypeOK, ServerTypeOK
  <2>8. connected' = [connected EXCEPT ![server][p.id] = Acked(Owner(server, p.id), p)]
    BY <2>1, <2>5 DEF AckPeer, Owner
  <2>9. /\ connected'[server][p.id] = Acked(Owner(server, p.id), p)
        /\ connected'[server][p.id] # NoPeer
        /\ connected'[server][p.id].remoteAck = p.sequence
        /\ \A i \in ConnectionId \ {p.id} : connected'[server][i] = connected[server][i]
        /\ connected'[client] = connected[client]
    BY <1>2, <2>1, <2>7, <2>8, AckedFields, AckedSame
  <2>10. ConnectedIds(server)' = {p.id}
    BY <2>1, <2>6, <2>9 DEF ConnectedIds
  <2>11. \A i \in ConnectionId : awaitingAck'[server][i] = NoPeer
    <3>1. awaitingAck \in [Servers -> [ConnectionId -> Peer \cup {NoPeer}]]
      BY DEF TypeOK, ServerTypeOK
    <3>2. CASE connected[server][p.id] # NoPeer
      <4>1. awaitingAck' = awaitingAck /\ awaitingAck[server][p.id] = NoPeer
        BY <1>3, <2>1, <2>5, <3>2 DEF AckPeer, IInv, UniqueIds
      <4>2. QED
        BY <2>6, <4>1
    <3>3. CASE connected[server][p.id] = NoPeer
      <4>1. awaitingAck' = [awaitingAck EXCEPT ![server][p.id] = NoPeer]
        BY <2>5, <3>3 DEF AckPeer
      <4>2. QED
        BY <2>1, <2>6, <3>1, <4>1
    <3>4. QED
      BY <3>2, <3>3
  <2>12. Returns(server)
    BY <2>5 DEF AckPeer
  <2>13. \A id \in ConnectedIds(server)' : connected'[server][id].remoteAck = p.sequence
    BY <2>9, <2>10
  <2>14. QED
    BY <1>0, <1>1, <1>4, <2>9, <2>10, <2>11, <2>12, <2>13, HeardActs
<1>7. p.kind \in {"ConnectionRequest", "DataTransfer"}
  BY <1>2, <1>3, PacketFields, PacketEnds DEF Kind
<1>8. QED
  BY <1>5, <1>6, <1>7

-----------------------------------------------------------------------------
(***************************************************************************)
(* All steps.                                                              *)
(***************************************************************************)

\* A step of the sample is a step of the thread of one end.
LEMMA SampleStep ==
  ASSUME SampleInv, SampleNext, SequenceLimit > 1
  PROVE  \E e \in Endpoint : Acts(e)
<1> USE TwoEnds
<1>1. ASSUME NEW e \in Endpoint, Poll(e) PROVE Acts(e)
  <2>1. CASE e = client /\ ClientPolls(client) /\ UNCHANGED serverVars
    <3>1. CASE RetryConnectionRequest(client) \/ ClientRetryDataTransfer(client)
      BY <1>1, <2>1, <3>1, NothingRetried, RetryActs
    <3>2. CASE SendConnectionRequest(client)
      BY <1>1, <2>1, <3>2, RequestActs
    <3>3. CASE \E q \in Queue : ClientSend(client, q)
      BY <1>1, <2>1, <3>3, DataActs
    <3>4. CASE ClientPoll(client)
      BY <1>1, <2>1, <3>4, ReturnActs
    <3>5. QED
      BY <2>1, <3>1, <3>2, <3>3, <3>4 DEF ClientPolls
  <2>2. CASE e = server /\ ServerPolls(server) /\ UNCHANGED clientVars
    <3>1. CASE \/ RetryConnectionAccepted(server)
               \/ ServerRetryDataTransfer(server)
               \/ ServerRetryFragment(server)
      BY <1>1, <2>2, <3>1, NothingRetried, RetryActs
    <3>2. CASE SendConnectionAccepted(server)
      BY <1>1, <2>2, <3>2, AcceptActs
    <3>3. CASE \E q \in Queue : ServerSend(server, q)
      BY <1>1, <2>2, <3>3, DataActs
    <3>4. CASE ServerPoll(server)
      BY <1>1, <2>2, <3>4, ReturnActs
    <3>5. QED
      BY <2>2, <3>1, <3>2, <3>3, <3>4 DEF ServerPolls
  <2>3. QED
    BY <1>1, <2>1, <2>2 DEF Poll
<1>2. CASE AskForConnection
  BY <1>2, AskActs
<1>3. ASSUME NEW e \in Endpoint, Arrive(e) PROVE Acts(e)
  BY <1>3, ClientHears, ServerHears
<1>4. ASSUME NEW e \in Endpoint, ScheduleBroadcast(e) PROVE Acts(e)
  BY <1>4, ScheduleActs
<1>5. ASSUME NEW e \in Endpoint, Lose(e) PROVE Acts(e)
  BY <1>5, LoseActs
<1>6. ASSUME NEW e \in Endpoint, TimePasses(e) PROVE Acts(e)
  BY <1>6, TimeActs
<1>7. QED
  BY <1>1, <1>2, <1>3, <1>4, <1>5, <1>6 DEF SampleNext

\* The threads are spawned: only the client has something to say.
LEMMA SampleStart ==
  ASSUME SampleInit
  PROVE  /\ \A e \in Endpoint : HasSomethingToSay(e) <=> e = client
         /\ \A e \in Endpoint : flight[e] = <<>>
         /\ network = {} /\ ~lost
<1> USE TwoEnds
<1>1. /\ phase = [e \in Endpoint |-> "app"]
      /\ scheduled = [e \in Endpoint |-> [q \in Queue |-> <<>>]]
      /\ scheduledAccepted = [s \in Servers |-> <<>>]
      /\ turn = [e \in Endpoint |-> IF e = client THEN "connect" ELSE "poll"]
      /\ flight = [e \in Endpoint |-> <<>>]
      /\ network = {} /\ ~lost
  BY DEF SampleInit, Init, ProtocolInit, ServerInit
<1>2. HasSomethingToSay(client)
  BY <1>1 DEF HasSomethingToSay
<1>3. ~HasSomethingToSay(server)
  BY <1>1 DEF HasSomethingToSay
<1>4. QED
  BY <1>1, <1>2, <1>3

LEMMA SampleInvInit == SampleInit => SampleInv
<1> SUFFICES ASSUME SampleInit PROVE SampleInv
  OBVIOUS
<1> USE TwoEnds
<1>1. SequenceInv /\ LinkInv /\ TypeOK
  <2>1. SequenceInv /\ LinkInv
    BY SequenceInit, LinkInit DEF SampleInit
  <2>2. QED
    BY <2>1 DEF SequenceInv, TrackerInv, IInv
<1>2. /\ \A e \in Endpoint : HasSomethingToSay(e) <=> e = client
      /\ \A e \in Endpoint : flight[e] = <<>>
      /\ network = {} /\ ~lost
  BY SampleStart
<1>3. Len(<<>>) = 0
  OBVIOUS
<1>4. SampleTypeOK
  <2>1. turn \in [Endpoint -> Turn]
    BY DEF SampleInit, Turn
  <2>2. flight \in [Endpoint -> Seq(Packet)] /\ lost \in BOOLEAN
    <3>1. <<>> \in Seq(Packet)
      OBVIOUS
    <3>2. flight = [e \in Endpoint |-> <<>>] /\ lost = FALSE
      BY DEF SampleInit
    <3>3. QED
      BY <3>1, <3>2
  <2>3. QED
    BY <1>1, <2>1, <2>2 DEF SampleTypeOK
<1>5. LoopInv
  <2>1. /\ phase = [e \in Endpoint |-> "app"]
        /\ scheduled = [e \in Endpoint |-> [q \in Queue |-> <<>>]]
        /\ sent = [e \in Endpoint |-> [k \in SentKind |-> <<>>]]
        /\ scheduledRequest = [c \in Clients |-> <<>>]
        /\ sentRequest = [c \in Clients |-> <<>>]
        /\ turn = [e \in Endpoint |-> IF e = client THEN "connect" ELSE "poll"]
    BY DEF SampleInit, Init, ProtocolInit, ClientInit
  <2>2. 1 \in Queue
    BY DEF Queue
  <2>3. TurnsAlternate /\ NothingLeft /\ CanAnswer /\ RequestTrace
    BY <2>1, <2>2 DEF TurnsAlternate, NothingLeft, CanAnswer, RequestTrace
  <2>4. OneToSend
    BY <1>3, <2>1, <2>2 DEF OneToSend
  <2>5. QED
    BY <2>3, <2>4 DEF LoopInv
<1>6. TalkInv
  <2>1. PlainPackets
    BY <1>2 DEF PlainPackets
  <2>2. OneWord
    BY <1>2, <1>3 DEF OneWord, Live
  <2>3. WordsAreLast
    BY <1>2, ToSetEmpty DEF WordsAreLast
  <2>4. SpeakerHasHeard
    <3>1. ConnectedIds(client) = {}
      BY DEF SampleInit, Init, ProtocolInit, ConnectedIds
    <3>2. QED
      BY <1>2, <3>1 DEF SpeakerHasHeard
  <2>5. QED
    BY <2>1, <2>2, <2>3, <2>4 DEF TalkInv
<1>7. QED
  BY <1>1, <1>4, <1>5, <1>6 DEF SampleInv

LEMMA SampleInvStep ==
  ASSUME SampleInv, SampleNext, SequenceLimit > 1
  PROVE  SampleInv'
<1>1. SequenceInv' /\ LinkInv' /\ TypeOK'
  <2>1. [Next]_vars
    BY SampleIsAntarc
  <2>2. SequenceInv'
    BY <2>1, SequenceNext DEF SampleInv
  <2>3. LinkInv' /\ IInv'
    BY <2>1, LinksInductive DEF SampleInv, SequenceInv, TrackerInv
  <2>4. QED
    BY <2>2, <2>3 DEF IInv
<1>2. PICK e \in Endpoint : Acts(e)
  BY SampleStep
<1>3. TalkInv' /\ SampleTypeOK'
  BY <1>1, <1>2, TalkKept
<1>4. LoopInv'
  <2>1. LoopAt(OtherEnd(e))
    BY LoopsAt, OtherOf DEF SampleInv
  <2>2. LoopAt(OtherEnd(e))'
    BY <1>2, <2>1, IdleStays, OtherOf DEF Acts
  <2>3. LoopAt(e)'
    BY <1>2 DEF Acts
  <2>4. \A x \in Endpoint : LoopAt(x)'
    <3>1. \A x \in Endpoint : x = e \/ x = OtherEnd(e)
      BY OtherOf
    <3>2. QED
      BY <2>2, <2>3, <3>1
  <2>5. QED
    BY <2>4, LoopsAtNext
<1>5. QED
  BY <1>1, <1>3, <1>4 DEF SampleInv

\* What stands still stays true.
LEMMA SampleInvStill == SampleInv /\ UNCHANGED sampleVars => SampleInv'
<1> SUFFICES ASSUME SampleInv, UNCHANGED sampleVars PROVE SampleInv'
  OBVIOUS
<1>1. UNCHANGED vars /\ UNCHANGED <<turn, flight, lost>>
  BY DEF sampleVars
<1>2. /\ UNCHANGED <<network, clock, phase, packetIdTracker, connected>>
      /\ UNCHANGED <<reassembler, scheduled, sent, api>>
      /\ UNCHANGED <<requesting, awaiting, scheduledRequest, sentRequest>>
      /\ UNCHANGED <<awaitingAck, connectionIdTracker, scheduledAccepted, sentAccepted>>
  BY <1>1 DEF vars, protocolVars, clientVars, serverVars
<1>3. SequenceInv'
  BY <1>1, SequenceNext DEF SampleInv
<1>4. LinkInv'
  BY <1>2 DEF SampleInv, LinkInv, RequestingIsFresh, OwnersAsked, Owns, Owner, KnownPeer,
     ConnectedIds
<1>5. SampleTypeOK'
  BY <1>1, <1>3 DEF SampleInv, SampleTypeOK, SequenceInv, TrackerInv, IInv
<1>6. LoopInv'
  BY <1>1, <1>2 DEF SampleInv, LoopInv, TurnsAlternate, OneToSend, NothingLeft, CanAnswer,
     RequestTrace, ConnectedIds
<1>7. TalkInv'
  <2>1. \A e \in Endpoint : Idle(e)
    BY <1>1, <1>2 DEF Idle, clientVars, serverVars
  <2>2. \A e \in Endpoint : HasSomethingToSay(e)' <=> HasSomethingToSay(e)
    BY <2>1, IdleStays
  <2>3. ASSUME NEW e \in Endpoint PROVE TalkInv'
    <3>1. Silent(e)
      BY <1>1, <1>2, <2>2 DEF Silent
    <3>2. QED
      BY <2>1, <3>1, OtherOf, SilentKept
  <2>4. QED
    BY <2>3, TwoEnds
<1>8. QED
  BY <1>3, <1>4, <1>5, <1>6, <1>7 DEF SampleInv

-----------------------------------------------------------------------------
(***************************************************************************)
(* The two threads of antarc-sample do nothing that Antarc does not allow, *)
(* so all that is proved of Antarc is true of them.                        *)
(***************************************************************************)
THEOREM SampleImplementsAntarc == SampleSpec => Spec
<1>1. SampleInit => Init
  BY DEF SampleInit
<1>2. [SampleNext]_sampleVars => [Next]_vars
  BY SampleIsAntarc DEF sampleVars
<1>3. QED
  BY <1>1, <1>2, PTL DEF SampleSpec, Spec

(***************************************************************************)
(* The loops, each by itself and both together: at most one thing to send, *)
(* and one word at a time, which acks the last one.  The hypothesis is     *)
(* that of HandshakeRefined: the client does not break down over the very  *)
(* request it sends.                                                       *)
(***************************************************************************)
THEOREM SampleInductive ==
  ASSUME SequenceLimit > 1
  PROVE  SampleSpec => []SampleInv
<1>1. SampleInv /\ [SampleNext]_sampleVars => SampleInv'
  BY SampleInvStep, SampleInvStill
<1>2. QED
  BY SampleInvInit, <1>1, PTL DEF SampleSpec

(***************************************************************************)
(* The threads of antarc-sample keep the types of their variables.         *)
(***************************************************************************)
THEOREM SampleTypeCorrect ==
  ASSUME SequenceLimit > 1
  PROVE  SampleSpec => []SampleTypeOK
<1>1. SampleInv => SampleTypeOK
  BY DEF SampleInv
<1>2. QED
  BY SampleInductive, <1>1, PTL

(***************************************************************************)
(* Whatever is on its way to an end acks the very last packet that end has *)
(* sent: on_received and create_* keep the trackers of both ends in step.  *)
(***************************************************************************)
THEOREM EveryPacketAcksTheLastHolds ==
  ASSUME SequenceLimit > 1
  PROVE  SampleSpec => []EveryPacketAcksTheLast
<1>1. SampleInv => EveryPacketAcksTheLast
  <2> SUFFICES ASSUME SampleInv, NEW e \in Endpoint, NEW p \in ToSet(flight[e])
               PROVE  p.ack = LastSent(e)
    BY DEF EveryPacketAcksTheLast
  <2>1. Latest(e, p.ack)
    BY DEF SampleInv, TalkInv, WordsAreLast
  <2>2. QED
    BY <2>1, LatestIsLast DEF SampleInv, SampleTypeOK
<1>2. QED
  BY SampleInductive, <1>1, PTL

(***************************************************************************)
(* After one lost datagram nothing is sent any more: both threads are in   *)
(* recv_from, and there is nothing left that could arrive.                 *)
(***************************************************************************)
THEOREM NothingAfterLossHolds ==
  ASSUME SequenceLimit > 1
  PROVE  SampleSpec => NothingAfterLoss
<1>1. SampleInv /\ [SampleNext]_sampleVars => [lost => UNCHANGED network]_network
  <2> SUFFICES ASSUME SampleInv, SampleNext, lost PROVE UNCHANGED network
    BY DEF sampleVars, vars, protocolVars
  <2>1. PICK e \in Endpoint : Acts(e)
    BY SampleStep
  <2>2. ~HasSomethingToSay(e)
    BY NoneFlies
  <2>3. QED
    BY <2>1, <2>2 DEF Acts, Silent, Says, Hears, Misses
<1>2. QED
  BY SampleInductive, <1>1, PTL DEF SampleSpec, NothingAfterLoss

(***************************************************************************)
(* The two loops implement the exchange: one end at a time has something   *)
(* to say, never are two datagrams on their way, and what makes an end     *)
(* speak is a word it has heard, from the handshake on.                    *)
(***************************************************************************)
THEOREM ExchangeRefined ==
  ASSUME SequenceLimit > 1
  PROVE  SampleSpec => ImplementsExchange
<1>1. SampleInit => Talk!Init
  <2> SUFFICES ASSUME SampleInit PROVE Talk!Init
    OBVIOUS
  <2>1. Speakers = {client}
    BY SampleStart, TwoEnds DEF Speakers
  <2>2. Len(<<>>) = 0
    OBVIOUS
  <2>3. Flying = [e \in Talk!Ends |-> 0]
    BY <2>2, SampleStart, TwoEnds DEF Flying, Talk!Ends
  <2>4. QED
    BY <2>1, <2>3 DEF Talk!Init, Speakers, Flying
<1>2. SampleInv /\ [SampleNext]_sampleVars => [Talk!Next]_<<Speakers, Flying>>
  <2>1. ASSUME SampleInv, SampleNext PROVE [Talk!Next]_<<Speakers, Flying>>
    BY <2>1, SampleStep, TalkStep
  <2>2. ASSUME UNCHANGED sampleVars PROVE UNCHANGED <<Speakers, Flying>>
    BY <2>2 DEF sampleVars, vars, protocolVars, clientVars, serverVars, Speakers, Flying,
       HasSomethingToSay
  <2>3. QED
    BY <2>1, <2>2
<1>3. QED
  BY SampleInductive, <1>1, <1>2, PTL
  DEF SampleSpec, ImplementsExchange, Talk!Spec, Speakers, Flying
=============================================================================
