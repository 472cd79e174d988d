------------------------ MODULE AntarcSequenceProofs ------------------------
(***************************************************************************)
(* A sequence identifies the packet it is put on, for every number of      *)
(* endpoints, every width and every length of a payload: SequenceInv is    *)
(* inductive.                                                              *)
(*                                                                         *)
(* The groups in the scheduler's lists are looked at first, then the ways  *)
(* a step may send a packet (Rests, Opens, Drains), then what each of them *)
(* does to the sequences of the sender's peers.  Then payloads: the parts  *)
(* of one go out under one sequence (GroupInv), and what is handed over is *)
(* of one payload and from the peer it is said to be from (DeliveryInv).   *)
(***************************************************************************)
EXTENDS AntarcSequences, AntarcTrackerProofs

-----------------------------------------------------------------------------
(***************************************************************************)
(* The groups in a list.                                                   *)
(***************************************************************************)

\* Both lists of fragments are lists poll drains.
LEMMA FragmentQueues ==
  /\ FragmentQueue \subseteq Queue
  /\ \A q \in FragmentQueue : DrainOrder[q].kind = "Fragment"
  /\ Queue \subseteq Nat
BY DEF FragmentQueue, Queue

\* Poll takes the first item of a list.
LEMMA GroupsEndTail ==
  ASSUME NEW S, NEW list \in Seq(S), list # <<>>, GroupsEnd(list)
  PROVE  GroupsEnd(Tail(list))
<1> SUFFICES ASSUME NEW i \in DOMAIN Tail(list)
             PROVE  \E j \in DOMAIN Tail(list) :
                      /\ i <= j
                      /\ Tail(list)[j].id = Tail(list)[i].id
                      /\ Tail(list)[j].index =
                           (Tail(list)[j].total - 1) % FragmentModulus
                      /\ \A k \in i .. j :
                           Tail(list)[k].id = Tail(list)[i].id =>
                             Tail(list)[k].packetId = Tail(list)[i].packetId
  BY DEF GroupsEnd
<1>1. /\ Len(list) \in Nat /\ DOMAIN list = 1 .. Len(list)
      /\ DOMAIN Tail(list) = 1 .. Len(list) - 1
  OBVIOUS
<1>2. \A k \in 1 .. Len(list) - 1 : Tail(list)[k] = list[k + 1]
  OBVIOUS
<1>3. i + 1 \in DOMAIN list /\ i \in Nat
  BY <1>1
<1>4. PICK j \in DOMAIN list :
        /\ i + 1 <= j
        /\ list[j].id = list[i + 1].id
        /\ list[j].index = (list[j].total - 1) % FragmentModulus
        /\ \A k \in i + 1 .. j :
             list[k].id = list[i + 1].id => list[k].packetId = list[i + 1].packetId
  BY <1>3 DEF GroupsEnd
<1>5. /\ j - 1 \in DOMAIN Tail(list) /\ i <= j - 1 /\ (j - 1) + 1 = j
  BY <1>1, <1>3, <1>4
<1>6. Tail(list)[i] = list[i + 1] /\ Tail(list)[j - 1] = list[j]
  BY <1>1, <1>2, <1>5
<1>7. \A k \in i .. j - 1 : k + 1 \in i + 1 .. j /\ Tail(list)[k] = list[k + 1]
  BY <1>1, <1>2, <1>3, <1>4
<1>8. QED
  BY <1>4, <1>5, <1>6, <1>7

\* A call appends whole groups to a list of such.
LEMMA GroupsEndConcat ==
  ASSUME NEW S, NEW list \in Seq(S), NEW more \in Seq(S),
         GroupsEnd(list), GroupsEnd(more)
  PROVE  GroupsEnd(list \o more)
<1> DEFINE both == list \o more
           n == Len(list)
<1>1. /\ n \in Nat /\ Len(more) \in Nat
      /\ DOMAIN list = 1 .. n /\ DOMAIN more = 1 .. Len(more)
      /\ DOMAIN both = 1 .. n + Len(more)
  OBVIOUS
<1>2. \A k \in 1 .. n : both[k] = list[k]
  OBVIOUS
<1>3. \A k \in 1 .. Len(more) : both[n + k] = more[k]
  OBVIOUS
<1> HIDE DEF both, n
<1> SUFFICES ASSUME NEW i \in DOMAIN both
             PROVE  \E j \in DOMAIN both :
                      /\ i <= j
                      /\ both[j].id = both[i].id
                      /\ both[j].index = (both[j].total - 1) % FragmentModulus
                      /\ \A k \in i .. j :
                           both[k].id = both[i].id =>
                             both[k].packetId = both[i].packetId
  BY DEF GroupsEnd, both
<1>4. CASE i <= n
  <2>1. i \in DOMAIN list
    BY <1>1, <1>4
  <2>2. PICK j \in DOMAIN list :
          /\ i <= j
          /\ list[j].id = list[i].id
          /\ list[j].index = (list[j].total - 1) % FragmentModulus
          /\ \A k \in i .. j :
               list[k].id = list[i].id => list[k].packetId = list[i].packetId
    BY <2>1 DEF GroupsEnd
  <2>3. j \in DOMAIN both /\ both[j] = list[j] /\ both[i] = list[i]
    BY <1>1, <1>2, <2>1
  <2>4. \A k \in i .. j : both[k] = list[k]
    BY <1>1, <1>2, <2>1
  <2>5. QED
    BY <2>2, <2>3, <2>4
<1>5. CASE ~(i <= n)
  <2>1. i - n \in DOMAIN more /\ n + (i - n) = i
    BY <1>1, <1>5
  <2>2. PICK j \in DOMAIN more :
          /\ i - n <= j
          /\ more[j].id = more[i - n].id
          /\ more[j].index = (more[j].total - 1) % FragmentModulus
          /\ \A k \in i - n .. j :
               more[k].id = more[i - n].id => more[k].packetId = more[i - n].packetId
    BY <2>1 DEF GroupsEnd
  <2>3. n + j \in DOMAIN both /\ i <= n + j
    BY <1>1, <2>1, <2>2
  <2>4. both[n + j] = more[j] /\ both[i] = more[i - n]
    BY <1>1, <1>3, <2>1
  <2>5. \A k \in i .. n + j : k - n \in i - n .. j /\ both[k] = more[k - n]
    <3>1. \A k \in i .. n + j : /\ k - n \in i - n .. j
                                /\ k - n \in 1 .. Len(more)
                                /\ n + (k - n) = k
      BY <1>1, <2>1, <2>2
    <3>2. QED
      BY <1>3, <3>1
  <2>6. QED
    BY <2>2, <2>3, <2>4, <2>5
<1>6. QED
  BY <1>4, <1>5

\* Rows of a table, read row by row: where an entry is, its row and column are.
LEMMA RowAndColumn ==
  ASSUME NEW width \in Nat \ {0}, NEW row \in Nat, NEW column \in 0 .. width - 1
  PROVE  /\ (row * width + column) % width = column
         /\ (row * width + column) \div width = row
OBVIOUS

\* The last chunk's number is the total less one, both as their bytes tell.
LEMMA LastIndex ==
  ASSUME NEW total \in Nat
  PROVE  ((total % FragmentModulus) - 1) % FragmentModulus
           = (total - 1) % FragmentModulus
<1> DEFINE m == FragmentModulus
           row == total \div m
           rest == total % m
<1>1. m \in Nat \ {0, 1}
  BY WidthAssumption
<1> HIDE DEF m
<1>2. row \in Nat /\ rest \in 0 .. m - 1 /\ total = row * m + rest
  BY <1>1
<1> HIDE DEF row, rest
<1>3. CASE rest # 0
  <2>1. total - 1 = row * m + (rest - 1) /\ rest - 1 \in 0 .. m - 1
    BY <1>1, <1>2, <1>3
  <2>2. (total - 1) % m = rest - 1
    BY <1>1, <1>2, <2>1, RowAndColumn
  <2>3. (rest - 1) % m = rest - 1
    BY <1>1, <2>1
  <2>4. QED
    BY <2>2, <2>3 DEF rest, m
<1>4. CASE rest = 0 /\ row # 0
  <2>1. total - 1 = (row - 1) * m + (m - 1)
    BY <1>1, <1>2, <1>4
  <2>2. row - 1 \in Nat /\ m - 1 \in 0 .. m - 1
    BY <1>1, <1>2, <1>4
  <2>3. (total - 1) % m = m - 1
    BY <1>1, <2>1, <2>2, RowAndColumn
  <2>4. (0 - 1) % m = m - 1
    BY <1>1
  <2>5. QED
    BY <1>4, <2>3, <2>4 DEF rest, m
<1>5. CASE rest = 0 /\ row = 0
  <2>1. total = 0
    BY <1>1, <1>2, <1>5
  <2>2. 0 % m = 0
    BY <1>1
  <2>3. QED
    BY <2>1, <2>2 DEF m
<1>6. QED
  BY <1>3, <1>4, <1>5

\* What one call queues as fragments is a whole group to each recipient.
LEMMA GroupsEndBatch ==
  ASSUME ProtocolTypeOK, NEW e \in Endpoint, NEW ids \in Recipients(e),
         NEW total \in Nat
  PROVE  GroupsEnd(Batch(e, ids, total))
<1> DEFINE width == Len(ids)
           list == Batch(e, ids, total)
<1>1. width \in Nat /\ total * width \in Nat
  BY RecipientsType
<1>2. DOMAIN list = 1 .. total * width
  BY DEF Batch
<1>3. \A k \in 1 .. total * width :
        /\ list[k].id = ids[((k - 1) % width) + 1]
        /\ list[k].packetId = packetIdTracker[e]
        /\ list[k].index = ((k - 1) \div width) % FragmentModulus
        /\ list[k].total = total % FragmentModulus
  BY DEF Batch, ScheduledItem
<1> HIDE DEF list, width
<1> SUFFICES ASSUME NEW i \in 1 .. total * width
             PROVE  \E j \in 1 .. total * width :
                      /\ i <= j
                      /\ list[j].id = list[i].id
                      /\ list[j].index = (list[j].total - 1) % FragmentModulus
                      /\ \A k \in i .. j :
                           list[k].id = list[i].id =>
                             list[k].packetId = list[i].packetId
  BY <1>2 DEF GroupsEnd, list
<1>4. width # 0 /\ total # 0
  BY <1>1
<1> DEFINE column == (i - 1) % width
           row == (i - 1) \div width
           j == (total - 1) * width + column + 1
<1>5. /\ column \in 0 .. width - 1 /\ row \in Nat
      /\ i - 1 = row * width + column
  BY <1>1, <1>4
<1>6. row <= total - 1
  <2>1. row * width < total * width
    BY <1>1, <1>5
  <2>2. row < total
    BY <1>1, <1>4, <1>5, <2>1
  <2>3. QED
    BY <1>5, <2>2
<1> HIDE DEF row
<1>7. j \in 1 .. total * width /\ i <= j
  <2>1. row * width <= (total - 1) * width
    BY <1>1, <1>4, <1>5, <1>6
  <2>2. (total - 1) * width + width = total * width
    BY <1>1
  <2>3. (total - 1) * width \in Nat
    BY <1>1, <1>4
  <2>4. QED
    BY <1>1, <1>5, <2>1, <2>2, <2>3
<1>8. (j - 1) % width = column /\ (j - 1) \div width = total - 1
  <2>1. total - 1 \in Nat /\ width \in Nat \ {0} /\ column \in 0 .. width - 1
    BY <1>1, <1>4, <1>5
  <2> HIDE DEF column
  <2>2. /\ ((total - 1) * width + column) % width = column
        /\ ((total - 1) * width + column) \div width = total - 1
    BY <2>1, RowAndColumn
  <2>3. j - 1 = (total - 1) * width + column
    BY <2>1
  <2> HIDE DEF j
  <2>4. QED
    BY <2>2, <2>3
<1> HIDE DEF j
<1>9. list[j].id = list[i].id
  BY <1>3, <1>7, <1>8
<1>10. list[j].index = (list[j].total - 1) % FragmentModulus
  <2>1. /\ list[j].index = (total - 1) % FragmentModulus
        /\ list[j].total = total % FragmentModulus
    BY <1>3, <1>7, <1>8
  <2>2. QED
    BY <2>1, LastIndex
<1>11. \A k \in i .. j : list[k].packetId = list[i].packetId
  <2>1. \A k \in i .. j : k \in 1 .. total * width
    BY <1>1, <1>7
  <2>2. QED
    BY <1>3, <2>1
<1>12. QED
  BY <1>7, <1>9, <1>10, <1>11

\* A call queues whole groups.
LEMMA GroupsCall ==
  ASSUME IInv, GroupsAreQueued, NEW e \in Endpoint, Schedule(e) \/ Heartbeat(e)
  PROVE  GroupsAreQueued'
<1>1. PICK ids \in Recipients(e), total \in Nat, l \in Queue :
        Enqueue(e, l, Batch(e, ids, total))
  BY ClockAssumption DEF Schedule, Heartbeat, Queue
<1>2. ProtocolTypeOK /\ scheduled \in [Endpoint -> [Queue -> Seq(Scheduled)]]
  BY DEF IInv, TypeOK, ProtocolTypeOK
<1>3. GroupsEnd(Batch(e, ids, total)) /\ Batch(e, ids, total) \in Seq(Scheduled)
  BY <1>2, GroupsEndBatch, BatchType
<1> SUFFICES ASSUME NEW x \in Endpoint, NEW q \in FragmentQueue
             PROVE  GroupsEnd(scheduled'[x][q])
  BY DEF GroupsAreQueued, GroupsEnd
<1>4. q \in Queue /\ GroupsEnd(scheduled[x][q]) /\ scheduled[x][q] \in Seq(Scheduled)
  BY <1>2, FragmentQueues DEF GroupsAreQueued
<1>5. \/ scheduled'[x][q] = scheduled[x][q]
      \/ scheduled'[x][q] = scheduled[x][q] \o Batch(e, ids, total)
  BY <1>1, <1>2, <1>4 DEF Enqueue
<1>6. QED
  BY <1>3, <1>4, <1>5, GroupsEndConcat

-----------------------------------------------------------------------------
(***************************************************************************)
(* The ways an endpoint may send in a step.                                *)
(***************************************************************************)

\* It sends nothing new, and is at no group, or stays where it is in it.
Rests(e) ==
  /\ \A p \in network' : p.src = e => p \in network
  /\ phase[e] \in Stopped => phase'[e] \in Stopped
  /\ \/ phase[e] # "send"
     \/ \A q \in Queue : scheduled[e][q] = <<>>
     \/ /\ phase'[e] \in {phase[e]} \cup Stopped
        /\ scheduled'[e] = scheduled[e]

\* It sends a packet of the handshake.
Opens(e) ==
  /\ phase[e] = "send"
  /\ phase'[e] \in {"send"} \cup Stopped
  /\ scheduled'[e] = scheduled[e]
  /\ connected'[e] = connected[e]
  /\ \E p : /\ network' = network \cup {p}
            /\ p.src = e
            /\ \/ /\ p.kind = "ConnectionRequest"
                  /\ e \in Clients
                  /\ p.dst \in Servers
                  /\ Made(p, requesting[e][p.dst])
               \/ /\ p.kind = "ConnectionAccepted"
                  /\ e \in Servers
                  /\ p.id \in ConnectionId
                  /\ AcceptPending(e, p.id)
                  /\ Made(p, awaitingAck[e][p.id])
                  /\ \/ phase'[e] \in Stopped
                     \/ awaitingAck'[e][p.id] = Advanced(awaitingAck[e][p.id])

\* It sends what is next in line.
Drains(e) ==
  \E q \in Queue :
     LET item == Head(scheduled[e][q])
         p == Created(e, q, item)
     IN  /\ phase[e] = "send"
         /\ NextInLine(e, q)
         /\ scheduled'[e] = [scheduled[e] EXCEPT ![q] = Tail(@)]
         /\ connected[e][item.id] # NoPeer
         /\ network' = network \cup {p}
         /\ \/ phase'[e] \in Stopped
            \/ /\ phase'[e] = "send"
               /\ connected'[e] = IF EndsGroup(p)
                                     THEN [connected[e] EXCEPT ![p.id] = Advanced(@)]
                                     ELSE connected[e]

\* Only a acts.
Alone(a) ==
  /\ \A e \in Endpoint : e # a => /\ phase'[e] = phase[e]
                                  /\ scheduled'[e] = scheduled[e]
  /\ \A p \in network' : p \in network \/ p.src = a

Sends == \A e \in Endpoint : Rests(e) \/ Opens(e) \/ Drains(e)

\* Whoever does not act rests.
LEMMA OthersRest ==
  ASSUME NEW a \in Endpoint, Alone(a), Rests(a) \/ Opens(a) \/ Drains(a)
  PROVE  Sends
BY DEF Alone, Rests, Sends

\* A step that sends nothing new and does not move within a group.
LEMMA QuietSends ==
  ASSUME IInv, NEW a \in Endpoint, UNCHANGED network,
         NEW next \in Phase, phase' = [phase EXCEPT ![a] = next],
         phase[a] \notin Stopped,
         \/ phase[a] # "send"
         \/ \A q \in Queue : scheduled[a][q] = <<>>
         \/ next \in {phase[a]} \cup Stopped /\ UNCHANGED scheduled,
         \A e \in Endpoint : e # a => scheduled'[e] = scheduled[e]
  PROVE  Sends
<1>1. phase \in [Endpoint -> Phase]
  BY DEF IInv, TypeOK, ProtocolTypeOK
<1>2. Alone(a)
  BY <1>1 DEF Alone
<1>3. Rests(a)
  BY <1>1 DEF Rests
<1>4. QED
  BY <1>2, <1>3, OthersRest

\* The calls of the application, the passing of time, and the end of poll.
LEMMA CallSends ==
  ASSUME IInv, NEW e \in Endpoint,
         Schedule(e) \/ Heartbeat(e) \/ Tick(e) \/ PollHandler(e)
  PROVE  Sends
<1>1. /\ phase \in [Endpoint -> Phase]
      /\ scheduled \in [Endpoint -> [Queue -> Seq(Scheduled)]]
  BY DEF IInv, TypeOK, ProtocolTypeOK
<1>2. UNCHANGED network
  BY DEF Schedule, Heartbeat, Enqueue, Tick, PollHandler
<1>3. CASE Schedule(e) \/ Heartbeat(e)
  <2>1. phase[e] = "app" /\ UNCHANGED phase
    BY <1>3 DEF Schedule, Heartbeat, MaySchedule, Enqueue
  <2>2. \A x \in Endpoint : x # e => scheduled'[x] = scheduled[x]
    BY <1>1, <1>3 DEF Schedule, Heartbeat, Enqueue
  <2>3. QED
    BY <1>2, <2>1, <2>2, OthersRest DEF Alone, Rests, Stopped
<1>4. CASE Tick(e)
  BY <1>2, <1>4, OthersRest DEF Tick, Alone, Rests
<1>5. CASE PollHandler(e)
  BY <1>1, <1>2, <1>5, QuietSends DEF PollHandler, Phase, Stopped
<1>6. QED
  BY <1>3, <1>4, <1>5

\* A retry sends what was sent, or nothing.
LEMMA RetrySends ==
  ASSUME IInv, NEW e \in Endpoint, NEW kind \in SentKind, NEW peers, NEW next \in Phase,
         phase[e] \in {"retryData", "retryFragment"},
         \/ sent[e][kind] # <<>> /\ Resend(e, kind, peers, next)
         \/ Forget(e, kind, next)
  PROVE  Sends
<1>1. phase[e] # "send" /\ phase[e] \notin Stopped
  BY DEF Stopped
<1>2. CASE Forget(e, kind, next)
  BY <1>1, <1>2, QuietSends DEF Forget
<1>3. CASE sent[e][kind] # <<>> /\ Resend(e, kind, peers, next)
  <2> DEFINE p == Last(sent[e][kind]).packet
  <2>1. Last(sent[e][kind]) \in ToSet(sent[e][kind])
    BY <1>3, ToSetLast DEF IInv, TypeOK, ProtocolTypeOK
  <2>2. p \in network
    BY <2>1 DEF IInv, SentWasSent
  <2>3. SendPacket(e, p, TRUE, peers, [sent[e] EXCEPT ![kind] = Front(@)], next)
    BY <1>3 DEF Resend
  <2> HIDE DEF p
  <2>4. UNCHANGED network
    BY <2>2, <2>3 DEF SendPacket
  <2>5. PICK now \in Phase : phase' = [phase EXCEPT ![e] = now]
    <3>1. "exhausted" \in Phase
      BY DEF Phase, Stopped
    <3>2. QED
      BY <2>3, <3>1 DEF SendPacket
  <2>6. UNCHANGED scheduled
    BY <1>3 DEF Resend
  <2>7. QED
    BY <1>1, <2>4, <2>5, <2>6, QuietSends
<1>4. QED
  BY <1>2, <1>3

\* A round of a poll_* loop drains.
LEMMA ScheduledSends ==
  ASSUME IInv, NEW e \in Endpoint, NEW q \in Queue,
         SendScheduled(e, q, connected[e])
  PROVE  Sends
<1> DEFINE item == Head(scheduled[e][q])
           p == Created(e, q, item)
<1>1. /\ phase \in [Endpoint -> Phase]
      /\ scheduled \in [Endpoint -> [Queue -> Seq(Scheduled)]]
      /\ connected \in [Endpoint -> [ConnectionId -> Peer \cup {NoPeer}]]
  BY DEF IInv, TypeOK, ProtocolTypeOK
<1>2. phase[e] = "send" /\ NextInLine(e, q) /\ scheduled[e][q] # <<>>
  BY DEF SendScheduled, NextInLine
<1>3. item \in ToSet(scheduled[e][q])
  BY <1>1, <1>2, ToSetTail
<1>4. connected[e][item.id] # NoPeer
  BY <1>3 DEF IInv, ScheduledToConnected
<1>5. SendPacket(e, p, DrainOrder[q].reliable, connected[e], sent[e], "send")
  BY <1>4 DEF SendScheduled
<1>6. scheduled' = [scheduled EXCEPT ![e][q] = Tail(@)]
  BY DEF SendScheduled
<1>7. p.src = e
  BY DEF Created, IntoPacket
<1>8. p.id = item.id
  BY DEF Created, IntoPacket
<1> HIDE DEF p, item
<1>9. network' = network \cup {p}
  BY <1>5 DEF SendPacket
<1>10. \/ phase' = [phase EXCEPT ![e] = "exhausted"]
       \/ /\ phase' = [phase EXCEPT ![e] = "send"]
          /\ connected' = [connected EXCEPT ![e] =
                             IF connected[e][p.id] # NoPeer /\ EndsGroup(p)
                               THEN [connected[e] EXCEPT ![p.id].sequence = @ + 1]
                               ELSE connected[e]]
  BY <1>5 DEF SendPacket
<1>11. Alone(e)
  BY <1>1, <1>6, <1>7, <1>9, <1>10 DEF Alone
<1>12. scheduled'[e] = [scheduled[e] EXCEPT ![q] = Tail(@)]
  BY <1>1, <1>6
<1>13. \/ phase'[e] \in Stopped
       \/ /\ phase'[e] = "send"
          /\ connected'[e] = IF EndsGroup(p)
                                THEN [connected[e] EXCEPT ![p.id] = Advanced(@)]
                                ELSE connected[e]
  BY <1>1, <1>4, <1>8, <1>10 DEF Stopped, Advanced
<1>14. Drains(e)
  BY <1>2, <1>4, <1>9, <1>12, <1>13 DEF Drains, p, item
<1>15. QED
  BY <1>11, <1>14, OthersRest

\* The retries of the handshake send what was sent, or nothing.
LEMMA HandshakeRetrySends ==
  ASSUME IInv, NEW e \in Endpoint,
         \/ e \in Clients /\ RetryConnectionRequest(e)
         \/ e \in Servers /\ RetryConnectionAccepted(e)
  PROVE  Sends
<1>1. phase[e] = "app" /\ UNCHANGED scheduled
  BY DEF RetryConnectionRequest, RetryConnectionAccepted
<1>2. UNCHANGED network
  <2>1. CASE e \in Clients /\ RetryConnectionRequest(e)
    <3>1. ASSUME Overdue(e, sentRequest[e])
          PROVE  Last(sentRequest[e]).packet \in network
      <4>1. Last(sentRequest[e]) \in ToSet(sentRequest[e])
        BY <2>1, <3>1, ToSetLast DEF Overdue, IInv, TypeOK, ClientTypeOK
      <4>2. QED
        BY <2>1, <4>1 DEF IInv, SentWasSent
    <3>2. QED
      BY <2>1, <3>1 DEF RetryConnectionRequest, SendRequest
  <2>2. CASE e \in Servers /\ RetryConnectionAccepted(e)
    <3>1. ASSUME Overdue(e, sentAccepted[e])
          PROVE  Last(sentAccepted[e]).packet \in network
      <4>1. Last(sentAccepted[e]) \in ToSet(sentAccepted[e])
        BY <2>2, <3>1, ToSetLast DEF Overdue, IInv, TypeOK, ServerTypeOK
      <4>2. QED
        BY <2>2, <4>1 DEF IInv, SentWasSent
    <3>2. QED
      BY <2>2, <3>1 DEF RetryConnectionAccepted, SendAccepted
  <2>3. QED
    BY <2>1, <2>2
<1>3. PICK next \in Phase : phase' = [phase EXCEPT ![e] = next]
  <2>1. {"retryData", "exhausted", "unwrap"} \subseteq Phase
    BY DEF Phase, Stopped
  <2>2. QED
    BY <2>1 DEF RetryConnectionRequest, SendRequest, RetryConnectionAccepted, SendAccepted
<1>4. QED
  BY <1>1, <1>2, <1>3, QuietSends DEF Stopped

\* A request opens.
LEMMA RequestSends ==
  ASSUME IInv, NEW c \in Clients, SendConnectionRequest(c)
  PROVE  Sends
<1> DEFINE s == Head(scheduledRequest[c])
           peer == requesting[c][s]
           p == IntoPacket(c, "ConnectionRequest", HandshakeItem(0, s), peer)
<1>1. /\ phase \in [Endpoint -> Phase] /\ c \in Endpoint
      /\ scheduledRequest[c] \in Seq(Servers) /\ scheduledRequest[c] # <<>>
  BY DEF IInv, TypeOK, ProtocolTypeOK, ClientTypeOK, SendConnectionRequest, Endpoint
<1>2. s \in ToSet(scheduledRequest[c]) /\ s \in Servers /\ s \in Endpoint
  BY <1>1, ToSetTail, ToSetType DEF Endpoint
<1>3. peer # NoPeer /\ peer.address = s
  BY <1>2 DEF IInv, RequestsRequest, AddressesFit
<1>4. SendRequest(c, p, sentRequest[c], "send")
  BY <1>3 DEF SendConnectionRequest
<1>5. /\ p.kind = "ConnectionRequest" /\ p.src = c /\ p.dst = s
      /\ Made(p, requesting[c][s])
  BY <1>3 DEF IntoPacket, HandshakeItem, Made
<1>6. phase[c] = "send" /\ UNCHANGED <<scheduled, connected>>
  BY DEF SendConnectionRequest
<1> HIDE DEF p, peer, s
<1>7. /\ network' = network \cup {p}
      /\ \E next \in {"send"} \cup Stopped : phase' = [phase EXCEPT ![c] = next]
  BY <1>4 DEF SendRequest, Stopped
<1>8. Alone(c)
  BY <1>1, <1>5, <1>6, <1>7 DEF Alone
<1>9. phase'[c] \in {"send"} \cup Stopped
  BY <1>1, <1>7
<1>10. Opens(c)
  BY <1>2, <1>5, <1>6, <1>7, <1>9 DEF Opens
<1>11. QED
  BY <1>1, <1>8, <1>10, OthersRest

\* An accept opens.
LEMMA AcceptSends ==
  ASSUME IInv, NEW s \in Servers, SendConnectionAccepted(s)
  PROVE  Sends
<1> DEFINE item == Head(scheduledAccepted[s])
           peer == awaitingAck[s][item.id]
           p == IntoPacket(s, "ConnectionAccepted",
                           HandshakeItem(item.id, item.address), peer)
<1>1. /\ scheduledAccepted[s] \in Seq(ScheduledAccepted)
      /\ scheduledAccepted[s] # <<>>
      /\ awaitingAck \in [Servers -> [ConnectionId -> Peer \cup {NoPeer}]]
      /\ phase \in [Endpoint -> Phase] /\ s \in Endpoint
  BY DEF IInv, TypeOK, ProtocolTypeOK, ServerTypeOK, SendConnectionAccepted, Endpoint
<1>2. item \in ToSet(scheduledAccepted[s]) /\ item.id \in ConnectionId
  BY <1>1, ToSetTail, TailType DEF ScheduledAccepted
<1>3. peer # NoPeer /\ peer.address = item.address
  BY <1>2 DEF IInv, AcceptsAwait
<1>4. SendAccepted(s, p, sentAccepted[s], "send")
  BY <1>3 DEF SendConnectionAccepted
<1>5. /\ p.kind = "ConnectionAccepted" /\ p.src = s /\ p.id = item.id
      /\ Made(p, awaitingAck[s][item.id])
  BY <1>3 DEF IntoPacket, HandshakeItem, Made
<1>6. /\ phase[s] = "send" /\ UNCHANGED <<scheduled, connected>>
      /\ AcceptPending(s, item.id)
  BY <1>2 DEF SendConnectionAccepted, AcceptPending
<1>7. peer = awaitingAck[s][p.id]
  BY <1>5
<1> HIDE DEF p, item
<1>8. /\ network' = network \cup {p}
      /\ \/ phase' = [phase EXCEPT ![s] = "exhausted"]
         \/ /\ phase' = [phase EXCEPT ![s] = "send"]
            /\ awaitingAck' = [awaitingAck EXCEPT ![s][p.id] = Advanced(@)]
  BY <1>3, <1>4, <1>7 DEF SendAccepted, Advanced
<1>9. Alone(s)
  BY <1>1, <1>5, <1>6, <1>8 DEF Alone
<1>10. /\ phase'[s] \in {"send"} \cup Stopped
       /\ \/ phase'[s] \in Stopped
          \/ awaitingAck'[s][p.id] = Advanced(awaitingAck[s][p.id])
  BY <1>1, <1>2, <1>5, <1>8 DEF Stopped
<1>11. Opens(s)
  BY <1>2, <1>5, <1>6, <1>8, <1>10 DEF Opens
<1>12. QED
  BY <1>1, <1>9, <1>11, OthersRest

\* A packet is received with every list drained.
LEMMA ReceiveSends ==
  ASSUME IInv, NEW e \in Endpoint, NEW p \in network,
         \/ e \in Clients /\ ClientReceive(e, p)
         \/ e \in Servers /\ ServerReceive(e, p)
  PROVE  Sends
<1>1. /\ phase[e] = "send" /\ \A q \in Queue : scheduled[e][q] = <<>>
      /\ UNCHANGED <<network, scheduled>>
  BY DEF ClientReceive, ServerReceive, Receives
<1>2. PICK next \in Phase : phase' = [phase EXCEPT ![e] = next]
  <2>1. {"poll", "exhausted"} \subseteq Phase
    BY DEF Phase, Stopped
  <2>2. CASE e \in Clients /\ ClientReceive(e, p)
    BY <2>1, <2>2 DEF ClientReceive, Returns
  <2>3. CASE e \in Servers /\ ServerReceive(e, p)
    <3>1. p.kind \in Kind
      BY PacketFields DEF IInv, TypeOK, ProtocolTypeOK
    <3>2. ServerOnReceived(e, p)
      BY <2>3 DEF ServerReceive
    <3>3. CASE p.kind = "ConnectionRequest"
      BY <2>1, <3>2, <3>3 DEF ServerOnReceived, OnConnectionRequest, Refused, Returns
    <3>4. CASE p.kind = "ConnectionAccepted"
      BY <2>1, <3>2, <3>4 DEF ServerOnReceived, Refused, Returns
    <3>5. CASE p.kind = "DataTransfer"
      BY <2>1, <3>2, <3>5
      DEF ServerOnReceived, ServerOnDataTransfer, Refused, Returns, AckPeer
    <3>6. CASE p.kind = "Fragment"
      BY <2>1, <3>2, <3>6
      DEF ServerOnReceived, ServerOnFragment, Refused, Returns, AckPeer
    <3>7. CASE p.kind = "Heartbeat"
      BY <2>1, <3>2, <3>7 DEF ServerOnReceived, ServerOnHeartbeat, Returns, AckPeer
    <3>8. QED
      BY <3>1, <3>3, <3>4, <3>5, <3>6, <3>7 DEF Kind
  <2>4. QED
    BY <2>2, <2>3
<1>3. QED
  BY <1>1, <1>2, QuietSends DEF Stopped

\* Every step of the system is one of these for every endpoint.
LEMMA NextSends == IInv /\ [Next]_vars => Sends
<1> SUFFICES ASSUME IInv, [Next]_vars PROVE Sends
  OBVIOUS
<1>1. ASSUME NEW c \in Clients, ClientNext(c) PROVE Sends
  <2>1. c \in Endpoint
    BY DEF Endpoint
  <2>2. CASE \E s \in Servers : Connect(c, s)
    BY <2>1, <2>2, OthersRest DEF Connect, Alone, Rests, Stopped
  <2>3. CASE RetryConnectionRequest(c) \/ SendConnectionRequest(c)
    BY <2>1, <2>3, HandshakeRetrySends, RequestSends
  <2>4. CASE ClientRetryDataTransfer(c)
    <3>1. "DataTransfer" \in SentKind /\ "send" \in Phase
      BY DEF SentKind, Phase
    <3>2. QED
      BY <2>1, <2>4, <3>1, RetrySends DEF ClientRetryDataTransfer, Overdue
  <2>5. ASSUME NEW q \in Queue, ClientSend(c, q) PROVE Sends
    <3> DEFINE item == Head(scheduled[c][q])
    <3>1. scheduled[c][q] # <<>> /\ scheduled[c][q] \in Seq(Scheduled)
      BY <2>1, <2>5 DEF ClientSend, SendScheduled, NextInLine, IInv, TypeOK, ProtocolTypeOK
    <3>2. item \in ToSet(scheduled[c][q]) /\ item \in Scheduled
      BY <3>1, ToSetTail, TailType
    <3>3. connected[c][item.id] # NoPeer /\ connected[c][item.id].address = item.address
      BY <2>1, <3>2 DEF IInv, ScheduledToConnected
    <3>4. SendScheduled(c, q, Promoted(c, item.id, item.address))
      BY <2>5 DEF ClientSend
    <3>5. item.id \in ConnectionId
      BY <3>2 DEF Scheduled
    <3> HIDE DEF item
    <3>6. Promoted(c, item.id, item.address) = connected[c]
      BY <3>3, <3>5, NotAwaited
    <3>7. QED
      BY <2>1, <3>4, <3>6, ScheduledSends
  <2>6. CASE \E p \in network : ClientReceive(c, p)
    BY <2>1, <2>6, ReceiveSends
  <2>7. CASE \/ ClientPoll(c)
             \/ (Schedule(c) \/ Heartbeat(c) \/ Tick(c)) /\ UNCHANGED clientVars
    BY <2>1, <2>7, CallSends DEF ClientPoll
  <2>8. QED
    BY <1>1, <2>2, <2>3, <2>4, <2>5, <2>6, <2>7 DEF ClientNext, ClientPolls
<1>2. ASSUME NEW s \in Servers, ServerNext(s) PROVE Sends
  <2>1. s \in Endpoint
    BY DEF Endpoint
  <2>2. CASE RetryConnectionAccepted(s) \/ SendConnectionAccepted(s)
    BY <2>1, <2>2, HandshakeRetrySends, AcceptSends
  <2>3. CASE ServerRetryDataTransfer(s) \/ ServerRetryFragment(s)
    <3>1. {"DataTransfer", "Fragment"} \subseteq SentKind
          /\ {"retryFragment", "send"} \subseteq Phase
      BY DEF SentKind, Phase
    <3>2. QED
      BY <2>1, <2>3, <3>1, RetrySends
      DEF ServerRetryDataTransfer, ServerRetryFragment, RetrySent, Overdue
  <2>4. CASE \E q \in Queue : ServerSend(s, q)
    BY <2>1, <2>4, ScheduledSends DEF ServerSend
  <2>5. CASE \E p \in network : ServerReceive(s, p)
    BY <2>1, <2>5, ReceiveSends
  <2>6. CASE \/ ServerPoll(s)
             \/ (Schedule(s) \/ Heartbeat(s) \/ Tick(s)) /\ UNCHANGED serverVars
    BY <2>1, <2>6, CallSends DEF ServerPoll
  <2>7. QED
    BY <1>2, <2>2, <2>3, <2>4, <2>5, <2>6 DEF ServerNext, ServerPolls
<1>3. CASE UNCHANGED vars
  BY <1>3 DEF vars, protocolVars, Sends, Rests
<1>4. QED
  BY <1>1, <1>2, <1>3 DEF Next

-----------------------------------------------------------------------------
(***************************************************************************)
(* Who is sent to.                                                         *)
(***************************************************************************)

\* What a list held is a whole group still after any step.
LEMMA GroupsKept ==
  ASSUME IInv, GroupsAreQueued, [Next]_vars
  PROVE  GroupsAreQueued'
<1>1. scheduled \in [Endpoint -> [Queue -> Seq(Scheduled)]]
  BY DEF IInv, TypeOK, ProtocolTypeOK
<1>2. CASE UNCHANGED scheduled
  BY <1>2 DEF GroupsAreQueued, GroupsEnd
<1>3. ASSUME NEW e \in Endpoint, NEW l \in Queue, scheduled[e][l] # <<>>,
             scheduled' = [scheduled EXCEPT ![e][l] = Tail(@)]
      PROVE  GroupsAreQueued'
  <2> SUFFICES ASSUME NEW x \in Endpoint, NEW q \in FragmentQueue
               PROVE  GroupsEnd(scheduled'[x][q])
    BY DEF GroupsAreQueued, GroupsEnd
  <2>1. /\ q \in Queue /\ GroupsEnd(scheduled[x][q])
        /\ scheduled[x][q] \in Seq(Scheduled)
    BY <1>1, FragmentQueues DEF GroupsAreQueued
  <2>2. \/ scheduled'[x][q] = scheduled[x][q]
        \/ scheduled[x][q] # <<>> /\ scheduled'[x][q] = Tail(scheduled[x][q])
    BY <1>1, <1>3, <2>1
  <2>3. QED
    BY <2>1, <2>2, GroupsEndTail
<1>4. ASSUME NEW c \in Clients, ClientNext(c) PROVE GroupsAreQueued'
  <2>1. c \in Endpoint
    BY DEF Endpoint
  <2>2. CASE Schedule(c) \/ Heartbeat(c)
    BY <2>1, <2>2, GroupsCall
  <2>3. ASSUME NEW q \in Queue, ClientSend(c, q) PROVE GroupsAreQueued'
    BY <1>3, <2>1, <2>3 DEF ClientSend, SendScheduled, NextInLine
  <2>4. CASE \/ \E s \in Servers : Connect(c, s)
             \/ RetryConnectionRequest(c) \/ ClientRetryDataTransfer(c)
             \/ SendConnectionRequest(c) \/ ClientPoll(c) \/ Tick(c)
             \/ \E p \in network : ClientReceive(c, p)
    BY <1>2, <2>4
    DEF Connect, RetryConnectionRequest, ClientRetryDataTransfer, Resend, Forget,
        SendConnectionRequest, ClientPoll, PollHandler, Tick, ClientReceive, Receives
  <2>5. QED
    BY <1>4, <2>2, <2>3, <2>4 DEF ClientNext, ClientPolls
<1>5. ASSUME NEW s \in Servers, ServerNext(s) PROVE GroupsAreQueued'
  <2>1. s \in Endpoint
    BY DEF Endpoint
  <2>2. CASE Schedule(s) \/ Heartbeat(s)
    BY <2>1, <2>2, GroupsCall
  <2>3. ASSUME NEW q \in Queue, ServerSend(s, q) PROVE GroupsAreQueued'
    BY <1>3, <2>1, <2>3 DEF ServerSend, SendScheduled, NextInLine
  <2>4. CASE \/ RetryConnectionAccepted(s)
             \/ ServerRetryDataTransfer(s) \/ ServerRetryFragment(s)
             \/ SendConnectionAccepted(s) \/ ServerPoll(s) \/ Tick(s)
             \/ \E p \in network : ServerReceive(s, p)
    BY <1>2, <2>4
    DEF RetryConnectionAccepted, ServerRetryDataTransfer, ServerRetryFragment,
        RetrySent, Resend, Forget, SendConnectionAccepted, ServerPoll, PollHandler,
        Tick, ServerReceive, Receives
  <2>5. QED
    BY <1>5, <2>2, <2>3, <2>4 DEF ServerNext, ServerPolls
<1>6. CASE UNCHANGED vars
  BY <1>2, <1>6 DEF vars, protocolVars
<1>7. QED
  BY <1>4, <1>5, <1>6 DEF Next

\* Nothing was sent to an address that is still requesting.
LEMMA NoneToRequesting ==
  ASSUME IInv, NEW c \in Clients, NEW a \in Endpoint, requesting[c][a] # NoPeer,
         phase[c] \notin Stopped, NEW p \in network, p.src = c, p.dst = a
  PROVE  FALSE
<1>1. a \in Servers
  BY DEF IInv, AddressesFit
<1>2. CASE p.kind = "ConnectionRequest"
  BY <1>2 DEF IInv, PacketsSpeakTrue, RequestTrue
<1>3. CASE p.kind # "ConnectionRequest"
  <2>1. FromClientTrue(p) /\ p.id \in ConnectionId
    BY <1>3, PacketFields DEF IInv, PacketsSpeakTrue, TypeOK, ProtocolTypeOK
  <2>2. QED
    BY <1>1, <2>1 DEF FromClientTrue, IInv, OneStatePerServer, ConnectedIds
<1>4. QED
  BY <1>2, <1>3

\* Nothing was sent to a peer whose accept is still scheduled.
LEMMA NoneToPending ==
  ASSUME IInv, NEW s \in Servers, NEW id \in ConnectionId, AcceptPending(s, id),
         NEW p \in network, p.src = s, Owns(s, id, p.dst)
  PROVE  FALSE
<1>1. s \notin Clients
  BY EndpointAssumption
<1>2. p.kind # "ConnectionRequest"
  BY <1>1 DEF IInv, PacketsSpeakTrue, RequestTrue
<1>3. FromServerTrue(p) /\ p.id \in ConnectionId
  BY <1>2, PacketFields DEF IInv, PacketsSpeakTrue, TypeOK, ProtocolTypeOK
<1>4. p.dst \in Clients
  BY DEF Owns, IInv, AddressesFit
<1>5. p.id = id
  BY <1>3, <1>4 DEF FromServerTrue, IInv, UniqueIds
<1>6. QED
  BY <1>3, <1>5 DEF FromServerTrue

PendingAreUnsent ==
  \A s \in Servers, id \in ConnectionId, p \in network :
     ~(AcceptPending(s, id) /\ p.src = s /\ Owns(s, id, p.dst))

\* That holds of the next state as well.
LEMMA NoneToPendingNext == IInv' => PendingAreUnsent'
<1>1. IInv => PendingAreUnsent
  BY NoneToPending DEF PendingAreUnsent
<1>2. QED
  BY <1>1, PTL

\* What create_* makes of an item.
LEMMA CreatedFields ==
  ASSUME NEW e, NEW q \in Queue, NEW item
  PROVE  /\ Created(e, q, item).kind = DrainOrder[q].kind
         /\ Created(e, q, item).kind \in SentKind
         /\ Created(e, q, item).src = e
         /\ Created(e, q, item).dst = item.address
         /\ Created(e, q, item).id = item.id
         /\ Created(e, q, item).sequence = connected[e][item.id].sequence
         /\ Created(e, q, item).packetId = item.packetId
         /\ Created(e, q, item).index = item.index
         /\ Created(e, q, item).total = item.total
BY DrainOrderType DEF Created, IntoPacket

\* An endpoint knows an address in one state, so a new packet to it tells which.
LEMMA NewPacketTo ==
  ASSUME IInv, NEW p, NewPacket(p)
  PROVE  /\ \A c \in Clients, a \in Endpoint :
              p.src = c /\ p.dst = a => awaiting[c][a] = NoPeer
         /\ \A s \in Servers, id \in ConnectionId :
              /\ p.src = s
              /\ awaitingAck[s][id] # NoPeer
              /\ awaitingAck[s][id].address = p.dst
              => p.kind = "ConnectionAccepted" /\ p.id = id
         /\ \A e \in Endpoint : \A id \in ConnectedIds(e) :
              p.src = e /\ connected[e][id].address = p.dst =>
                 p.kind \in SentKind /\ p.id = id
<1>1. ASSUME NEW c \in Clients, NEW a \in Endpoint, p.src = c, p.dst = a,
             awaiting[c][a] # NoPeer
      PROVE  FALSE
  <2>1. a \in Servers /\ c \notin Servers
    BY <1>1, EndpointAssumption DEF IInv, AddressesFit
  <2>2. requesting[c][a] = NoPeer /\
          ~ \E id \in ConnectedIds(c) : connected[c][id].address = a
    BY <1>1, <2>1 DEF IInv, OneStatePerServer
  <2>3. QED
    BY <1>1, <2>1, <2>2 DEF NewPacket, Made, ConnectedIds
<1>2. ASSUME NEW s \in Servers, NEW id \in ConnectionId, p.src = s,
             awaitingAck[s][id] # NoPeer, awaitingAck[s][id].address = p.dst
      PROVE  p.kind = "ConnectionAccepted" /\ p.id = id
  <2>1. s \notin Clients
    BY EndpointAssumption
  <2>2. connected[s][id] = NoPeer
    BY <1>2 DEF IInv, UniqueIds
  <2>3. Owns(s, id, p.dst) /\ p.dst \in Clients
    BY <1>2, <2>2 DEF Owns, Owner, IInv, AddressesFit
  <2>4. \A i \in ConnectionId : Owns(s, i, p.dst) => i = id
    BY <2>3 DEF IInv, UniqueIds
  <2>5. ASSUME p.kind \in SentKind, p.id \in ConnectionId,
               Made(p, connected[s][p.id])
        PROVE  FALSE
    <3>1. Owns(s, p.id, p.dst)
      BY <2>5 DEF Made, Owns, Owner
    <3>2. QED
      BY <2>2, <2>4, <2>5, <3>1 DEF Made
  <2>6. ASSUME p.id \in ConnectionId, Made(p, awaitingAck[s][p.id])
        PROVE  p.id = id
    <3>1. connected[s][p.id] = NoPeer
      BY <2>6 DEF Made, IInv, UniqueIds
    <3>2. QED
      BY <2>4, <2>6, <3>1 DEF Made, Owns, Owner
  <2>7. QED
    BY <1>2, <2>1, <2>5, <2>6 DEF NewPacket
<1>3. ASSUME NEW e \in Endpoint, NEW id \in ConnectedIds(e), p.src = e,
             connected[e][id].address = p.dst
      PROVE  p.kind \in SentKind /\ p.id = id
  <2>1. CASE e \in Clients
    <3>1. e \notin Servers /\ p.dst \in Servers
      BY <1>3, <2>1, EndpointAssumption DEF IInv, IdsAgree
    <3>2. /\ requesting[e][p.dst] = NoPeer
          /\ \A i \in ConnectedIds(e) : connected[e][i].address = p.dst => i = id
      BY <1>3, <2>1, <3>1 DEF IInv, OneStatePerServer
    <3>3. QED
      BY <1>3, <3>1, <3>2 DEF NewPacket, Made, ConnectedIds
  <2>2. CASE e \in Servers
    <3>1. e \notin Clients
      BY <2>2, EndpointAssumption
    <3>2. id \in ConnectionId /\ connected[e][id] # NoPeer
      BY DEF ConnectedIds
    <3>3. Owns(e, id, p.dst) /\ p.dst \in Clients
      BY <1>3, <2>2, <3>2 DEF Owns, Owner, IInv, AddressesFit
    <3>4. \A i \in ConnectionId : Owns(e, i, p.dst) => i = id
      BY <2>2, <3>2, <3>3 DEF IInv, UniqueIds
    <3>5. ASSUME p.id \in ConnectionId, Made(p, awaitingAck[e][p.id]) PROVE FALSE
      <4>1. connected[e][p.id] = NoPeer
        BY <2>2, <3>5 DEF Made, IInv, UniqueIds
      <4>2. p.id = id
        BY <3>4, <3>5, <4>1 DEF Made, Owns, Owner
      <4>3. QED
        BY <3>2, <4>1, <4>2
    <3>6. ASSUME p.id \in ConnectionId, Made(p, connected[e][p.id]) PROVE p.id = id
      BY <3>4, <3>6 DEF Made, Owns, Owner
    <3>7. QED
      BY <1>3, <3>1, <3>5, <3>6 DEF NewPacket
  <2>3. QED
    BY <2>1, <2>2 DEF Endpoint
<1>4. QED
  BY <1>1, <1>2, <1>3

-----------------------------------------------------------------------------
(***************************************************************************)
(* What is due.                                                            *)
(***************************************************************************)

\* The list something is due from is the next in line.
LEMMA DueInLine ==
  ASSUME IInv, NEW e \in Endpoint, NEW id, NEW packetId, Due(e, id, packetId),
         NEW q \in Queue, NextInLine(e, q)
  PROVE  /\ q \in FragmentQueue
         /\ \E i \in DOMAIN scheduled[e][q] :
              /\ scheduled[e][q][i].id = id
              /\ \A k \in 1 .. i :
                   scheduled[e][q][k].id = id => scheduled[e][q][k].packetId = packetId
<1>1. PICK l \in FragmentQueue :
        /\ \A before \in 1 .. l - 1 : scheduled[e][before] = <<>>
        /\ \E i \in DOMAIN scheduled[e][l] :
             /\ scheduled[e][l][i].id = id
             /\ \A k \in 1 .. i :
                  scheduled[e][l][k].id = id => scheduled[e][l][k].packetId = packetId
  BY DEF Due
<1>2. scheduled[e][l] # <<>>
  BY <1>1
<1>3. /\ scheduled[e][q] # <<>>
      /\ \A before \in 1 .. q - 1 : scheduled[e][before] = <<>>
  BY DEF NextInLine
<1>4. l \in 1 .. 6 /\ q \in 1 .. 6
  BY FragmentQueues DEF Queue
<1>5. ~(l < q) /\ ~(q < l)
  <2>1. l < q => l \in 1 .. q - 1
    BY <1>4
  <2>2. q < l => q \in 1 .. l - 1
    BY <1>4
  <2>3. QED
    BY <1>1, <1>2, <1>3, <2>1, <2>2
<1>6. l = q
  BY <1>4, <1>5
<1>7. QED
  BY <1>1, <1>6

\* What is due to a peer is what is sent to it next.
LEMMA DueIsNext ==
  ASSUME IInv, NEW e \in Endpoint, NEW q \in Queue, NextInLine(e, q), NEW packetId,
         Due(e, Head(scheduled[e][q]).id, packetId)
  PROVE  q \in FragmentQueue /\ Head(scheduled[e][q]).packetId = packetId
<1> DEFINE list == scheduled[e][q]
<1>1. list \in Seq(Scheduled) /\ list # <<>>
  BY DEF IInv, TypeOK, ProtocolTypeOK, NextInLine
<1>2. Head(list) = list[1] /\ DOMAIN list = 1 .. Len(list) /\ Len(list) \in Nat
  BY <1>1
<1>3. \A i \in DOMAIN list : 1 \in 1 .. i
  BY <1>2
<1>4. /\ q \in FragmentQueue
      /\ \E i \in DOMAIN list :
           \A k \in 1 .. i : list[k].id = Head(list).id => list[k].packetId = packetId
  BY DueInLine
<1> HIDE DEF list
<1>5. Head(list).packetId = packetId
  BY <1>2, <1>3, <1>4
<1>6. QED
  BY <1>4, <1>5 DEF list

\* What is due to one peer stays so while another is sent to.
LEMMA DueKept ==
  ASSUME IInv, NEW e \in Endpoint, NEW q \in Queue, NextInLine(e, q),
         NEW id, NEW packetId, Due(e, id, packetId),
         Head(scheduled[e][q]).id # id,
         phase'[e] = "send",
         scheduled'[e] = [scheduled[e] EXCEPT ![q] = Tail(@)]
  PROVE  Due(e, id, packetId)'
<1> DEFINE list == scheduled[e][q]
           rest == Tail(list)
<1>1. /\ scheduled[e] \in [Queue -> Seq(Scheduled)]
      /\ list \in Seq(Scheduled) /\ list # <<>>
  BY DEF IInv, TypeOK, ProtocolTypeOK, NextInLine
<1>2. /\ Head(list) = list[1] /\ DOMAIN list = 1 .. Len(list) /\ Len(list) \in Nat
      /\ DOMAIN rest = 1 .. Len(list) - 1
      /\ \A k \in 1 .. Len(list) - 1 : rest[k] = list[k + 1]
  BY <1>1
<1>3. q \in FragmentQueue
  BY DueInLine
<1>4. PICK i \in DOMAIN list :
        /\ list[i].id = id
        /\ \A k \in 1 .. i : list[k].id = id => list[k].packetId = packetId
  BY DueInLine
<1>5. scheduled'[e][q] = rest
  BY <1>1
<1>6. \A before \in 1 .. q - 1 : scheduled'[e][before] = <<>>
  <2>1. \A before \in 1 .. q - 1 : before \in Queue /\ before # q
    BY FragmentQueues DEF Queue
  <2>2. QED
    BY <1>1, <2>1 DEF NextInLine
<1> HIDE DEF list, rest
<1>7. i # 1
  BY <1>2, <1>4 DEF list
<1>8. i - 1 \in DOMAIN rest /\ rest[i - 1].id = id
  BY <1>2, <1>4, <1>7
<1>9. \A k \in 1 .. i - 1 : rest[k].id = id => rest[k].packetId = packetId
  <2>1. \A k \in 1 .. i - 1 : k + 1 \in 1 .. i /\ rest[k] = list[k + 1]
    BY <1>2, <1>7
  <2>2. QED
    BY <1>4, <2>1
<1>10. QED
  BY <1>3, <1>5, <1>6, <1>8, <1>9 DEF Due

\* After a fragment that is not the last of its group another is due.
LEMMA NextIsDue ==
  ASSUME IInv, NEW e \in Endpoint, NEW q \in FragmentQueue, NextInLine(e, q),
         GroupsEnd(scheduled[e][q]),
         NEW item, item = Head(scheduled[e][q]),
         item.index # (item.total - 1) % FragmentModulus,
         phase'[e] = "send",
         scheduled'[e] = [scheduled[e] EXCEPT ![q] = Tail(@)]
  PROVE  Due(e, item.id, item.packetId)'
<1> DEFINE list == scheduled[e][q]
           rest == Tail(list)
<1>0. q \in Queue
  BY FragmentQueues
<1>1. /\ scheduled[e] \in [Queue -> Seq(Scheduled)]
      /\ list \in Seq(Scheduled) /\ list # <<>>
  BY <1>0 DEF IInv, TypeOK, ProtocolTypeOK, NextInLine
<1>2. /\ item = list[1] /\ DOMAIN list = 1 .. Len(list) /\ Len(list) \in Nat
      /\ 1 \in DOMAIN list
      /\ DOMAIN rest = 1 .. Len(list) - 1
      /\ \A k \in 1 .. Len(list) - 1 : rest[k] = list[k + 1]
  BY <1>1
<1>3. PICK j \in DOMAIN list :
        /\ list[j].id = item.id
        /\ list[j].index = (list[j].total - 1) % FragmentModulus
        /\ \A k \in 1 .. j : list[k].id = item.id => list[k].packetId = item.packetId
  <2>1. \A i \in DOMAIN list : \E j \in DOMAIN list :
          /\ list[j].id = list[i].id
          /\ list[j].index = (list[j].total - 1) % FragmentModulus
          /\ \A k \in i .. j :
               list[k].id = list[i].id => list[k].packetId = list[i].packetId
    BY DEF GroupsEnd
  <2> HIDE DEF list, rest
  <2>2. 1 \in DOMAIN list /\ item = list[1]
    BY <1>2
  <2>3. \E j \in DOMAIN list :
          /\ list[j].id = list[1].id
          /\ list[j].index = (list[j].total - 1) % FragmentModulus
          /\ \A k \in 1 .. j :
               list[k].id = list[1].id => list[k].packetId = list[1].packetId
    BY <2>1, <2>2
  <2>4. QED
    BY <2>2, <2>3
<1>4. scheduled'[e][q] = rest
  BY <1>0, <1>1
<1>5. \A before \in 1 .. q - 1 : scheduled'[e][before] = <<>>
  <2>1. \A before \in 1 .. q - 1 : before \in Queue /\ before # q
    BY <1>0 DEF Queue
  <2>2. QED
    BY <1>1, <2>1 DEF NextInLine
<1> HIDE DEF list, rest
<1>6. j # 1
  BY <1>2, <1>3
<1>7. j - 1 \in DOMAIN rest /\ rest[j - 1].id = item.id
  BY <1>2, <1>3, <1>6
<1>8. \A k \in 1 .. j - 1 : rest[k].id = item.id => rest[k].packetId = item.packetId
  <2>1. \A k \in 1 .. j - 1 : k + 1 \in 1 .. j /\ rest[k] = list[k + 1]
    BY <1>2, <1>6
  <2>2. QED
    BY <1>3, <2>1
<1>9. QED
  BY <1>4, <1>5, <1>7, <1>8 DEF Due

-----------------------------------------------------------------------------
(***************************************************************************)
(* Every step leaves the sequences free.                                   *)
(***************************************************************************)

\* The address a client awaits has been sent the request, below its sequence.
LEMMA AwaitingFree ==
  ASSUME IInv, IInv', SequencesAreFree, Moves, NEW c \in Clients,
         NEW a \in Endpoint, awaiting'[c][a] # NoPeer,
         NEW p \in network', p.src = c, phase[c] \notin Stopped
  PROVE  Below(p, awaiting'[c][a])
<1>1. /\ awaiting \in [Clients -> [Endpoint -> Peer \cup {NoPeer}]]
      /\ requesting \in [Clients -> [Endpoint -> Peer \cup {NoPeer}]]
      /\ awaiting'[c][a].address = a
  BY DEF IInv, TypeOK, ClientTypeOK, AddressesFit
<1> SUFFICES ASSUME p.dst = a PROVE p.sequence < awaiting'[c][a].sequence
  BY <1>1 DEF Below
<1>2. p \in network \/ NewPacket(p)
  BY DEF Moves, NetworkMoves
<1>3. CASE awaiting'[c][a] = awaiting[c][a]
  <2>1. p \in network
    BY <1>2, <1>3, NewPacketTo
  <2>2. QED
    BY <1>1, <1>3, <2>1 DEF SequencesAreFree, Fits, Below
<1>4. CASE /\ requesting[c][a] # NoPeer
           /\ awaiting'[c][a] = Advanced(requesting[c][a])
  <2>1. p \notin network
    BY <1>4, NoneToRequesting
  <2>2. a \in Servers /\ c \notin Servers
    BY <1>4, EndpointAssumption DEF IInv, AddressesFit
  <2>3. ~ \E id \in ConnectedIds(c) : connected[c][id].address = a
    BY <1>4, <2>2 DEF IInv, OneStatePerServer
  <2>4. p.sequence = requesting[c][a].sequence
    BY <1>2, <2>1, <2>2, <2>3 DEF NewPacket, Made, ConnectedIds
  <2>5. /\ requesting[c][a].sequence \in Nat
        /\ Advanced(requesting[c][a]).sequence = requesting[c][a].sequence + 1
    BY <1>1, <1>4, WidthAssumption DEF Advanced, Peer, Sequence
  <2>6. QED
    BY <1>4, <2>4, <2>5
<1>5. QED
  BY <1>3, <1>4 DEF Moves, ClientMoves

\* The peer that awaits its ack has been sent the accept, below its sequence.
LEMMA AwaitingAckFree ==
  ASSUME IInv, IInv', SequencesAreFree, Moves, Sends, NEW s \in Servers,
         NEW id \in ConnectionId, awaitingAck'[s][id] # NoPeer,
         NEW p \in network', p.src = s,
         phase[s] \notin Stopped, phase'[s] \notin Stopped
  PROVE  Below(p, awaitingAck'[s][id])
<1>1. /\ awaitingAck \in [Servers -> [ConnectionId -> Peer \cup {NoPeer}]]
      /\ s \in Endpoint /\ s \notin Clients
  BY EndpointAssumption DEF IInv, TypeOK, ServerTypeOK, Endpoint
<1> SUFFICES ASSUME p.dst = awaitingAck'[s][id].address
             PROVE  p.sequence < awaitingAck'[s][id].sequence
  BY DEF Below
<1>2. p \in network \/ NewPacket(p)
  BY DEF Moves, NetworkMoves
<1>3. CASE AcceptPending(s, id)'
  <2>1. Owns(s, id, p.dst)'
    BY DEF Owns, Owner, IInv, UniqueIds
  <2>2. QED
    BY <1>3, <2>1, NoneToPendingNext DEF PendingAreUnsent
<1>4. CASE /\ awaitingAck[s][id] # NoPeer
           /\ awaitingAck'[s][id] \in {awaitingAck[s][id], Advanced(awaitingAck[s][id])}
  <2>1. PICK peer \in Peer : peer = awaitingAck[s][id]
    BY <1>1, <1>4
  <2>2. /\ peer.sequence \in Nat /\ Advanced(peer).address = peer.address
        /\ Advanced(peer).sequence = peer.sequence + 1
    BY <2>1, WidthAssumption DEF Advanced, Peer, Sequence
  <2>3. p.dst = peer.address
    BY <1>4, <2>1, <2>2
  <2>4. CASE p \in network
    <3>1. p.sequence < peer.sequence /\ p.sequence \in Nat
      <4>1. p.sequence < peer.sequence
        BY <1>4, <2>1, <2>3, <2>4 DEF SequencesAreFree, Fits, Below
      <4>2. p.sequence \in Nat
        BY <2>4, PacketFields, WidthAssumption
        DEF IInv, TypeOK, ProtocolTypeOK, Sequence
      <4>3. QED
        BY <4>1, <4>2
    <3>2. QED
      BY <1>4, <2>1, <2>2, <3>1
  <2>5. CASE p \notin network
    <3>1. NewPacket(p) /\ p.kind = "ConnectionAccepted" /\ p.id = id
      BY <1>2, <1>4, <2>1, <2>3, <2>5, NewPacketTo
    <3>2. p.sequence = peer.sequence
      BY <2>1, <3>1 DEF NewPacket, Made, SentKind
    <3>3. awaitingAck'[s][id] = Advanced(peer)
      <4>1. ~Rests(s)
        BY <2>5 DEF Rests
      <4>2. ~Drains(s)
        <5>1. ASSUME NEW q \in Queue, p = Created(s, q, Head(scheduled[s][q]))
              PROVE  FALSE
          <6>1. Created(s, q, Head(scheduled[s][q])).kind \in SentKind
            BY CreatedFields
          <6>2. QED
            BY <3>1, <5>1, <6>1 DEF SentKind
        <5>2. QED
          BY <2>5, <5>1 DEF Drains
      <4>3. Opens(s)
        BY <1>1, <4>1, <4>2 DEF Sends
      <4>4. QED
        BY <1>1, <2>1, <2>5, <3>1, <4>3 DEF Opens
    <3>4. QED
      BY <2>2, <3>2, <3>3
  <2>6. QED
    BY <2>4, <2>5
<1>5. ServerMove(s, id)
  BY DEF Moves, ServerMoves
<1>6. QED
  BY <1>3, <1>4, <1>5 DEF ServerMove

FreeOrDue(e, id, p) ==
  \/ Below(p, connected[e][id])
  \/ /\ p.kind = "Fragment"
     /\ p.sequence = connected[e][id].sequence
     /\ Due(e, id, p.packetId)

\* A connected peer was connected, or awaited, under the same sequence or less.
LEMMA ConnectedBefore ==
  ASSUME IInv, Moves, NEW e \in Endpoint, NEW id \in ConnectionId,
         connected'[e][id] # NoPeer
  PROVE  \E old \in Peer :
           /\ connected'[e][id].address = old.address
           /\ old.sequence \in Nat
           /\ connected'[e][id].sequence \in Nat
           /\ connected'[e][id].sequence >= old.sequence
           /\ \/ connected[e][id] = old
              \/ /\ connected[e][id] = NoPeer
                 /\ \/ e \in Clients /\ \E a \in Endpoint : old = awaiting[e][a]
                    \/ e \in Servers /\ old = awaitingAck[e][id]
<1>1. /\ connected \in [Endpoint -> [ConnectionId -> Peer \cup {NoPeer}]]
      /\ network \subseteq Packet
  BY DEF IInv, TypeOK, ProtocolTypeOK
<1>2. \A peer \in Peer : peer.sequence \in Nat
  BY WidthAssumption DEF Peer, Sequence
<1>3. CASE connected'[e][id] = connected[e][id]
  BY <1>1, <1>2, <1>3
<1>4. CASE /\ connected[e][id] # NoPeer
           /\ connected'[e][id] = Advanced(connected[e][id])
  <2>1. PICK old \in Peer : old = connected[e][id]
    BY <1>1, <1>4
  <2>2. /\ Advanced(old).address = old.address
        /\ Advanced(old).sequence = old.sequence + 1
    BY DEF Advanced, Peer
  <2>3. old.sequence \in Nat /\ old.sequence + 1 \in Nat
        /\ old.sequence + 1 >= old.sequence
    BY <1>2
  <2>4. QED
    BY <1>4, <2>1, <2>2, <2>3
<1>5. ASSUME NEW p \in network, NEW old \in Peer, p.id = id, AckedBy(e, p, old),
             connected'[e][id] = Acked(old, p)
      PROVE  \E peer \in Peer :
               /\ connected'[e][id].address = peer.address
               /\ peer.sequence \in Nat
               /\ connected'[e][id].sequence \in Nat
               /\ connected'[e][id].sequence >= peer.sequence
               /\ \/ connected[e][id] = peer
                  \/ /\ connected[e][id] = NoPeer
                     /\ \/ e \in Clients /\ \E a \in Endpoint : peer = awaiting[e][a]
                        \/ e \in Servers /\ peer = awaitingAck[e][id]
  <2>1. Acked(old, p).address = old.address /\ Acked(old, p).sequence = old.sequence
    BY DEF Acked, Peer
  <2>2. old.sequence \in Nat /\ old.sequence >= old.sequence
    BY <1>2
  <2>3. \/ connected[e][id] = old
        \/ /\ connected[e][id] = NoPeer
           /\ \/ e \in Clients /\ \E a \in Endpoint : old = awaiting[e][a]
              \/ e \in Servers /\ old = awaitingAck[e][id]
    BY <1>5 DEF AckedBy
  <2>4. QED
    BY <1>5, <2>1, <2>2, <2>3
<1>6. ConnectedMove(e, id)
  BY DEF Moves, ConnectedMoves
<1>7. QED
  BY <1>3, <1>4, <1>5, <1>6 DEF ConnectedMove

\* A peer on its way to connected is above all it was sent.
LEMMA JoinedFree ==
  ASSUME IInv, SequencesAreFree, Moves, Sends,
         NEW e \in Endpoint, NEW id \in ConnectionId,
         connected[e][id] = NoPeer, connected'[e][id] # NoPeer,
         NEW p \in network', p.src = e, phase[e] \notin Stopped
  PROVE  Below(p, connected'[e][id])
<1>1. PICK old \in Peer :
        /\ connected'[e][id].address = old.address
        /\ old.sequence \in Nat
        /\ connected'[e][id].sequence \in Nat
        /\ connected'[e][id].sequence >= old.sequence
        /\ \/ e \in Clients /\ \E a \in Endpoint : old = awaiting[e][a]
           \/ e \in Servers /\ old = awaitingAck[e][id]
  BY ConnectedBefore, NoPeerAssumption
<1>2. old # NoPeer
  BY NoPeerAssumption
<1> SUFFICES ASSUME p.dst = old.address
             PROVE  p.sequence < connected'[e][id].sequence
  BY <1>1 DEF Below
<1>3. CASE p \in network
  <2>1. p.sequence < old.sequence
    BY <1>1, <1>2, <1>3 DEF SequencesAreFree, Fits, Below
  <2>2. p.sequence \in Nat
    BY <1>3, PacketFields, WidthAssumption DEF IInv, TypeOK, ProtocolTypeOK, Sequence
  <2>3. QED
    BY <1>1, <2>1, <2>2
<1>4. CASE p \notin network
  <2>1. NewPacket(p)
    BY <1>4 DEF Moves, NetworkMoves
  <2>2. e \notin Clients
    <3>1. ASSUME e \in Clients, NEW a \in Endpoint, old = awaiting[e][a] PROVE FALSE
      <4>1. p.dst = a
        BY <1>2, <3>1 DEF IInv, AddressesFit
      <4>2. QED
        BY <1>2, <2>1, <3>1, <4>1, NewPacketTo
    <3>2. QED
      BY <1>1, <3>1, EndpointAssumption
  <2>3. e \in Servers /\ old = awaitingAck[e][id]
    BY <1>1, <2>2
  <2>4. p.kind = "ConnectionAccepted"
    BY <1>2, <2>1, <2>3, NewPacketTo
  <2>5. ~Rests(e)
    BY <1>4 DEF Rests
  <2>6. ~Opens(e)
    BY DEF Opens
  <2>7. ~Drains(e)
    <3>1. ASSUME NEW q \in Queue, p = Created(e, q, Head(scheduled[e][q]))
          PROVE  FALSE
      <4>1. Created(e, q, Head(scheduled[e][q])).kind \in SentKind
        BY CreatedFields
      <4>2. QED
        BY <2>4, <3>1, <4>1 DEF SentKind
    <3>2. QED
      BY <1>4, <3>1 DEF Drains
  <2>8. QED
    BY <2>5, <2>6, <2>7 DEF Sends
<1>5. QED
  BY <1>3, <1>4

\* A round of a poll_* loop leaves the sequence free, or the next part due.
LEMMA DrainFree ==
  ASSUME IInv, GroupsAreQueued, SequencesAreFree, Moves,
         NEW e \in Endpoint, NEW id \in ConnectionId, Drains(e),
         connected[e][id] # NoPeer, connected'[e][id] # NoPeer,
         NEW p \in network', p.src = e, phase'[e] \notin Stopped
  PROVE  FreeOrDue(e, id, p)'
<1>1. /\ connected \in [Endpoint -> [ConnectionId -> Peer \cup {NoPeer}]]
      /\ phase[e] \notin Stopped
  BY DEF IInv, TypeOK, ProtocolTypeOK, Drains, Stopped
<1>2. PICK peer \in Peer : peer = connected[e][id]
  BY <1>1
<1>3. PICK q \in Queue :
        LET item == Head(scheduled[e][q])
            m == Created(e, q, item)
        IN  /\ phase[e] = "send"
            /\ NextInLine(e, q)
            /\ scheduled'[e] = [scheduled[e] EXCEPT ![q] = Tail(@)]
            /\ connected[e][item.id] # NoPeer
            /\ network' = network \cup {m}
            /\ phase'[e] = "send"
            /\ connected'[e] = IF EndsGroup(m)
                                 THEN [connected[e] EXCEPT ![m.id] = Advanced(@)]
                                 ELSE connected[e]
  BY DEF Drains
<1>4. PICK item : item = Head(scheduled[e][q])
  OBVIOUS
<1>5. PICK m : m = Created(e, q, item)
  OBVIOUS
<1>6. /\ m.kind = DrainOrder[q].kind /\ m.id = item.id
      /\ m.sequence = connected[e][item.id].sequence
      /\ m.packetId = item.packetId
      /\ m.index = item.index /\ m.total = item.total
  BY <1>5, CreatedFields
<1>7. /\ network' = network \cup {m}
      /\ connected'[e] = IF EndsGroup(m)
                           THEN [connected[e] EXCEPT ![m.id] = Advanced(@)]
                           ELSE connected[e]
      /\ NextInLine(e, q)
  BY <1>3, <1>4, <1>5
<1>8. /\ phase'[e] = "send"
      /\ scheduled'[e] = [scheduled[e] EXCEPT ![q] = Tail(@)]
  BY <1>3
<1>9. /\ peer.sequence \in Nat /\ Advanced(peer).address = peer.address
      /\ Advanced(peer).sequence = peer.sequence + 1
  BY WidthAssumption DEF Advanced, Peer, Sequence
<1>10. CASE m.id = id /\ EndsGroup(m)
  <2>1. connected'[e][id] = Advanced(peer)
    BY <1>1, <1>2, <1>7, <1>10
  <2>2. CASE p = m
    BY <1>2, <1>6, <1>9, <1>10, <2>1, <2>2 DEF FreeOrDue, Below
  <2>3. CASE p \in network
    <3>1. Below(p, peer) \/ p.sequence = peer.sequence
      BY <1>1, <1>2, <2>3 DEF SequencesAreFree, Fits, ConnectedIds
    <3>2. p.sequence \in Nat
      BY <2>3, PacketFields, WidthAssumption DEF IInv, TypeOK, ProtocolTypeOK, Sequence
    <3>3. Below(p, Advanced(peer))
      BY <1>9, <3>1, <3>2 DEF Below
    <3>4. QED
      BY <2>1, <3>3 DEF FreeOrDue, Below
  <2>4. QED
    BY <1>7, <2>2, <2>3
<1>11. CASE m.id = id /\ ~EndsGroup(m)
  <2>1. connected'[e][id] = peer
    BY <1>2, <1>7, <1>11
  <2>2. m.kind = "Fragment" /\ item.index # (item.total - 1) % FragmentModulus
    BY <1>6, <1>11 DEF EndsGroup
  <2>3. q \in FragmentQueue
    BY <1>6, <2>2 DEF FragmentQueue
  <2>4. Due(e, item.id, item.packetId)'
    BY <1>7, <1>8, <1>4, <2>2, <2>3, NextIsDue DEF GroupsAreQueued
  <2>5. Due(e, id, item.packetId)'
    BY <1>6, <1>11, <2>4
  <2>6. CASE p = m
    BY <1>2, <1>6, <1>11, <2>1, <2>2, <2>5, <2>6 DEF FreeOrDue
  <2>7. ASSUME p \in network, ~Below(p, peer) PROVE FreeOrDue(e, id, p)'
    <3>1. p.kind = "Fragment" /\ p.sequence = peer.sequence /\ Due(e, id, p.packetId)
      BY <1>1, <1>2, <2>7 DEF SequencesAreFree, Fits, ConnectedIds
    <3>2. p.packetId = item.packetId
      <4>1. Due(e, Head(scheduled[e][q]).id, p.packetId)
        BY <1>6, <1>11, <1>4, <3>1
      <4>2. Head(scheduled[e][q]).packetId = p.packetId
        BY <1>7, <4>1, DueIsNext
      <4>3. QED
        BY <1>4, <4>2
    <3>3. QED
      BY <2>1, <2>5, <3>1, <3>2 DEF FreeOrDue
  <2>8. Below(p, peer) => FreeOrDue(e, id, p)'
    BY <2>1 DEF FreeOrDue, Below
  <2>9. QED
    BY <1>7, <2>6, <2>7, <2>8
<1>12. CASE m.id # id
  <2>1. connected'[e][id] = peer
    BY <1>1, <1>2, <1>7, <1>12
  <2>2. CASE p \in network /\ Below(p, peer)
    BY <2>1, <2>2 DEF FreeOrDue, Below
  <2>3. CASE p \in network /\ ~Below(p, peer)
    <3>1. p.kind = "Fragment" /\ p.sequence = peer.sequence /\ Due(e, id, p.packetId)
      BY <1>1, <1>2, <2>3 DEF SequencesAreFree, Fits, ConnectedIds
    <3>2. Due(e, id, p.packetId)'
      BY <1>6, <1>7, <1>8, <1>12, <1>4, <3>1, DueKept
    <3>3. QED
      BY <2>1, <3>1, <3>2 DEF FreeOrDue
  <2>4. CASE p \notin network
    <3>1. NewPacket(p) /\ p = m
      BY <1>7, <2>4 DEF Moves, NetworkMoves
    <3>2. p.dst # peer.address
      BY <1>2, <1>12, <3>1, NewPacketTo DEF ConnectedIds
    <3>3. QED
      BY <2>1, <3>2 DEF FreeOrDue, Below
  <2>5. QED
    BY <2>2, <2>3, <2>4
<1>13. QED
  BY <1>10, <1>11, <1>12

\* What is due stays due while nothing is taken from the lists.
LEMMA DueStays ==
  ASSUME NEW e \in Endpoint, NEW id, NEW packetId, Due(e, id, packetId),
         phase'[e] = "send", scheduled'[e] = scheduled[e]
  PROVE  Due(e, id, packetId)'
BY DEF Due

\* An old packet stays below its peer's sequence, or the next part due.
LEMMA OldFree ==
  ASSUME IInv, SequencesAreFree, Moves,
         NEW e \in Endpoint, NEW id \in ConnectionId,
         connected[e][id] # NoPeer, connected'[e][id] # NoPeer,
         NEW p \in network, p.src = e, phase[e] \notin Stopped,
         Due(e, id, p.packetId) => Due(e, id, p.packetId)'
  PROVE  FreeOrDue(e, id, p)'
<1>1. /\ connected'[e][id].address = connected[e][id].address
      /\ connected[e][id].sequence \in Nat
      /\ connected'[e][id].sequence \in Nat
      /\ connected'[e][id].sequence >= connected[e][id].sequence
  BY ConnectedBefore
<1>2. p.sequence \in Nat
  BY PacketFields, WidthAssumption DEF IInv, TypeOK, ProtocolTypeOK, Sequence
<1>3. FreeOrDue(e, id, p)
  BY DEF SequencesAreFree, Fits, ConnectedIds, FreeOrDue
<1>4. CASE Below(p, connected[e][id])
  BY <1>1, <1>2, <1>4 DEF FreeOrDue, Below
<1>5. CASE /\ p.kind = "Fragment" /\ p.sequence = connected[e][id].sequence
           /\ Due(e, id, p.packetId)
  <2>1. CASE connected'[e][id].sequence = p.sequence
    BY <1>5, <2>1 DEF FreeOrDue
  <2>2. CASE p.sequence < connected'[e][id].sequence
    BY <2>2 DEF FreeOrDue, Below
  <2>3. QED
    BY <1>1, <1>2, <1>5, <2>1, <2>2
<1>6. QED
  BY <1>3, <1>4, <1>5 DEF FreeOrDue

\* What a connected peer was sent is below its sequence, or the next part due.
LEMMA ConnectedFree ==
  ASSUME IInv, GroupsAreQueued, SequencesAreFree, Moves, Sends,
         NEW e \in Endpoint, NEW id \in ConnectionId, connected'[e][id] # NoPeer,
         NEW p \in network', p.src = e,
         phase[e] \notin Stopped, phase'[e] \notin Stopped
  PROVE  FreeOrDue(e, id, p)'
<1>1. CASE connected[e][id] = NoPeer
  BY <1>1, JoinedFree DEF FreeOrDue, Below
<1>2. CASE connected[e][id] # NoPeer /\ Rests(e)
  <2>1. p \in network
    BY <1>2 DEF Rests
  <2>2. ASSUME Due(e, id, p.packetId) PROVE Due(e, id, p.packetId)'
    <3>1. phase[e] = "send" /\ ~ \A q \in Queue : scheduled[e][q] = <<>>
      BY <2>2, FragmentQueues DEF Due
    <3>2. phase'[e] = "send" /\ scheduled'[e] = scheduled[e]
      BY <1>2, <3>1 DEF Rests
    <3>3. QED
      BY <2>2, <3>2, DueStays
  <2>3. QED
    BY <1>2, <2>1, <2>2, OldFree
<1>3. CASE connected[e][id] # NoPeer /\ Opens(e)
  <2>1. phase'[e] = "send" /\ UNCHANGED <<scheduled[e], connected[e]>>
    BY <1>3 DEF Opens
  <2>2. CASE p \in network
    BY <1>3, <2>1, <2>2, DueStays, OldFree
  <2>3. CASE p \notin network
    <3>1. p.kind \in {"ConnectionRequest", "ConnectionAccepted"}
      BY <1>3, <2>3 DEF Opens
    <3>2. NewPacket(p)
      BY <2>3 DEF Moves, NetworkMoves
    <3>3. p.dst # connected[e][id].address
      BY <1>3, <3>1, <3>2, NewPacketTo DEF ConnectedIds, SentKind
    <3>4. QED
      BY <2>1, <3>3 DEF FreeOrDue, Below
  <2>4. QED
    BY <2>2, <2>3
<1>4. CASE connected[e][id] # NoPeer /\ Drains(e)
  BY <1>4, DrainFree
<1>5. QED
  BY <1>1, <1>2, <1>3, <1>4 DEF Sends

\* Every step leaves the sequences of every running endpoint's peers free.
LEMMA FreeKept ==
  ASSUME IInv, IInv', GroupsAreQueued, SequencesAreFree, Moves, Sends
  PROVE  SequencesAreFree'
<1> SUFFICES ASSUME NEW p \in network', phase'[p.src] \notin Stopped
             PROVE  Fits(p.src, p)'
  BY DEF SequencesAreFree
<1> DEFINE e == p.src
<1>1. e \in Endpoint
  BY PacketFields DEF IInv, TypeOK, ProtocolTypeOK
<1>2. phase[e] \notin Stopped
  BY <1>1 DEF Sends, Rests, Opens, Drains, Stopped
<1>3. \A id \in ConnectionId : connected'[e][id] # NoPeer => FreeOrDue(e, id, p)'
  BY <1>1, <1>2, ConnectedFree
<1>4. e \in Clients => \A a \in Endpoint :
        awaiting'[e][a] # NoPeer => Below(p, awaiting'[e][a])
  BY <1>2, AwaitingFree
<1>5. e \in Servers => \A id \in ConnectionId :
        awaitingAck'[e][id] # NoPeer => Below(p, awaitingAck'[e][id])
  BY <1>2, AwaitingAckFree
<1> HIDE DEF e
<1>6. Fits(e, p)'
  BY <1>3, <1>4, <1>5 DEF Fits, FreeOrDue, ConnectedIds, Below, e
<1>7. QED
  BY <1>6 DEF e

\* A packet goes out under a sequence that is free, or with its group.
LEMMA IdentifiesKept ==
  ASSUME IInv, SequencesAreFree, SequenceIdentifiesPacket, Moves, Sends
  PROVE  SequenceIdentifiesPacket'
<1>1. ASSUME NEW p \in network', NEW q \in network, p \notin network,
             p.src = q.src, p.dst = q.dst, p.sequence = q.sequence
      PROVE  p.kind = "Fragment" /\ q.kind = "Fragment" /\ p.packetId = q.packetId
  <2> DEFINE e == p.src
  <2>1. e \in Endpoint /\ q.sequence \in Nat
    BY <1>1, PacketFields, WidthAssumption DEF IInv, TypeOK, ProtocolTypeOK, Sequence
  <2>2. NewPacket(p)
    BY <1>1 DEF Moves, NetworkMoves
  <2>3. ~Rests(e)
    BY <1>1 DEF Rests
  <2>4. phase[e] = "send" /\ phase[e] \notin Stopped
    BY <2>1, <2>3 DEF Sends, Opens, Drains, Stopped
  <2>5. CASE Opens(e)
    <3>1. \/ /\ e \in Clients /\ p.dst \in Servers
             /\ Made(p, requesting[e][p.dst])
          \/ /\ e \in Servers /\ p.id \in ConnectionId
             /\ AcceptPending(e, p.id)
             /\ Made(p, awaitingAck[e][p.id])
      BY <1>1, <2>5 DEF Opens
    <3>2. CASE /\ e \in Clients /\ p.dst \in Servers
               /\ Made(p, requesting[e][p.dst])
      BY <1>1, <2>4, <3>2, NoneToRequesting DEF Made, Endpoint
    <3>3. CASE /\ e \in Servers /\ p.id \in ConnectionId
               /\ AcceptPending(e, p.id)
               /\ Made(p, awaitingAck[e][p.id])
      <4>1. connected[e][p.id] = NoPeer
        BY <3>3 DEF Made, IInv, UniqueIds
      <4>2. Owns(e, p.id, p.dst)
        BY <3>3, <4>1 DEF Made, Owns, Owner
      <4>3. QED
        BY <1>1, <3>3, <4>2, NoneToPending
    <3>4. QED
      BY <3>1, <3>2, <3>3
  <2>6. CASE Drains(e)
    <3>1. PICK l \in Queue :
            /\ NextInLine(e, l)
            /\ connected[e][Head(scheduled[e][l]).id] # NoPeer
            /\ p = Created(e, l, Head(scheduled[e][l]))
      BY <1>1, <2>6 DEF Drains
    <3>2. PICK item : item = Head(scheduled[e][l])
      OBVIOUS
    <3>3. /\ p.kind = DrainOrder[l].kind /\ p.kind \in SentKind /\ p.id = item.id
          /\ p.packetId = item.packetId
      BY <3>1, <3>2, CreatedFields
    <3>4. p.id \in ConnectionId /\ Made(p, connected[e][p.id])
      BY <2>2, <3>3 DEF NewPacket, SentKind
    <3>5. /\ q.kind = "Fragment" /\ Due(e, p.id, q.packetId)
      <4>1. Fits(e, q)
        BY <1>1, <2>4 DEF SequencesAreFree
      <4>2. p.id \in ConnectedIds(e)
        BY <3>4 DEF Made, ConnectedIds
      <4>3. /\ connected[e][p.id].address = q.dst
            /\ connected[e][p.id].sequence = q.sequence
        BY <1>1, <3>4 DEF Made
      <4>4. ~Below(q, connected[e][p.id])
        BY <2>1, <4>3 DEF Below
      <4>5. QED
        BY <4>1, <4>2, <4>4 DEF Fits
    <3>6. l \in FragmentQueue /\ item.packetId = q.packetId
      BY <3>1, <3>2, <3>3, <3>5, <2>1, DueIsNext
    <3>7. QED
      BY <3>3, <3>5, <3>6, FragmentQueues
  <2>7. QED
    BY <2>1, <2>3, <2>5, <2>6 DEF Sends
<1>2. ASSUME NEW p \in network', NEW q \in network', p \notin network, q \notin network,
             p.src = q.src
      PROVE  p = q
  <2>1. p.src \in Endpoint
    BY <1>2 DEF Moves, NetworkMoves, NewPacket, Endpoint
  <2>2. ~Rests(p.src)
    BY <1>2 DEF Rests
  <2>3. \E m : network' = network \cup {m}
    <3>1. CASE Opens(p.src)
      BY <3>1 DEF Opens
    <3>2. CASE Drains(p.src)
      BY <3>2 DEF Drains
    <3>3. QED
      BY <2>1, <2>2, <3>1, <3>2 DEF Sends
  <2>4. QED
    BY <1>2, <2>3
<1>3. QED
  BY <1>1, <1>2 DEF SequenceIdentifiesPacket

-----------------------------------------------------------------------------
(***************************************************************************)
(* The theorems.                                                           *)
(***************************************************************************)

\* Nothing is sent or scheduled at the start.
LEMMA SequenceInit == Init => SequenceInv
<1> SUFFICES ASSUME Init PROVE SequenceInv
  OBVIOUS
<1>1. network = {} /\ \A e \in Endpoint, q \in Queue : scheduled[e][q] = <<>>
  BY DEF Init, ProtocolInit
<1>2. GroupsAreQueued
  <2>1. GroupsEnd(<<>>)
    BY DEF GroupsEnd
  <2>2. QED
    BY <1>1, <2>1, FragmentQueues DEF GroupsAreQueued
<1>3. SequencesAreFree /\ SequenceIdentifiesPacket
  BY <1>1 DEF SequencesAreFree, SequenceIdentifiesPacket
<1>4. QED
  BY <1>2, <1>3, TrackerInit DEF SequenceInv, SequencesFit

\* The third inductive invariant is inductive.
LEMMA SequenceNext == SequenceInv /\ [Next]_vars => SequenceInv'
<1> SUFFICES ASSUME SequenceInv, [Next]_vars PROVE SequenceInv'
  OBVIOUS
<1>1. /\ IInv /\ TrackerInv
      /\ GroupsAreQueued /\ SequencesAreFree /\ SequenceIdentifiesPacket
  BY DEF SequenceInv, SequencesFit, TrackerInv
<1>2. TrackerInv' /\ IInv'
  BY <1>1, TrackerNext DEF TrackerInv
<1>3. Moves /\ Sends
  BY <1>1, NextMoves, NextSends
<1>4. GroupsAreQueued'
  BY <1>1, GroupsKept
<1>5. SequencesAreFree' /\ SequenceIdentifiesPacket'
  BY <1>1, <1>2, <1>3, FreeKept, IdentifiesKept
<1>6. QED
  BY <1>2, <1>4, <1>5 DEF SequenceInv, SequencesFit

(***************************************************************************)
(* In every reachable state the sequence of a peer is free for the packet  *)
(* it is put on next, or belongs to the group whose next part is due.      *)
(***************************************************************************)
THEOREM SequencesInductive == Spec => []SequenceInv
BY SequenceInit, SequenceNext, PTL DEF Spec

(***************************************************************************)
(* No two packets of one endpoint to another share a sequence, but as      *)
(* fragments of one payload, whatever is sent, retried or still scheduled. *)
(***************************************************************************)
THEOREM SequenceIdentifiesHolds == Spec => []SequenceIdentifiesPacket
<1>1. SequenceInv => SequenceIdentifiesPacket
  BY DEF SequenceInv
<1>2. QED
  BY SequencesInductive, <1>1, PTL

(***************************************************************************)
(* The sequences of a running endpoint's peers are free, and the groups in *)
(* its lists whole.                                                        *)
(***************************************************************************)
THEOREM SequencesFitHolds == Spec => []SequencesFit
<1>1. SequenceInv => SequencesFit
  BY DEF SequenceInv
<1>2. QED
  BY SequencesInductive, <1>1, PTL

-----------------------------------------------------------------------------
(***************************************************************************)
(* The parts of a payload go out under one sequence, if a byte counts      *)
(* them: GroupInv is inductive.                                            *)
(*                                                                         *)
(* A group is cut by whatever advances its peer's sequence while a part of *)
(* it is queued.  Of what is sent meanwhile only another part can be for   *)
(* that peer (SequencesFit), it does not end the group (LastPartsEnd), and *)
(* nothing but a send advances a sequence while the lists are drained.     *)
(***************************************************************************)

-----------------------------------------------------------------------------
(***************************************************************************)
(* The last part of a group in a list.                                     *)
(***************************************************************************)

\* Poll takes the first item of a list.
LEMMA LastPartsTail ==
  ASSUME NEW S, NEW list \in Seq(S), list # <<>>, LastPartsAreLast(list)
  PROVE  LastPartsAreLast(Tail(list))
<1>1. /\ Len(list) \in Nat /\ DOMAIN list = 1 .. Len(list)
      /\ DOMAIN Tail(list) = 1 .. Len(list) - 1
      /\ \A k \in 1 .. Len(list) - 1 : Tail(list)[k] = list[k + 1]
  OBVIOUS
<1>2. \A k \in DOMAIN Tail(list) : k + 1 \in DOMAIN list /\ k \in Nat
  BY <1>1
<1> SUFFICES ASSUME NEW i \in DOMAIN Tail(list), NEW j \in DOMAIN Tail(list), i < j,
                    Tail(list)[i].id = Tail(list)[j].id,
                    Tail(list)[i].packetId = Tail(list)[j].packetId
             PROVE  Tail(list)[i].index # (Tail(list)[i].total - 1) % FragmentModulus
  BY DEF LastPartsAreLast
<1>3. /\ i + 1 \in DOMAIN list /\ j + 1 \in DOMAIN list /\ i + 1 < j + 1
      /\ Tail(list)[i] = list[i + 1] /\ Tail(list)[j] = list[j + 1]
  BY <1>1, <1>2
<1>4. QED
  BY <1>3 DEF LastPartsAreLast

\* What is first of a group that goes on behind it does not end it.
LEMMA FirstGoesOn ==
  ASSUME NEW S, NEW list \in Seq(S), list # <<>>, LastPartsAreLast(list),
         NEW item \in ToSet(Tail(list)),
         item.id = Head(list).id, item.packetId = Head(list).packetId
  PROVE  Head(list).index # (Head(list).total - 1) % FragmentModulus
<1>1. /\ Len(list) \in Nat /\ DOMAIN list = 1 .. Len(list) /\ Head(list) = list[1]
      /\ DOMAIN Tail(list) = 1 .. Len(list) - 1
      /\ \A k \in 1 .. Len(list) - 1 : Tail(list)[k] = list[k + 1]
  OBVIOUS
<1>2. PICK k \in 1 .. Len(list) - 1 : item = Tail(list)[k]
  BY <1>1 DEF ToSet
<1>3. 1 \in DOMAIN list /\ k + 1 \in DOMAIN list /\ 1 < k + 1 /\ item = list[k + 1]
  BY <1>1, <1>2
<1>4. QED
  BY <1>1, <1>3 DEF LastPartsAreLast

\* A list and what a new call adds to it have no group in common.
LEMMA LastPartsConcat ==
  ASSUME NEW S, NEW list \in Seq(S), NEW more \in Seq(S),
         LastPartsAreLast(list), LastPartsAreLast(more),
         \A x \in ToSet(list), y \in ToSet(more) : x.packetId # y.packetId
  PROVE  LastPartsAreLast(list \o more)
<1> DEFINE both == list \o more
           n == Len(list)
<1>1. /\ n \in Nat /\ Len(more) \in Nat
      /\ DOMAIN list = 1 .. n /\ DOMAIN more = 1 .. Len(more)
      /\ DOMAIN both = 1 .. n + Len(more)
  OBVIOUS
<1>2. /\ \A k \in 1 .. n : both[k] = list[k]
      /\ \A k \in 1 .. Len(more) : both[n + k] = more[k]
  OBVIOUS
<1> HIDE DEF both, n
<1>3. \A k \in DOMAIN both :
        \/ k \in DOMAIN list /\ both[k] = list[k]
        \/ k - n \in DOMAIN more /\ both[k] = more[k - n]
  <2> SUFFICES ASSUME NEW k \in DOMAIN both
               PROVE  \/ k \in DOMAIN list /\ both[k] = list[k]
                      \/ k - n \in DOMAIN more /\ both[k] = more[k - n]
    OBVIOUS
  <2>1. CASE k <= n
    BY <1>1, <1>2, <2>1
  <2>2. CASE ~(k <= n)
    <3>1. k - n \in 1 .. Len(more) /\ n + (k - n) = k
      BY <1>1, <2>2
    <3>2. QED
      BY <1>1, <1>2, <3>1
  <2>3. QED
    BY <2>1, <2>2
<1> SUFFICES ASSUME NEW i \in DOMAIN both, NEW j \in DOMAIN both, i < j,
                    both[i].id = both[j].id, both[i].packetId = both[j].packetId
             PROVE  both[i].index # (both[i].total - 1) % FragmentModulus
  BY DEF LastPartsAreLast, both
<1>4. CASE i \in DOMAIN list /\ both[i] = list[i] /\ j \in DOMAIN list /\ both[j] = list[j]
  BY <1>4 DEF LastPartsAreLast
<1>5. CASE /\ i - n \in DOMAIN more /\ both[i] = more[i - n]
           /\ j - n \in DOMAIN more /\ both[j] = more[j - n]
  <2>1. i - n < j - n
    BY <1>1
  <2>2. QED
    BY <1>5, <2>1 DEF LastPartsAreLast
<1>6. CASE /\ i \in DOMAIN list /\ both[i] = list[i]
           /\ j - n \in DOMAIN more /\ both[j] = more[j - n]
  BY <1>6 DEF ToSet
<1>7. CASE /\ i - n \in DOMAIN more /\ both[i] = more[i - n]
           /\ j \in DOMAIN list /\ both[j] = list[j]
  BY <1>7 DEF ToSet
<1>8. QED
  BY <1>3, <1>4, <1>5, <1>6, <1>7

\* Nobody is a recipient of a call twice.
LEMMA RecipientsDiffer ==
  ASSUME NEW e \in Endpoint, NEW ids \in Recipients(e),
         NEW i \in DOMAIN ids, NEW j \in DOMAIN ids, ids[i] = ids[j]
  PROVE  i = j
<1>1. CASE \E id \in ConnectedIds(e) : ids = <<id>>
  BY <1>1
<1>2. CASE ids \in SetToSeqs(ConnectedIds(e))
  BY <1>2 DEF SetToSeqs
<1>3. QED
  BY <1>1, <1>2 DEF Recipients

\* The chunks of a call are queued in their order, the last one last.
LEMMA LastPartsBatch ==
  ASSUME ProtocolTypeOK, NEW e \in Endpoint, NEW ids \in Recipients(e),
         NEW total \in Nat, total <= FragmentModulus
  PROVE  LastPartsAreLast(Batch(e, ids, total))
<1> DEFINE width == Len(ids)
           list == Batch(e, ids, total)
           m == FragmentModulus
<1>1. width \in Nat /\ total * width \in Nat /\ DOMAIN ids = 1 .. width
  BY RecipientsType
<1>2. DOMAIN list = 1 .. total * width
  BY DEF Batch
<1>3. \A k \in 1 .. total * width :
        /\ list[k].id = ids[((k - 1) % width) + 1]
        /\ list[k].index = ((k - 1) \div width) % m
        /\ list[k].total = total % m
  BY DEF Batch, ScheduledItem
<1>4. m \in Nat \ {0, 1}
  BY WidthAssumption
<1> HIDE DEF list, width, m
<1> SUFFICES ASSUME NEW i \in 1 .. total * width, NEW j \in 1 .. total * width, i < j,
                    list[i].id = list[j].id
             PROVE  list[i].index # (list[i].total - 1) % m
  BY <1>2 DEF LastPartsAreLast, list, m
<1>5. width # 0 /\ total # 0
  BY <1>1
<1> DEFINE column(k) == (k - 1) % width
           row(k) == (k - 1) \div width
<1>6. \A k \in 1 .. total * width :
        /\ column(k) \in 0 .. width - 1 /\ row(k) \in Nat
        /\ k - 1 = row(k) * width + column(k)
        /\ row(k) < total
  <2> SUFFICES ASSUME NEW k \in 1 .. total * width
               PROVE  /\ column(k) \in 0 .. width - 1 /\ row(k) \in Nat
                      /\ k - 1 = row(k) * width + column(k)
                      /\ row(k) < total
    OBVIOUS
  <2>1. /\ column(k) \in 0 .. width - 1 /\ row(k) \in Nat
        /\ k - 1 = row(k) * width + column(k)
    BY <1>1, <1>5
  <2>2. row(k) * width < total * width
    BY <1>1, <2>1
  <2> HIDE DEF row, column
  <2>3. row(k) < total
    BY <1>1, <1>5, <2>1, <2>2
  <2>4. QED
    BY <2>1, <2>3
<1>7. column(i) = column(j)
  <2>1. column(i) + 1 \in DOMAIN ids /\ column(j) + 1 \in DOMAIN ids
    BY <1>1, <1>6
  <2>2. ids[column(i) + 1] = ids[column(j) + 1]
    BY <1>3
  <2> HIDE DEF column
  <2>3. column(i) + 1 = column(j) + 1
    BY <2>1, <2>2, RecipientsDiffer
  <2>4. QED
    BY <1>1, <1>6, <2>3
<1>8. list[i].index = row(i) % m
  BY <1>3
<1> HIDE DEF row, column
<1>9. row(i) < row(j)
  <2>1. PICK a \in Nat, b \in Nat : a = row(i) /\ b = row(j)
    BY <1>6
  <2>2. a * width < b * width
    <3>1. PICK c \in Int : c = column(i) /\ c = column(j)
      BY <1>1, <1>6, <1>7
    <3>2. i - 1 = a * width + c /\ j - 1 = b * width + c
      BY <1>6, <2>1, <3>1
    <3>3. a * width \in Int /\ b * width \in Int /\ i \in Int /\ j \in Int
      BY <1>1, <2>1
    <3>4. QED
      BY <3>1, <3>2, <3>3
  <2>3. a >= b => a * width >= b * width
    BY <1>1, <2>1
  <2>4. a * width \in Nat /\ b * width \in Nat
    BY <1>1, <2>1
  <2>5. QED
    BY <2>1, <2>2, <2>3, <2>4
<1>10. row(i) < total - 1 /\ total - 1 < m /\ row(i) \in Nat /\ total - 1 \in Nat
  BY <1>4, <1>5, <1>6, <1>9 DEF m
<1>11. row(i) % m = row(i) /\ (total - 1) % m = total - 1
  BY <1>4, <1>10
<1>12. (list[i].total - 1) % m = total - 1
  BY <1>3, <1>11, LastIndex DEF m
<1>13. QED
  BY <1>8, <1>10, <1>11, <1>12

-----------------------------------------------------------------------------
(***************************************************************************)
(* What a step does to the lists.                                          *)
(***************************************************************************)

\* It leaves them, takes the first item of one, or is a call.
ListMoves ==
  \/ /\ UNCHANGED scheduled
     /\ \A e \in Endpoint : packetIdTracker[e] <= packetIdTracker'[e]
  \/ /\ UNCHANGED packetIdTracker
     /\ \E e \in Endpoint, l \in Queue :
          /\ scheduled[e][l] # <<>>
          /\ scheduled' = [scheduled EXCEPT ![e][l] = Tail(@)]
  \/ /\ UNCHANGED network
     /\ \E e \in Endpoint, l \in Queue, total \in Nat : \E ids \in Recipients(e) :
          /\ total <= FragmentModulus
          /\ Enqueue(e, l, Batch(e, ids, total))

\* A call is for a group whose chunks fit.
LEMMA CallListMoves ==
  ASSUME ChunksFit, NEW e \in Endpoint, Schedule(e) \/ Heartbeat(e)
  PROVE  ListMoves
<1>1. 1 \in Nat /\ 1 <= FragmentModulus
  BY WidthAssumption
<1>2. UNCHANGED network
  BY DEF Schedule, Heartbeat, Enqueue
<1>3. CASE Schedule(e)
  <2>1. PICK ids \in Recipients(e), total \in FragmentTotals, l \in AppLists :
          Enqueue(e, l, Batch(e, ids, total))
    BY <1>3 DEF Schedule
  <2>2. total \in Nat /\ total <= FragmentModulus /\ l \in Queue
    BY ClockAssumption DEF ChunksFit, Queue
  <2>3. QED
    BY <1>2, <2>1, <2>2 DEF ListMoves
<1>4. CASE Heartbeat(e)
  <2>1. PICK ids \in Recipients(e), l \in AppLists : Enqueue(e, l, Batch(e, ids, 1))
    BY <1>4 DEF Heartbeat
  <2>2. l \in Queue
    BY ClockAssumption DEF Queue
  <2>3. QED
    BY <1>1, <1>2, <2>1, <2>2 DEF ListMoves
<1>5. QED
  BY <1>3, <1>4

\* Every step moves the lists so.
LEMMA NextListMoves ==
  ASSUME ChunksFit, IInv, [Next]_vars
  PROVE  ListMoves
<1>1. /\ packetIdTracker \in [Endpoint -> Nat]
      /\ \A n \in Nat : n <= n /\ n <= n + 1
  BY DEF IInv, TypeOK, ProtocolTypeOK, PacketId
<1>2. ASSUME UNCHANGED scheduled,
             \/ UNCHANGED packetIdTracker
             \/ \E e \in Endpoint :
                  packetIdTracker' = [packetIdTracker EXCEPT ![e] = @ + 1]
      PROVE  ListMoves
  <2>1. \A e \in Endpoint : packetIdTracker[e] <= packetIdTracker'[e]
    BY <1>1, <1>2
  <2>2. QED
    BY <1>2, <2>1 DEF ListMoves
<1>3. ASSUME NEW e \in Endpoint, NEW q \in Queue, NEW peers,
             SendScheduled(e, q, peers)
      PROVE  ListMoves
  BY <1>3 DEF SendScheduled, NextInLine, ListMoves
<1>4. ASSUME NEW c \in Clients, ClientNext(c) PROVE ListMoves
  <2>1. c \in Endpoint
    BY DEF Endpoint
  <2>2. CASE Schedule(c) \/ Heartbeat(c)
    BY <2>1, <2>2, CallListMoves
  <2>3. ASSUME NEW q \in Queue, ClientSend(c, q) PROVE ListMoves
    BY <1>3, <2>1, <2>3 DEF ClientSend
  <2>4. CASE \E s \in Servers : Connect(c, s)
    BY <1>2, <2>1, <2>4 DEF Connect
  <2>5. CASE \/ RetryConnectionRequest(c) \/ ClientRetryDataTransfer(c)
             \/ SendConnectionRequest(c) \/ ClientPoll(c) \/ Tick(c)
             \/ \E p \in network : ClientReceive(c, p)
    BY <1>2, <2>5
    DEF RetryConnectionRequest, ClientRetryDataTransfer, Resend, Forget,
        SendConnectionRequest, ClientPoll, PollHandler, Tick, ClientReceive,
        ClientOnReceived, Receives
  <2>6. QED
    BY <1>4, <2>2, <2>3, <2>4, <2>5 DEF ClientNext, ClientPolls
<1>5. ASSUME NEW s \in Servers, ServerNext(s) PROVE ListMoves
  <2>1. s \in Endpoint
    BY DEF Endpoint
  <2>2. CASE Schedule(s) \/ Heartbeat(s)
    BY <2>1, <2>2, CallListMoves
  <2>3. ASSUME NEW q \in Queue, ServerSend(s, q) PROVE ListMoves
    BY <1>3, <2>1, <2>3 DEF ServerSend
  <2>4. ASSUME NEW p \in network, ServerReceive(s, p) PROVE ListMoves
    <3>1. UNCHANGED scheduled
      BY <2>4 DEF ServerReceive, Receives
    <3>2. \/ UNCHANGED packetIdTracker
          \/ packetIdTracker' = [packetIdTracker EXCEPT ![s] = @ + 1]
      BY <2>4, PacketFields
      DEF ServerReceive, ServerOnReceived, OnConnectionRequest, ServerOnDataTransfer,
          ServerOnFragment, ServerOnHeartbeat, Refused, AckPeer, IInv, TypeOK,
          ProtocolTypeOK, Kind
    <3>3. QED
      BY <1>2, <2>1, <3>1, <3>2
  <2>5. CASE \/ RetryConnectionAccepted(s)
             \/ ServerRetryDataTransfer(s) \/ ServerRetryFragment(s)
             \/ SendConnectionAccepted(s) \/ ServerPoll(s) \/ Tick(s)
    BY <1>2, <2>5
    DEF RetryConnectionAccepted, ServerRetryDataTransfer, ServerRetryFragment,
        RetrySent, Resend, Forget, SendConnectionAccepted, ServerPoll, PollHandler,
        Tick
  <2>6. QED
    BY <1>5, <2>2, <2>3, <2>4, <2>5 DEF ServerNext, ServerPolls
<1>6. CASE UNCHANGED vars
  BY <1>2, <1>6 DEF vars, protocolVars
<1>7. QED
  BY <1>4, <1>5, <1>6 DEF Next

\* While lists are drained, what sends from none leaves the peers alone.
LEMMA DrainedPeersStay ==
  ASSUME IInv, [Next]_vars, NEW e \in Endpoint, phase[e] = "send",
         ~ \A q \in Queue : scheduled[e][q] = <<>>,
         scheduled'[e] = scheduled[e]
  PROVE  connected'[e] = connected[e]
<1>1. /\ connected \in [Endpoint -> [ConnectionId -> Peer \cup {NoPeer}]]
      /\ scheduled \in [Endpoint -> [Queue -> Seq(Scheduled)]]
  BY DEF IInv, TypeOK, ProtocolTypeOK
<1>2. CASE UNCHANGED connected
  BY <1>2
<1>3. ASSUME NEW q \in Queue, NEW peers, SendScheduled(e, q, peers) PROVE FALSE
  <2>1. /\ scheduled[e][q] \in Seq(Scheduled) /\ scheduled[e][q] # <<>>
        /\ scheduled'[e][q] = Tail(scheduled[e][q])
    BY <1>1, <1>3 DEF SendScheduled, NextInLine
  <2>2. Len(Tail(scheduled[e][q])) # Len(scheduled[e][q])
    BY <2>1
  <2>3. QED
    BY <2>1, <2>2
<1>4. ASSUME NEW a \in Endpoint, a # e, NEW now,
             connected' = [connected EXCEPT ![a] = now]
      PROVE  connected'[e] = connected[e]
  BY <1>1, <1>4
<1>5. ASSUME NEW a \in Endpoint, NEW p, NEW reliable, NEW peers, NEW sents, NEW next,
             a # e, SendPacket(a, p, reliable, peers, sents, next)
      PROVE  connected'[e] = connected[e]
  BY <1>4, <1>5 DEF SendPacket
<1>6. ASSUME NEW c \in Clients, ClientNext(c) PROVE connected'[e] = connected[e]
  <2>1. c \in Endpoint
    BY DEF Endpoint
  <2>2. CASE \/ Schedule(c) \/ Heartbeat(c) \/ Tick(c)
             \/ \E s \in Servers : Connect(c, s)
             \/ RetryConnectionRequest(c) \/ SendConnectionRequest(c) \/ ClientPoll(c)
    BY <1>2, <2>2
    DEF Schedule, Heartbeat, Enqueue, Tick, Connect, RetryConnectionRequest,
        SendConnectionRequest, ClientPoll, PollHandler
  <2>3. ASSUME NEW q \in Queue, ClientSend(c, q) PROVE connected'[e] = connected[e]
    <3>1. c # e
      BY <1>3, <2>3 DEF ClientSend
    <3>2. QED
      BY <1>2, <1>5, <2>1, <2>3, <3>1 DEF ClientSend, SendScheduled
  <2>4. CASE ClientRetryDataTransfer(c)
    <3>1. c # e
      BY <2>4 DEF ClientRetryDataTransfer
    <3>2. QED
      BY <1>2, <1>5, <2>1, <2>4, <3>1 DEF ClientRetryDataTransfer, Resend, Forget
  <2>5. ASSUME NEW p \in network, ClientReceive(c, p) PROVE connected'[e] = connected[e]
    <3>1. c # e
      BY <2>5 DEF ClientReceive, Receives
    <3>2. p.kind \in Kind
      BY PacketFields DEF IInv, TypeOK, ProtocolTypeOK
    <3>3. UNCHANGED connected \/ Establish(c, p) \/ AckConnected(c, p)
      BY <2>5, <3>2
      DEF ClientReceive, ClientOnReceived, Kind, Refuse, OnConnectionAccepted,
          OnDataTransfer, OnFragment, OnHeartbeat
    <3>4. QED
      BY <1>1, <2>1, <3>1, <3>3 DEF Establish, AckConnected
  <2>6. QED
    BY <1>6, <2>2, <2>3, <2>4, <2>5 DEF ClientNext, ClientPolls
<1>7. ASSUME NEW s \in Servers, ServerNext(s) PROVE connected'[e] = connected[e]
  <2>1. s \in Endpoint
    BY DEF Endpoint
  <2>2. CASE \/ Schedule(s) \/ Heartbeat(s) \/ Tick(s)
             \/ RetryConnectionAccepted(s) \/ SendConnectionAccepted(s) \/ ServerPoll(s)
    BY <1>2, <2>2
    DEF Schedule, Heartbeat, Enqueue, Tick, RetryConnectionAccepted,
        SendConnectionAccepted, ServerPoll, PollHandler
  <2>3. ASSUME NEW q \in Queue, ServerSend(s, q) PROVE connected'[e] = connected[e]
    <3>1. s # e
      BY <1>3, <2>3 DEF ServerSend
    <3>2. QED
      BY <1>2, <1>5, <2>1, <2>3, <3>1 DEF ServerSend, SendScheduled
  <2>4. CASE ServerRetryDataTransfer(s) \/ ServerRetryFragment(s)
    <3>1. s # e
      BY <2>4 DEF ServerRetryDataTransfer, ServerRetryFragment, RetrySent
    <3>2. QED
      BY <1>2, <1>5, <2>1, <2>4, <3>1
      DEF ServerRetryDataTransfer, ServerRetryFragment, RetrySent, Resend, Forget
  <2>5. ASSUME NEW p \in network, ServerReceive(s, p) PROVE connected'[e] = connected[e]
    <3>1. s # e
      BY <2>5 DEF ServerReceive, Receives
    <3>2. p.kind \in Kind
      BY PacketFields DEF IInv, TypeOK, ProtocolTypeOK
    <3>3. UNCHANGED connected \/ AckPeer(s, p)
      BY <2>5, <3>2
      DEF ServerReceive, ServerOnReceived, Kind, Refused, OnConnectionRequest,
          ServerOnDataTransfer, ServerOnFragment, ServerOnHeartbeat
    <3>4. QED
      BY <1>1, <2>1, <3>1, <3>3 DEF AckPeer
  <2>6. QED
    BY <1>7, <2>2, <2>3, <2>4, <2>5 DEF ServerNext, ServerPolls
<1>8. CASE UNCHANGED vars
  BY <1>2, <1>8 DEF vars, protocolVars
<1>9. QED
  BY <1>6, <1>7, <1>8 DEF Next

\* What becomes of one list: nothing, less, or a call is behind it.
ListMove(e, q) ==
  \/ scheduled'[e][q] = scheduled[e][q]
  \/ scheduled[e][q] # <<>> /\ scheduled'[e][q] = Tail(scheduled[e][q])
  \/ /\ packetIdTracker'[e] = packetIdTracker[e] + 1
     /\ \A l \in Queue : l # q => scheduled'[e][l] = scheduled[e][l]
     /\ \E total \in Nat : \E ids \in Recipients(e) :
          /\ total <= FragmentModulus
          /\ scheduled'[e][q] = scheduled[e][q] \o Batch(e, ids, total)

\* Every list moves so, and ids of calls are not used twice.
LEMMA EachListMoves ==
  ASSUME IInv, IInv', ListMoves, NEW e \in Endpoint
  PROVE  /\ \A q \in Queue : ListMove(e, q)
         /\ packetIdTracker[e] \in Nat /\ packetIdTracker'[e] \in Nat
         /\ packetIdTracker[e] <= packetIdTracker'[e]
<1>1. /\ scheduled \in [Endpoint -> [Queue -> Seq(Scheduled)]]
      /\ packetIdTracker \in [Endpoint -> Nat]
      /\ packetIdTracker' \in [Endpoint -> Nat]
  BY DEF IInv, TypeOK, ProtocolTypeOK, PacketId
<1>2. CASE /\ UNCHANGED scheduled
           /\ \A a \in Endpoint : packetIdTracker[a] <= packetIdTracker'[a]
  BY <1>1, <1>2 DEF ListMove
<1>3. ASSUME NEW a \in Endpoint, NEW l \in Queue, UNCHANGED packetIdTracker,
             scheduled[a][l] # <<>>,
             scheduled' = [scheduled EXCEPT ![a][l] = Tail(@)]
      PROVE  /\ \A q \in Queue : ListMove(e, q)
             /\ packetIdTracker[e] <= packetIdTracker'[e]
  <2>1. ASSUME NEW q \in Queue PROVE ListMove(e, q)
    <3>1. CASE a = e /\ l = q
      BY <1>1, <1>3, <3>1 DEF ListMove
    <3>2. CASE ~(a = e /\ l = q)
      <4>1. scheduled'[e][q] = scheduled[e][q]
        BY <1>1, <1>3, <3>2
      <4>2. QED
        BY <4>1 DEF ListMove
    <3>3. QED
      BY <3>1, <3>2
  <2>2. packetIdTracker[e] <= packetIdTracker'[e]
    BY <1>1, <1>3
  <2>3. QED
    BY <2>1, <2>2
<1>4. ASSUME NEW a \in Endpoint, NEW l \in Queue, NEW total \in Nat,
             NEW ids \in Recipients(a), total <= FragmentModulus,
             Enqueue(a, l, Batch(a, ids, total))
      PROVE  /\ \A q \in Queue : ListMove(e, q)
             /\ packetIdTracker[e] <= packetIdTracker'[e]
  <2>1. /\ scheduled' = [scheduled EXCEPT ![a][l] = @ \o Batch(a, ids, total)]
        /\ packetIdTracker' = [packetIdTracker EXCEPT ![a] = @ + 1]
    BY <1>4 DEF Enqueue
  <2>2. ASSUME NEW q \in Queue PROVE ListMove(e, q)
    <3>1. CASE a = e /\ l = q
      <4>1. /\ scheduled'[e][q] = scheduled[e][q] \o Batch(e, ids, total)
            /\ packetIdTracker'[e] = packetIdTracker[e] + 1
        BY <1>1, <2>1, <3>1
      <4>2. \A k \in Queue : k # q => scheduled'[e][k] = scheduled[e][k]
        BY <1>1, <2>1, <3>1
      <4>3. QED
        BY <1>4, <3>1, <4>1, <4>2 DEF ListMove
    <3>2. CASE ~(a = e /\ l = q)
      <4>1. scheduled'[e][q] = scheduled[e][q]
        BY <1>1, <2>1, <3>2
      <4>2. QED
        BY <4>1 DEF ListMove
    <3>3. QED
      BY <3>1, <3>2
  <2>3. packetIdTracker[e] <= packetIdTracker'[e]
    BY <1>1, <2>1
  <2>4. QED
    BY <2>2, <2>3
<1>5. QED
  BY <1>1, <1>2, <1>3, <1>4 DEF ListMoves

\* The items of a call have its id.
LEMMA BatchId ==
  ASSUME NEW e, NEW ids, NEW total, NEW item \in ToSet(Batch(e, ids, total))
  PROVE  item.packetId = packetIdTracker[e]
BY DEF ToSet, Batch, ScheduledItem

\* What a list holds was there, or is of the call just made.
LEMMA ItemsBefore ==
  ASSUME IInv, NEW e \in Endpoint, NEW q \in Queue, ListMove(e, q),
         NEW item \in ToSet(scheduled'[e][q])
  PROVE  \/ item \in ToSet(scheduled[e][q])
         \/ /\ item.packetId = packetIdTracker[e]
            /\ packetIdTracker'[e] = packetIdTracker[e] + 1
            /\ \A l \in Queue : l # q => scheduled'[e][l] = scheduled[e][l]
<1>1. ProtocolTypeOK /\ scheduled[e][q] \in Seq(Scheduled)
  BY DEF IInv, TypeOK, ProtocolTypeOK
<1>2. CASE scheduled'[e][q] = scheduled[e][q]
  BY <1>2
<1>3. CASE scheduled[e][q] # <<>> /\ scheduled'[e][q] = Tail(scheduled[e][q])
  BY <1>1, <1>3, ToSetTail
<1>4. ASSUME packetIdTracker'[e] = packetIdTracker[e] + 1,
             \A l \in Queue : l # q => scheduled'[e][l] = scheduled[e][l],
             NEW total \in Nat, NEW ids \in Recipients(e),
             scheduled'[e][q] = scheduled[e][q] \o Batch(e, ids, total)
      PROVE  \/ item \in ToSet(scheduled[e][q])
             \/ item.packetId = packetIdTracker[e]
  <2>1. Batch(e, ids, total) \in Seq(Scheduled)
    BY <1>1, BatchType
  <2>2. item \in ToSet(scheduled[e][q]) \cup ToSet(Batch(e, ids, total))
    BY <1>1, <1>4, <2>1, ToSetConcat
  <2>3. QED
    BY <2>2, BatchId
<1>5. QED
  BY <1>2, <1>3, <1>4 DEF ListMove

-----------------------------------------------------------------------------
(***************************************************************************)
(* The lists stay so.                                                      *)
(***************************************************************************)

\* The last part of a group stays the last of its list.
LEMMA LastPartsKept ==
  ASSUME IInv, IInv', LastPartsEnd, CallsAreNumbered, ListMoves
  PROVE  LastPartsEnd'
<1> SUFFICES ASSUME NEW e \in Endpoint, NEW q \in FragmentQueue
             PROVE  LastPartsAreLast(scheduled'[e][q])
  BY DEF LastPartsEnd, LastPartsAreLast
<1>1. q \in Queue /\ ListMove(e, q) /\ packetIdTracker[e] \in Nat
  BY FragmentQueues, EachListMoves
<1>2. /\ ProtocolTypeOK /\ scheduled[e][q] \in Seq(Scheduled)
      /\ LastPartsAreLast(scheduled[e][q])
  BY <1>1 DEF IInv, TypeOK, ProtocolTypeOK, LastPartsEnd
<1>3. CASE scheduled[e][q] # <<>> /\ scheduled'[e][q] = Tail(scheduled[e][q])
  BY <1>2, <1>3, LastPartsTail
<1>4. ASSUME NEW total \in Nat, NEW ids \in Recipients(e), total <= FragmentModulus,
             scheduled'[e][q] = scheduled[e][q] \o Batch(e, ids, total)
      PROVE  LastPartsAreLast(scheduled'[e][q])
  <2> DEFINE list == scheduled[e][q]
             more == Batch(e, ids, total)
  <2>1. more \in Seq(Scheduled) /\ LastPartsAreLast(more)
    BY <1>2, <1>4, BatchType, LastPartsBatch
  <2>2. \A x \in ToSet(list), y \in ToSet(more) : x.packetId # y.packetId
    <3> SUFFICES ASSUME NEW x \in ToSet(list), NEW y \in ToSet(more)
                 PROVE  x.packetId # y.packetId
      OBVIOUS
    <3>1. x.packetId < packetIdTracker[e]
      BY DEF CallsAreNumbered
    <3>2. y.packetId = packetIdTracker[e]
      BY BatchId
    <3>3. QED
      BY <1>1, <3>1, <3>2
  <2>3. list \in Seq(Scheduled) /\ LastPartsAreLast(list)
    BY <1>2
  <2> HIDE DEF list, more
  <2>4. LastPartsAreLast(list \o more)
    BY <2>1, <2>2, <2>3, LastPartsConcat
  <2>5. QED
    BY <1>4, <2>4 DEF list, more
<1>5. QED
  BY <1>1, <1>2, <1>3, <1>4 DEF ListMove

\* A fragment that is sent now was queued.
LEMMA NewFragment ==
  ASSUME IInv, Sends, NEW p \in network', p \notin network, p.src \in Endpoint,
         p.kind = "Fragment"
  PROVE  \E q \in FragmentQueue :
           /\ NextInLine(p.src, q)
           /\ p = Created(p.src, q, Head(scheduled[p.src][q]))
           /\ Head(scheduled[p.src][q]) \in ToSet(scheduled[p.src][q])
<1>1. Drains(p.src)
  BY DEF Sends, Rests, Opens
<1>2. PICK q \in Queue :
        /\ NextInLine(p.src, q)
        /\ p = Created(p.src, q, Head(scheduled[p.src][q]))
  BY <1>1 DEF Drains
<1>3. q \in FragmentQueue
  <2>1. Created(p.src, q, Head(scheduled[p.src][q])).kind = DrainOrder[q].kind
    BY DEF Created, IntoPacket
  <2>2. QED
    BY <1>2, <2>1 DEF FragmentQueue
<1>4. scheduled[p.src][q] \in Seq(Scheduled) /\ scheduled[p.src][q] # <<>>
  BY <1>2 DEF IInv, TypeOK, ProtocolTypeOK, NextInLine
<1>5. QED
  BY <1>2, <1>3, <1>4, ToSetTail

\* Fragments keep the ids of calls that were made.
LEMMA CallsKept ==
  ASSUME IInv, IInv', CallsAreNumbered, ListMoves, Sends
  PROVE  CallsAreNumbered'
<1>1. ASSUME NEW e \in Endpoint, NEW q \in FragmentQueue,
             NEW item \in ToSet(scheduled[e][q])
      PROVE  item.packetId \in Nat /\ item.packetId < packetIdTracker'[e]
  <2>1. q \in Queue
    BY FragmentQueues
  <2>2. item \in Scheduled
    BY <2>1, ToSetType DEF IInv, TypeOK, ProtocolTypeOK
  <2>3. item.packetId \in Nat
    BY <2>2 DEF Scheduled, PacketId
  <2>4. item.packetId < packetIdTracker[e]
    BY DEF CallsAreNumbered
  <2>5. QED
    BY <2>3, <2>4, EachListMoves
<1>2. ASSUME NEW p \in network', p.kind = "Fragment"
      PROVE  p.packetId < packetIdTracker'[p.src]
  <2>1. p.src \in Endpoint /\ p.packetId \in Nat
    BY PacketFields DEF IInv, TypeOK, ProtocolTypeOK
  <2>2. CASE p \in network
    <3>1. p.packetId < packetIdTracker[p.src]
      BY <1>2, <2>2 DEF CallsAreNumbered
    <3>2. QED
      BY <2>1, <3>1, EachListMoves
  <2>3. CASE p \notin network
    <3>1. PICK q \in FragmentQueue :
            /\ p = Created(p.src, q, Head(scheduled[p.src][q]))
            /\ Head(scheduled[p.src][q]) \in ToSet(scheduled[p.src][q])
      BY <1>2, <2>1, <2>3, NewFragment
    <3>2. p.packetId = Head(scheduled[p.src][q]).packetId
      <4>1. Created(p.src, q, Head(scheduled[p.src][q])).packetId
                 = Head(scheduled[p.src][q]).packetId
        BY DEF Created, IntoPacket
      <4>2. QED
        BY <3>1, <4>1
    <3>3. QED
      BY <1>1, <2>1, <3>1, <3>2
  <2>4. QED
    BY <2>2, <2>3
<1>3. ASSUME NEW e \in Endpoint, NEW q \in FragmentQueue,
             NEW item \in ToSet(scheduled'[e][q])
      PROVE  item.packetId < packetIdTracker'[e]
  <2>1. q \in Queue /\ ListMove(e, q) /\ packetIdTracker[e] \in Nat
    BY FragmentQueues, EachListMoves
  <2>2. CASE item \in ToSet(scheduled[e][q])
    BY <1>1, <2>2
  <2>3. CASE /\ item.packetId = packetIdTracker[e]
             /\ packetIdTracker'[e] = packetIdTracker[e] + 1
    BY <2>1, <2>3
  <2>4. QED
    BY <2>1, <2>2, <2>3, ItemsBefore
<1>4. QED
  BY <1>2, <1>3 DEF CallsAreNumbered

\* A call fills one list, and no call has an id twice.
LEMMA OneListKept ==
  ASSUME IInv, IInv', CallsAreNumbered, OneListPerCall, ListMoves
  PROVE  OneListPerCall'
<1> SUFFICES ASSUME NEW e \in Endpoint, NEW q \in FragmentQueue, NEW l \in FragmentQueue,
                    NEW x \in ToSet(scheduled'[e][q]), NEW y \in ToSet(scheduled'[e][l]),
                    x.packetId = y.packetId, q # l
             PROVE  FALSE
  BY DEF OneListPerCall
<1>1. /\ q \in Queue /\ l \in Queue /\ packetIdTracker[e] \in Nat
      /\ ListMove(e, q) /\ ListMove(e, l)
  BY FragmentQueues, EachListMoves
<1>2. ASSUME NEW k \in FragmentQueue, NEW item \in ToSet(scheduled[e][k])
      PROVE  item.packetId # packetIdTracker[e]
  <2>1. item.packetId < packetIdTracker[e]
    BY DEF CallsAreNumbered
  <2>2. QED
    BY <1>1, <2>1
<1>3. CASE x \in ToSet(scheduled[e][q]) /\ y \in ToSet(scheduled[e][l])
  BY <1>3 DEF OneListPerCall
<1>4. CASE /\ x.packetId = packetIdTracker[e]
           /\ \A k \in Queue : k # q => scheduled'[e][k] = scheduled[e][k]
  BY <1>1, <1>2, <1>4
<1>5. CASE /\ y.packetId = packetIdTracker[e]
           /\ \A k \in Queue : k # l => scheduled'[e][k] = scheduled[e][k]
  BY <1>1, <1>2, <1>5
<1>6. QED
  BY <1>1, <1>3, <1>4, <1>5, ItemsBefore

-----------------------------------------------------------------------------
(***************************************************************************)
(* The sequence of what is still queued.                                   *)
(***************************************************************************)

\* A fragment whose group is still queued is not below its peer's sequence, so
\* it is the group's turn.
LEMMA QueuedIsDue ==
  ASSUME IInv, SentToConnected, SequencesAreFree, QueuedPartsShare,
         NEW p \in network, p.kind = "Fragment", phase[p.src] \notin Stopped,
         NEW q \in FragmentQueue, NEW item \in ToSet(scheduled[p.src][q]),
         item.id = p.id, item.packetId = p.packetId
  PROVE  /\ p.sequence = connected[p.src][p.id].sequence
         /\ Due(p.src, p.id, p.packetId)
<1>1. /\ p.src \in Endpoint /\ p.sequence \in Nat
  BY PacketFields, WidthAssumption DEF IInv, TypeOK, ProtocolTypeOK, Sequence
<1>2. p.sequence = connected[p.src][p.id].sequence
  BY DEF QueuedPartsShare
<1>3. item \in Scheduled
  <2>1. scheduled[p.src][q] \in Seq(Scheduled)
    BY <1>1, FragmentQueues DEF IInv, TypeOK, ProtocolTypeOK
  <2>2. QED
    BY <2>1, ToSetType
<1>4. connected[p.src][p.id] # NoPeer /\ connected[p.src][p.id].address = p.dst
  BY DEF SentToConnected, SentKind
<1>5. p.id \in ConnectedIds(p.src)
  BY <1>3, <1>4 DEF Scheduled, ConnectedIds
<1>6. ~Below(p, connected[p.src][p.id])
  BY <1>1, <1>2, <1>4 DEF Below
<1>7. Fits(p.src, p)
  BY DEF SequencesAreFree
<1>8. QED
  BY <1>2, <1>5, <1>6, <1>7 DEF Fits

\* What drains leaves the sequence of a peer that a queued part of the group it
\* drains is for.
LEMMA DrainLeavesPeer ==
  ASSUME IInv, LastPartsEnd, OneListPerCall,
         NEW e \in Endpoint, Drains(e), phase'[e] \notin Stopped,
         NEW q \in FragmentQueue, NEW x \in ToSet(scheduled'[e][q]),
         x \in ToSet(scheduled[e][q]),
         \A l \in Queue :
            NextInLine(e, l) /\ Head(scheduled[e][l]).id = x.id =>
               l \in FragmentQueue /\ Head(scheduled[e][l]).packetId = x.packetId
  PROVE  connected'[e][x.id] = connected[e][x.id]
<1>1. PICK l \in Queue :
        LET item == Head(scheduled[e][l])
            m == Created(e, l, item)
        IN  /\ NextInLine(e, l)
            /\ scheduled'[e] = [scheduled[e] EXCEPT ![l] = Tail(@)]
            /\ connected'[e] = IF EndsGroup(m)
                                 THEN [connected[e] EXCEPT ![m.id] = Advanced(@)]
                                 ELSE connected[e]
  BY DEF Drains
<1>2. PICK item : item = Head(scheduled[e][l])
  OBVIOUS
<1>3. PICK m : m = Created(e, l, item)
  OBVIOUS
<1>4. /\ m.kind = DrainOrder[l].kind /\ m.id = item.id
      /\ m.index = item.index /\ m.total = item.total
  BY <1>3 DEF Created, IntoPacket
<1>5. /\ NextInLine(e, l)
      /\ scheduled'[e] = [scheduled[e] EXCEPT ![l] = Tail(@)]
      /\ connected'[e] = IF EndsGroup(m)
                           THEN [connected[e] EXCEPT ![m.id] = Advanced(@)]
                           ELSE connected[e]
  BY <1>1, <1>2, <1>3
<1>6. /\ connected[e] \in [ConnectionId -> Peer \cup {NoPeer}]
      /\ scheduled[e] \in [Queue -> Seq(Scheduled)]
      /\ scheduled[e][l] \in Seq(Scheduled) /\ scheduled[e][l] # <<>>
  BY <1>5 DEF IInv, TypeOK, ProtocolTypeOK, NextInLine
<1>7. CASE item.id # x.id
  <2>1. x \in Scheduled
    BY <1>6, FragmentQueues, ToSetType
  <2>2. x.id \in ConnectionId
    BY <2>1 DEF Scheduled
  <2>3. QED
    BY <1>4, <1>5, <1>6, <1>7, <2>2
<1>8. CASE item.id = x.id
  <2>1. l \in FragmentQueue /\ item.packetId = x.packetId
    BY <1>2, <1>5, <1>8
  <2>2. item \in ToSet(scheduled[e][l])
    BY <1>2, <1>6, ToSetTail
  <2>3. q = l
    BY <2>1, <2>2 DEF OneListPerCall
  <2>4. x \in ToSet(Tail(scheduled[e][l]))
    BY <1>5, <1>6, <2>3
  <2>5. LastPartsAreLast(scheduled[e][l])
    BY <2>1 DEF LastPartsEnd
  <2>6. item.index # (item.total - 1) % FragmentModulus
    BY <1>2, <1>6, <1>8, <2>1, <2>4, <2>5, FirstGoesOn
  <2>7. ~EndsGroup(m)
    BY <1>4, <2>1, <2>6, FragmentQueues DEF EndsGroup
  <2>8. QED
    BY <1>5, <2>7
<1>9. QED
  BY <1>7, <1>8

\* No step advances the sequence of a peer that parts of a group wait for.
LEMMA QueuedKept ==
  ASSUME IInv, IInv', SentToConnected, SequencesAreFree, GroupsStayTogether,
         [Next]_vars, ListMoves, Sends
  PROVE  QueuedPartsShare'
<1> USE DEF GroupsStayTogether
<1> SUFFICES ASSUME NEW p \in network', p.kind = "Fragment", phase'[p.src] \notin Stopped,
                    NEW q \in FragmentQueue, NEW x \in ToSet(scheduled'[p.src][q]),
                    x.id = p.id, x.packetId = p.packetId
             PROVE  p.sequence = connected'[p.src][p.id].sequence
  BY DEF QueuedPartsShare
<1>1. PICK e \in Endpoint : e = p.src
  BY PacketFields DEF IInv, TypeOK, ProtocolTypeOK
<1>2. phase[e] \notin Stopped
  BY <1>1 DEF Sends, Rests, Opens, Drains, Stopped
<1>3. q \in Queue /\ ListMove(e, q) /\ packetIdTracker[e] \in Nat
  BY FragmentQueues, EachListMoves
<1>4. ASSUME x \notin ToSet(scheduled[e][q]) PROVE FALSE
  <2>1. x.packetId = packetIdTracker[e] /\ ~UNCHANGED packetIdTracker[e]
    BY <1>1, <1>3, <1>4, ItemsBefore
  <2>2. p.packetId < packetIdTracker[e]
    <3>1. CASE p \in network
      BY <1>1, <3>1 DEF CallsAreNumbered
    <3>2. CASE p \notin network
      <4>1. PICK l \in FragmentQueue :
              /\ p = Created(e, l, Head(scheduled[e][l]))
              /\ Head(scheduled[e][l]) \in ToSet(scheduled[e][l])
        BY <1>1, <3>2, NewFragment
      <4>2. p.packetId = Head(scheduled[e][l]).packetId
        BY <4>1 DEF Created, IntoPacket
      <4>3. QED
        BY <4>1, <4>2 DEF CallsAreNumbered
    <3>3. QED
      BY <3>1, <3>2
  <2>3. QED
    BY <1>3, <2>1, <2>2
<1>5. x \in ToSet(scheduled[e][q])
  BY <1>4
<1>6. ASSUME p \in network
      PROVE  /\ p.sequence = connected[e][p.id].sequence
             /\ Due(e, p.id, p.packetId)
  BY <1>1, <1>2, <1>5, <1>6, QueuedIsDue
<1>7. CASE p \in network /\ Rests(e)
  <2>1. phase[e] = "send" /\ ~ \A l \in Queue : scheduled[e][l] = <<>>
    BY <1>6, <1>7, FragmentQueues DEF Due
  <2>2. scheduled'[e] = scheduled[e]
    BY <1>7, <2>1 DEF Rests
  <2>3. connected'[e] = connected[e]
    BY <2>1, <2>2, DrainedPeersStay
  <2>4. QED
    BY <1>1, <1>6, <1>7, <2>3
<1>8. CASE p \in network /\ Opens(e)
  BY <1>1, <1>6, <1>8 DEF Opens
<1>9. CASE p \in network /\ Drains(e)
  <2>1. \A l \in Queue :
          NextInLine(e, l) /\ Head(scheduled[e][l]).id = x.id =>
             l \in FragmentQueue /\ Head(scheduled[e][l]).packetId = x.packetId
    BY <1>6, <1>9, DueIsNext
  <2>2. connected'[e][x.id] = connected[e][x.id]
    BY <1>1, <1>5, <1>9, <2>1, DrainLeavesPeer
  <2>3. QED
    BY <1>1, <1>6, <1>9, <2>2
<1>10. CASE p \notin network
  <2>1. Drains(e)
    BY <1>1, <1>10 DEF Sends, Rests, Opens
  <2>2. PICK l \in FragmentQueue :
          /\ NextInLine(e, l)
          /\ p = Created(e, l, Head(scheduled[e][l]))
    BY <1>1, <1>10, NewFragment
  <2>3. /\ p.id = Head(scheduled[e][l]).id
        /\ p.packetId = Head(scheduled[e][l]).packetId
        /\ p.sequence = connected[e][p.id].sequence
    BY <2>2 DEF Created, IntoPacket
  <2>4. \A k \in Queue :
          NextInLine(e, k) /\ Head(scheduled[e][k]).id = x.id =>
             k \in FragmentQueue /\ Head(scheduled[e][k]).packetId = x.packetId
    <3> SUFFICES ASSUME NEW k \in Queue, NextInLine(e, k) PROVE k = l
      BY <2>2, <2>3
    <3>1. l \in Queue /\ k \in Nat /\ l \in Nat
      BY FragmentQueues
    <3>2. ~(k < l) /\ ~(l < k)
      <4>1. k < l => k \in 1 .. l - 1
        BY <3>1 DEF Queue
      <4>2. l < k => l \in 1 .. k - 1
        BY <3>1 DEF Queue
      <4>3. QED
        BY <2>2, <4>1, <4>2 DEF NextInLine
    <3>3. QED
      BY <3>1, <3>2
  <2>5. connected'[e][x.id] = connected[e][x.id]
    BY <1>1, <1>5, <2>1, <2>4, DrainLeavesPeer
  <2>6. QED
    BY <1>1, <2>3, <2>5
<1>11. QED
  BY <1>7, <1>8, <1>9, <1>10 DEF Sends

\* A part of a group goes out under the sequence of those that are gone.
LEMMA SharesKept ==
  ASSUME IInv, SentToConnected, QueuedPartsShare, GroupSharesSequence, Moves, Sends
  PROVE  GroupSharesSequence'
<1>1. ASSUME NEW p \in network', NEW q \in network, p \notin network,
             p.kind = "Fragment", q.kind = "Fragment",
             p.src = q.src, p.dst = q.dst, p.packetId = q.packetId
      PROVE  p.sequence = q.sequence
  <2>1. PICK e \in Endpoint : e = q.src
    BY PacketFields DEF IInv, TypeOK, ProtocolTypeOK
  <2>2. PICK l \in FragmentQueue :
          /\ p = Created(e, l, Head(scheduled[e][l]))
          /\ Head(scheduled[e][l]) \in ToSet(scheduled[e][l])
    BY <1>1, <2>1, NewFragment
  <2>3. /\ p.id = Head(scheduled[e][l]).id
        /\ p.packetId = Head(scheduled[e][l]).packetId
        /\ p.sequence = connected[e][p.id].sequence
    BY <2>2 DEF Created, IntoPacket
  <2>4. phase[e] = "send" /\ phase[e] \notin Stopped
    BY <1>1, <2>1 DEF Sends, Rests, Opens, Drains, Stopped
  <2>5. NewPacket(p)
    BY <1>1 DEF Moves, NetworkMoves
  <2>6. q.id \in ConnectionId
    <3>1. q \in Packet
      BY DEF IInv, TypeOK, ProtocolTypeOK
    <3>2. q.id \in 0 .. ConnectionIdLimit /\ q.id # 0
      BY <1>1, <3>1 DEF Packet
    <3>3. QED
      BY <3>2, WidthAssumption DEF ConnectionId
  <2>7. connected[e][q.id] # NoPeer /\ connected[e][q.id].address = q.dst
    BY <1>1, <2>1 DEF SentToConnected, SentKind
  <2>8. p.id = q.id
    BY <1>1, <2>1, <2>5, <2>6, <2>7, NewPacketTo DEF ConnectedIds
  <2>9. q.sequence = connected[e][q.id].sequence
    BY <1>1, <2>1, <2>2, <2>3, <2>4, <2>8 DEF QueuedPartsShare
  <2>10. QED
    BY <2>3, <2>8, <2>9
<1>2. ASSUME NEW p \in network', NEW q \in network', p \notin network, q \notin network,
             p.src = q.src
      PROVE  p = q
  <2>1. p.src \in Endpoint
    BY <1>2 DEF Moves, NetworkMoves, NewPacket, Endpoint
  <2>2. Opens(p.src) \/ Drains(p.src)
    BY <1>2, <2>1 DEF Sends, Rests
  <2>3. \E m : network' = network \cup {m}
    BY <2>2 DEF Opens, Drains
  <2>4. QED
    BY <1>2, <2>3
<1>3. QED
  BY <1>1, <1>2 DEF GroupSharesSequence

-----------------------------------------------------------------------------
(***************************************************************************)
(* The theorems.                                                           *)
(***************************************************************************)

\* Nothing is sent or scheduled at the start.
LEMMA GroupInit == Init => GroupInv
<1> SUFFICES ASSUME Init PROVE GroupInv
  OBVIOUS
<1>1. network = {} /\ \A e \in Endpoint, q \in Queue : scheduled[e][q] = <<>>
  BY DEF Init, ProtocolInit
<1>2. \A e \in Endpoint, q \in FragmentQueue :
        scheduled[e][q] = <<>> /\ ToSet(scheduled[e][q]) = {}
  BY <1>1, FragmentQueues, ToSetEmpty
<1>3. LastPartsEnd
  <2>1. LastPartsAreLast(<<>>)
    BY DEF LastPartsAreLast
  <2>2. QED
    BY <1>2, <2>1 DEF LastPartsEnd
<1>4. CallsAreNumbered /\ OneListPerCall /\ QueuedPartsShare /\ GroupSharesSequence
  BY <1>1, <1>2
  DEF CallsAreNumbered, OneListPerCall, QueuedPartsShare, GroupSharesSequence
<1>5. QED
  BY <1>3, <1>4, SequenceInit DEF GroupInv, GroupsStayTogether

\* No step parts what is queued from what is gone, if a byte counts the chunks.
LEMMA GroupNext ==
  ASSUME ChunksFit
  PROVE  GroupInv /\ [Next]_vars => GroupInv'
<1> SUFFICES ASSUME GroupInv, [Next]_vars PROVE GroupInv'
  OBVIOUS
<1>1. /\ SequenceInv /\ IInv /\ TrackerInv /\ SentToConnected
      /\ SequencesAreFree /\ GroupsStayTogether /\ GroupSharesSequence
      /\ LastPartsEnd /\ CallsAreNumbered /\ OneListPerCall /\ QueuedPartsShare
  BY DEF GroupInv, SequenceInv, SequencesFit, TrackerInv, GroupsStayTogether
<1>2. SequenceInv' /\ IInv'
  BY <1>1, SequenceNext DEF SequenceInv, TrackerInv
<1>3. Moves /\ Sends /\ ListMoves
  BY <1>1, NextMoves, NextSends, NextListMoves
<1>4. LastPartsEnd' /\ CallsAreNumbered' /\ OneListPerCall'
  BY <1>1, <1>2, <1>3, LastPartsKept, CallsKept, OneListKept
<1>5. QueuedPartsShare'
  BY <1>1, <1>2, <1>3, QueuedKept
<1>6. GroupSharesSequence'
  BY <1>1, <1>3, SharesKept
<1>7. QED
  BY <1>2, <1>4, <1>5, <1>6 DEF GroupInv, GroupsStayTogether

(***************************************************************************)
(* In every reachable state a peer's sequence waits for the parts of a     *)
(* group that poll has begun to send, for payloads of no more chunks than  *)
(* the u8 of Fragment::new counts.                                         *)
(***************************************************************************)
THEOREM GroupsInductive ==
  ASSUME ChunksFit
  PROVE  Spec => []GroupInv
BY GroupInit, GroupNext, PTL DEF Spec

\* What is left of a group is queued with its end last, and keeps the sequence.
THEOREM GroupsStayHolds ==
  ASSUME ChunksFit
  PROVE  Spec => []GroupsStayTogether
<1>1. GroupInv => GroupsStayTogether
  BY DEF GroupInv
<1>2. QED
  BY GroupsInductive, <1>1, PTL

(***************************************************************************)
(* "The sequence tracker for a Peer only increases after the last fragment *)
(* is sent out": the fragments of one payload share their sequence, sent   *)
(* for the first time or again, if the payload has no more chunks than a   *)
(* byte counts.                                                            *)
(***************************************************************************)
THEOREM GroupSharesHolds ==
  ASSUME ChunksFit
  PROVE  Spec => []GroupSharesSequence
<1>1. GroupInv => GroupSharesSequence
  BY DEF GroupInv
<1>2. QED
  BY GroupsInductive, <1>1, PTL

-----------------------------------------------------------------------------
(***************************************************************************)
(* What is handed to the application was sent by the peer it is said to be *)
(* from, and is of one payload: DeliveryInv is inductive.                  *)
(*                                                                         *)
(* A packet acks the peer that sent it (AcksItsSender), so the line it     *)
(* joins holds that peer's fragments only; they have the sequence of the   *)
(* line, and a sequence identifies a payload (SequenceIdentifiesPacket).   *)
(***************************************************************************)

\* e knows the sender of p by the id p claims.
FromPeer(e, p) ==
  /\ connected[e][p.id] # NoPeer
  /\ connected[e][p.id].address = p.src

\* The peer known by this id sent this part.
PartOfPeer(e, id, part) ==
  \E p \in network :
     /\ p.src = connected[e][id].address
     /\ p.dst = e
     /\ p.id = id
     /\ p.packetId = part.packetId
     /\ p.index = part.index

EventTrue(e, event) ==
  event.kind = "DataTransfer" =>
     /\ connected[e][event.id] # NoPeer
     /\ \A k \in DOMAIN event.parts :
          /\ event.parts[k].packetId = event.parts[1].packetId
          /\ PartOfPeer(e, event.id, event.parts[k])

\* A line grows by a fragment its peer sent, or goes.
LineMoves ==
  \A e \in Endpoint, id \in ConnectionId, n \in Sequence :
     \/ reassembler'[e][id][n] \in {reassembler[e][id][n], <<>>}
     \/ \E p \in network, now \in Nat :
          /\ p.kind = "Fragment" /\ p.dst = e /\ p.id = id /\ p.sequence = n
          /\ FromPeer(e, p)'
          /\ reassembler'[e][id][n] =
               Append(reassembler[e][id][n],
                      [packetId |-> p.packetId, index |-> p.index, time |-> now])

\* An event that tells the truth is pushed, or all are drained.
ApiMoves ==
  \A e \in Endpoint :
     \/ api'[e] \in {api[e], <<>>}
     \/ \E event \in Event : /\ EventTrue(e, event)'
                             /\ api'[e] = Append(api[e], event)

-----------------------------------------------------------------------------
(***************************************************************************)
(* What moves keep.                                                        *)
(***************************************************************************)

\* The events are what EventsComeFromPeer says they are.
LEMMA EventsAreTrue ==
  EventsComeFromPeer <=> \A e \in Endpoint : \A i \in DOMAIN api[e] : EventTrue(e, api[e][i])
BY DEF EventsComeFromPeer, EventTrue, PartOfPeer

\* What a peer sent it stays known to have sent.
LEMMA PartKept ==
  ASSUME ConnectedGrows, NetworkMoves, NEW e \in Endpoint, NEW id \in ConnectionId,
         connected[e][id] # NoPeer, NEW part, PartOfPeer(e, id, part)
  PROVE  PartOfPeer(e, id, part)'
BY DEF PartOfPeer, ConnectedGrows, NetworkMoves

\* An event that tells the truth keeps doing so.
LEMMA EventKept ==
  ASSUME ConnectedGrows, NetworkMoves, NEW e \in Endpoint, NEW event \in Event,
         EventTrue(e, event)
  PROVE  EventTrue(e, event)'
<1> SUFFICES ASSUME event.kind = "DataTransfer"
             PROVE  /\ connected'[e][event.id] # NoPeer
                    /\ \A k \in DOMAIN event.parts :
                         /\ event.parts[k].packetId = event.parts[1].packetId
                         /\ PartOfPeer(e, event.id, event.parts[k])'
  BY DEF EventTrue
<1>1. event.id \in ConnectionId
  BY DEF Event
<1>2. /\ connected[e][event.id] # NoPeer
      /\ \A k \in DOMAIN event.parts :
           /\ event.parts[k].packetId = event.parts[1].packetId
           /\ PartOfPeer(e, event.id, event.parts[k])
  BY DEF EventTrue
<1>3. QED
  BY <1>1, <1>2, PartKept DEF ConnectedGrows

\* The events of api stay true, and what is pushed is.
LEMMA EventsKept ==
  ASSUME IInv, EventsComeFromPeer, ConnectedGrows, NetworkMoves, ApiMoves
  PROVE  EventsComeFromPeer'
<1> SUFFICES ASSUME NEW e \in Endpoint, NEW i \in DOMAIN api'[e],
                    NEW event, event = api'[e][i]
             PROVE  EventTrue(e, event)'
  BY DEF EventsComeFromPeer, EventTrue, PartOfPeer
<1>1. api[e] \in Seq(Event)
  BY DEF IInv, TypeOK, ProtocolTypeOK
<1>2. \A j \in DOMAIN api[e] : api[e][j] \in Event /\ EventTrue(e, api[e][j])
  BY <1>1, EventsAreTrue
<1>3. ASSUME event \in Event, EventTrue(e, event) PROVE EventTrue(e, event)'
  BY <1>3, EventKept
<1>4. CASE api'[e] = api[e]
  <2>1. event \in Event /\ EventTrue(e, event)
    BY <1>2, <1>4
  <2>2. QED
    BY <1>3, <2>1
<1>5. CASE api'[e] = <<>>
  BY <1>5
<1>6. ASSUME NEW pushed \in Event, EventTrue(e, pushed)',
             api'[e] = Append(api[e], pushed)
      PROVE  EventTrue(e, event)'
  <2>1. (i \in DOMAIN api[e] /\ event = api[e][i]) \/ event = pushed
    BY <1>1, <1>6
  <2>2. CASE i \in DOMAIN api[e] /\ event = api[e][i]
    <3>1. event \in Event /\ EventTrue(e, event)
      BY <1>2, <2>2
    <3>2. QED
      BY <1>3, <3>1
  <2>3. CASE event = pushed
    BY <1>6, <2>3
  <2>4. QED
    BY <2>1, <2>2, <2>3
<1>7. QED
  BY <1>4, <1>5, <1>6 DEF ApiMoves

\* The lines stay their peers'.
LEMMA LinesKept ==
  ASSUME IInv, LinesAreOfPeer, ConnectedGrows, NetworkMoves, LineMoves
  PROVE  LinesAreOfPeer'
<1> SUFFICES ASSUME NEW e \in Endpoint, NEW id \in ConnectionId, NEW n \in Sequence,
                    NEW k \in DOMAIN reassembler'[e][id][n]
             PROVE  /\ connected'[e][id] # NoPeer
                    /\ \E p \in network' :
                         /\ p.kind = "Fragment"
                         /\ p.src = connected'[e][id].address
                         /\ p.dst = e
                         /\ p.id = id
                         /\ p.sequence = n
                         /\ p.packetId = reassembler'[e][id][n][k].packetId
                         /\ p.index = reassembler'[e][id][n][k].index
  BY DEF LinesAreOfPeer
<1> DEFINE line == reassembler[e][id][n]
<1>1. line \in Seq(Received)
  BY DEF IInv, TypeOK, ProtocolTypeOK
<1>2. CASE k \in DOMAIN line /\ reassembler'[e][id][n][k] = line[k]
  BY <1>2 DEF LinesAreOfPeer, ConnectedGrows, NetworkMoves
<1>3. CASE reassembler'[e][id][n] \in {line, <<>>}
  BY <1>2, <1>3
<1>4. ASSUME NEW p \in network, NEW now \in Nat,
             p.kind = "Fragment", p.dst = e, p.id = id, p.sequence = n,
             FromPeer(e, p)',
             reassembler'[e][id][n] =
               Append(line, [packetId |-> p.packetId, index |-> p.index, time |-> now])
      PROVE  /\ connected'[e][id] # NoPeer
             /\ \E q \in network' :
                  /\ q.kind = "Fragment"
                  /\ q.src = connected'[e][id].address
                  /\ q.dst = e
                  /\ q.id = id
                  /\ q.sequence = n
                  /\ q.packetId = reassembler'[e][id][n][k].packetId
                  /\ q.index = reassembler'[e][id][n][k].index
  <2> DEFINE new == [packetId |-> p.packetId, index |-> p.index, time |-> now]
  <2>1. \/ k \in DOMAIN line /\ reassembler'[e][id][n][k] = line[k]
        \/ reassembler'[e][id][n][k] = new
    BY <1>1, <1>4
  <2>2. CASE reassembler'[e][id][n][k] = new
    <3>1. /\ reassembler'[e][id][n][k].packetId = p.packetId
          /\ reassembler'[e][id][n][k].index = p.index
      BY <2>2
    <3>2. p \in network'
      BY DEF NetworkMoves
    <3>3. connected'[e][id] # NoPeer /\ p.src = connected'[e][id].address
      BY <1>4 DEF FromPeer
    <3>4. QED
      BY <1>4, <3>1, <3>2, <3>3
  <2>3. QED
    BY <1>2, <2>1, <2>2
<1>5. \/ reassembler'[e][id][n] \in {line, <<>>}
      \/ \E p \in network, now \in Nat :
           /\ p.kind = "Fragment" /\ p.dst = e /\ p.id = id /\ p.sequence = n
           /\ FromPeer(e, p)'
           /\ reassembler'[e][id][n] =
                Append(line, [packetId |-> p.packetId, index |-> p.index, time |-> now])
  BY DEF LineMoves
<1>6. QED
  BY <1>3, <1>4, <1>5

-----------------------------------------------------------------------------
(***************************************************************************)
(* Every receipt is such a move.                                           *)
(***************************************************************************)

\* Once a packet has acked a peer, that peer is who sent it.
LEMMA AckedIsSender ==
  ASSUME IInv, SentToConnected, NEW e \in Endpoint, NEW p \in network,
         p.kind # "ConnectionRequest", p.dst = e,
         NEW old \in Peer, AckedBy(e, p, old),
         connected'[e][p.id] = Acked(old, p)
  PROVE  FromPeer(e, p)'
<1>1. p \in Packet
  BY DEF IInv, TypeOK, ProtocolTypeOK
<1>2. Acked(old, p) # NoPeer /\ Acked(old, p).address = old.address
  BY <1>1, AckedSame
<1>3. old.address = p.src
  BY AcksItsSender
<1>4. QED
  BY <1>2, <1>3 DEF FromPeer

\* A step that touches neither lines nor events moves them.
LEMMA StillDelivers ==
  /\ UNCHANGED reassembler => LineMoves
  /\ UNCHANGED api => ApiMoves
BY DEF LineMoves, ApiMoves

\* An event that is true is pushed.
LEMMA PushDelivers ==
  ASSUME IInv, NEW e \in Endpoint, NEW event \in Event, EventTrue(e, event)',
         Push(e, event)
  PROVE  ApiMoves
BY DEF Push, ApiMoves, IInv, TypeOK, ProtocolTypeOK

\* A failure hands no payload over.
LEMMA FailDelivers ==
  ASSUME IInv, NEW e \in Endpoint, NEW p \in network, NEW error \in Error,
         Push(e, Fail(error, p))
  PROVE  ApiMoves
<1>1. Fail(error, p) \in Event
  BY FailType DEF IInv, TypeOK, ProtocolTypeOK
<1>2. EventTrue(e, Fail(error, p))'
  BY DEF EventTrue, Fail
<1>3. QED
  BY <1>1, <1>2, PushDelivers

\* A data transfer is handed over as its sender's.
LEMMA TransferDelivers ==
  ASSUME IInv, NEW e \in Endpoint, NEW p \in network, p.kind # "ConnectionRequest",
         p.dst = e, UNCHANGED network, FromPeer(e, p)',
         Push(e, DataTransferEvent(p.id, <<PartOf(p)>>))
  PROVE  ApiMoves
<1> DEFINE event == DataTransferEvent(p.id, <<PartOf(p)>>)
<1>1. event \in Event
  BY DeliveredType DEF IInv, TypeOK, ProtocolTypeOK
<1>2. event.id = p.id /\ event.parts = <<PartOf(p)>>
  BY DEF DataTransferEvent
<1>3. PartOfPeer(e, p.id, PartOf(p))'
  BY DEF FromPeer, PartOfPeer, PartOf
<1>4. EventTrue(e, event)'
  BY <1>2, <1>3 DEF EventTrue, FromPeer
<1>5. QED
  BY <1>1, <1>4, PushDelivers

\* The parts a whole line joins are all of one payload, and of its peer.
LEMMA JoinedTrue ==
  ASSUME DeliveryInv, ConnectedGrows, UNCHANGED network,
         NEW e \in Endpoint, NEW id \in ConnectionId, NEW n \in Sequence,
         connected'[e][id] # NoPeer, NEW part, NEW parts,
         parts = JoinedParts(Append(reassembler[e][id][n], part))
  PROVE  EventTrue(e, DataTransferEvent(id, parts))'
<1>1. /\ IInv /\ LinesAreOfPeer /\ SequenceIdentifiesPacket
  BY DEF DeliveryInv, SequenceInv, TrackerInv
<1>2. PICK line \in Seq(Received) : line = reassembler[e][id][n]
  BY <1>1 DEF IInv, TypeOK, ProtocolTypeOK
<1>3. /\ DOMAIN parts = DOMAIN line
      /\ \A k \in DOMAIN line : /\ parts[k].packetId = line[k].packetId
                                 /\ parts[k].index = line[k].index
  <2>1. /\ Len(Append(line, part)) = Len(line) + 1
        /\ \A k \in 1 .. Len(line) : Append(line, part)[k] = line[k]
    BY <1>2
  <2>2. DOMAIN parts = 1 .. Len(line)
    BY <1>2, <2>1 DEF JoinedParts
  <2>3. QED
    BY <1>2, <2>1, <2>2 DEF JoinedParts
<1>4. \A k \in DOMAIN line : 1 \in DOMAIN line
  BY <1>2
<1>5. ASSUME NEW k \in DOMAIN line
      PROVE  \E q \in network :
               /\ q.kind = "Fragment"
               /\ q.src = connected'[e][id].address
               /\ q.dst = e
               /\ q.id = id
               /\ q.sequence = n
               /\ q.packetId = line[k].packetId
               /\ q.index = line[k].index
  BY <1>1, <1>2 DEF LinesAreOfPeer, ConnectedGrows
<1>6. ASSUME NEW k \in DOMAIN line, NEW l \in DOMAIN line
      PROVE  line[k].packetId = line[l].packetId
  <2>1. PICK q \in network :
          /\ q.kind = "Fragment" /\ q.src = connected'[e][id].address /\ q.dst = e
          /\ q.sequence = n /\ q.packetId = line[k].packetId
    BY <1>5
  <2>2. PICK r \in network :
          /\ r.kind = "Fragment" /\ r.src = connected'[e][id].address /\ r.dst = e
          /\ r.sequence = n /\ r.packetId = line[l].packetId
    BY <1>5
  <2>3. QED
    BY <1>1, <2>1, <2>2 DEF SequenceIdentifiesPacket
<1>7. ASSUME NEW k \in DOMAIN parts
      PROVE  /\ parts[k].packetId = parts[1].packetId
             /\ \E q \in network' :
                  /\ q.src = connected'[e][id].address
                  /\ q.dst = e
                  /\ q.id = id
                  /\ q.packetId = parts[k].packetId
                  /\ q.index = parts[k].index
  <2>1. parts[k].packetId = parts[1].packetId
    BY <1>3, <1>4, <1>6
  <2>2. QED
    BY <1>3, <1>5, <2>1
<1>8. QED
  BY <1>7 DEF EventTrue, PartOfPeer, DataTransferEvent

\* A fragment joins its sender's line, and a line that is whole is one payload.
LEMMA ReassembleDelivers ==
  ASSUME DeliveryInv, ConnectedGrows, UNCHANGED network,
         NEW e \in Endpoint, NEW p \in network, p.kind = "Fragment", p.dst = e,
         FromPeer(e, p)', Reassemble(e, p)
  PROVE  LineMoves /\ ApiMoves
<1>1. /\ IInv /\ p \in Packet /\ p.kind # "ConnectionRequest" /\ ProtocolTypeOK
  BY DEF DeliveryInv, SequenceInv, TrackerInv, IInv, TypeOK, ProtocolTypeOK
<1>2. PICK part : part = [packetId |-> p.packetId, index |-> p.index, time |-> clock[e]]
  OBVIOUS
<1>3. PICK parts : parts = JoinedParts(Append(reassembler[e][p.id][p.sequence], part))
  OBVIOUS
<1>4. /\ p.id \in ConnectionId /\ p.sequence \in Sequence /\ clock[e] \in Nat
  BY <1>1, PacketFields DEF ProtocolTypeOK
<1>5. \/ Push(e, DataTransferEvent(p.id, parts))
      \/ UNCHANGED api
  BY <1>2, <1>3 DEF Reassemble
<1>6. LineMoves
  <2>1. /\ reassembler'[e][p.id][p.sequence] \in
             {<<>>, Append(reassembler[e][p.id][p.sequence], part)}
        /\ \A x \in Endpoint, id \in ConnectionId, n \in Sequence :
             x # e \/ id # p.id \/ n # p.sequence =>
                reassembler'[x][id][n] = reassembler[x][id][n]
    BY <1>1, <1>2, <1>4 DEF Reassemble, ProtocolTypeOK
  <2> SUFFICES ASSUME NEW x \in Endpoint, NEW id \in ConnectionId, NEW n \in Sequence
               PROVE  \/ reassembler'[x][id][n] \in {reassembler[x][id][n], <<>>}
                      \/ \E q \in network, now \in Nat :
                           /\ q.kind = "Fragment" /\ q.dst = x /\ q.id = id
                           /\ q.sequence = n
                           /\ FromPeer(x, q)'
                           /\ reassembler'[x][id][n] =
                                Append(reassembler[x][id][n],
                                       [packetId |-> q.packetId, index |-> q.index,
                                        time |-> now])
    BY DEF LineMoves
  <2>2. CASE x # e \/ id # p.id \/ n # p.sequence
    BY <2>1, <2>2
  <2>3. CASE x = e /\ id = p.id /\ n = p.sequence
    BY <1>2, <1>4, <2>1, <2>3
  <2>4. QED
    BY <2>2, <2>3
<1>7. CASE Push(e, DataTransferEvent(p.id, parts))
  <2>1. PICK event : event = DataTransferEvent(p.id, parts)
    OBVIOUS
  <2>2. event \in Event
    <3>1. api' \in [Endpoint -> Seq(Event)] /\ api \in [Endpoint -> Seq(Event)]
      BY <1>1, ReassembleType DEF ProtocolTypeOK
    <3>2. api'[e] = Append(api[e], event)
      BY <1>7, <2>1, <3>1 DEF Push
    <3>3. event = api'[e][Len(api[e]) + 1] /\ Len(api[e]) + 1 \in DOMAIN api'[e]
      BY <3>1, <3>2
    <3>4. api'[e] \in Seq(Event)
      BY <3>1
    <3>5. QED
      BY <3>3, <3>4
  <2>3. EventTrue(e, event)'
    BY <1>3, <1>4, <2>1, JoinedTrue DEF FromPeer
  <2>4. QED
    BY <1>1, <1>6, <1>7, <2>1, <2>2, <2>3, PushDelivers
<1>8. CASE UNCHANGED api
  BY <1>6, <1>8, StillDelivers
<1>9. QED
  BY <1>5, <1>7, <1>8

\* Client::on_received, whatever arm the packet takes.
LEMMA ClientReceiveDelivers ==
  ASSUME DeliveryInv, ConnectedGrows, NEW c \in Clients, NEW p \in network,
         ClientReceive(c, p)
  PROVE  LineMoves /\ ApiMoves
<1>1. /\ IInv /\ SentToConnected /\ p \in Packet /\ c \in Endpoint
      /\ connected \in [Endpoint -> [ConnectionId -> Peer \cup {NoPeer}]]
      /\ awaiting \in [Clients -> [Endpoint -> Peer \cup {NoPeer}]]
  BY DEF DeliveryInv, SequenceInv, TrackerInv, IInv, TypeOK, ProtocolTypeOK,
         ClientTypeOK, Endpoint
<1>2. /\ p.kind \in Kind /\ p.src \in Endpoint /\ p.dst = c
      /\ p.kind # "ConnectionRequest" => p.id \in ConnectionId
      /\ UNCHANGED network
  BY <1>1, PacketFields DEF ClientReceive, Receives
<1>3. ASSUME NEW error \in Error, Refuse(c, p, error) PROVE LineMoves /\ ApiMoves
  BY <1>1, <1>3, FailDelivers, StillDelivers DEF Refuse
<1>4. ASSUME p.kind \in SentKind, connected[c][p.id] # NoPeer, AckConnected(c, p)
      PROVE  FromPeer(c, p)'
  <2>1. connected[c][p.id] \in Peer /\ p.id \in ConnectionId
    BY <1>1, <1>2, <1>4 DEF SentKind
  <2>2. connected'[c][p.id] = Acked(connected[c][p.id], p)
    BY <1>1, <1>4, <2>1 DEF AckConnected
  <2>3. AckedBy(c, p, connected[c][p.id])
    BY <1>4 DEF AckedBy
  <2>4. PICK old \in Peer : AckedBy(c, p, old) /\ connected'[c][p.id] = Acked(old, p)
    BY <2>1, <2>2, <2>3
  <2>5. QED
    BY <1>1, <1>2, <1>4, <2>4, AckedIsSender DEF SentKind
<1>5. ASSUME p.kind # "ConnectionRequest", connected[c][p.id] = NoPeer,
             awaiting[c][p.src] # NoPeer, Establish(c, p)
      PROVE  FromPeer(c, p)'
  <2>1. awaiting[c][p.src] \in Peer /\ p.id \in ConnectionId
    BY <1>1, <1>2, <1>5
  <2>2. connected'[c][p.id] = Acked(awaiting[c][p.src], p)
    BY <1>1, <1>5, <2>1 DEF Establish
  <2>3. AckedBy(c, p, awaiting[c][p.src])
    BY <1>2, <1>5 DEF AckedBy
  <2>4. PICK old \in Peer : AckedBy(c, p, old) /\ connected'[c][p.id] = Acked(old, p)
    BY <2>1, <2>2, <2>3
  <2>5. QED
    BY <1>1, <1>2, <1>5, <2>4, AckedIsSender
<1>6. CASE p.kind = "ConnectionRequest"
  BY <1>3, <1>6 DEF ClientReceive, ClientOnReceived, Error
<1>7. CASE p.kind = "ConnectionAccepted"
  <2>1. OnConnectionAccepted(c, p)
    BY <1>7 DEF ClientReceive, ClientOnReceived
  <2>2. QED
    BY <1>3, <2>1, StillDelivers DEF OnConnectionAccepted, Error
<1>8. CASE p.kind = "DataTransfer"
  <2>1. OnDataTransfer(c, p)
    BY <1>8 DEF ClientReceive, ClientOnReceived
  <2>2. LineMoves
    BY <2>1, StillDelivers DEF OnDataTransfer
  <2>3. CASE UNCHANGED api
    BY <2>2, <2>3, StillDelivers
  <2>4. CASE api' # api
    <3>1. /\ connected[c][p.id] = NoPeer /\ awaiting[c][p.src] # NoPeer
          /\ Establish(c, p) /\ Push(c, DataTransferEvent(p.id, <<PartOf(p)>>))
      BY <2>1, <2>4 DEF OnDataTransfer
    <3>2. QED
      BY <1>1, <1>2, <1>5, <1>8, <2>2, <3>1, TransferDelivers
  <2>5. QED
    BY <2>3, <2>4
<1>9. CASE p.kind = "Fragment"
  <2>1. OnFragment(c, p)
    BY <1>9 DEF ClientReceive, ClientOnReceived
  <2>2. CASE connected[c][p.id] = NoPeer
    BY <1>3, <2>1, <2>2 DEF OnFragment, Error
  <2>3. CASE connected[c][p.id] # NoPeer
    <3>1. AckConnected(c, p) /\ Reassemble(c, p)
      BY <2>1, <2>3 DEF OnFragment
    <3>2. QED
      BY <1>1, <1>2, <1>4, <1>9, <2>3, <3>1, ReassembleDelivers DEF SentKind
  <2>4. QED
    BY <2>2, <2>3
<1>10. CASE p.kind = "Heartbeat"
  <2>1. OnHeartbeat(c, p)
    BY <1>10 DEF ClientReceive, ClientOnReceived
  <2>2. QED
    BY <2>1, StillDelivers DEF OnHeartbeat
<1>11. QED
  BY <1>2, <1>6, <1>7, <1>8, <1>9, <1>10 DEF Kind

\* Server::on_received, whatever arm the packet takes.
LEMMA ServerReceiveDelivers ==
  ASSUME DeliveryInv, ConnectedGrows, NEW s \in Servers, NEW p \in network,
         ServerReceive(s, p)
  PROVE  LineMoves /\ ApiMoves
<1>1. /\ IInv /\ SentToConnected /\ p \in Packet /\ s \in Endpoint /\ s \notin Clients
      /\ connected \in [Endpoint -> [ConnectionId -> Peer \cup {NoPeer}]]
      /\ awaitingAck \in [Servers -> [ConnectionId -> Peer \cup {NoPeer}]]
  BY EndpointAssumption
  DEF DeliveryInv, SequenceInv, TrackerInv, IInv, TypeOK, ProtocolTypeOK,
      ServerTypeOK, Endpoint
<1>2. /\ p.kind \in Kind /\ p.dst = s
      /\ p.kind # "ConnectionRequest" => p.id \in ConnectionId
      /\ UNCHANGED network
  BY <1>1, PacketFields DEF ServerReceive, Receives
<1>3. ASSUME NEW error \in Error, Refused(s, p, error) PROVE LineMoves /\ ApiMoves
  BY <1>1, <1>3, FailDelivers, StillDelivers DEF Refused
<1>4. ASSUME p.kind # "ConnectionRequest", KnownId(s, p.id), AckPeer(s, p)
      PROVE  FromPeer(s, p)'
  <2> DEFINE peer == IF connected[s][p.id] # NoPeer THEN connected[s][p.id]
                     ELSE awaitingAck[s][p.id]
  <2>1. peer \in Peer /\ p.id \in ConnectionId
    BY <1>1, <1>2, <1>4 DEF KnownId
  <2>2. connected'[s][p.id] = Acked(peer, p)
    BY <1>1, <1>4, <2>1 DEF AckPeer
  <2>3. AckedBy(s, p, peer)
    BY <1>1 DEF AckedBy
  <2>4. PICK old \in Peer : AckedBy(s, p, old) /\ connected'[s][p.id] = Acked(old, p)
    BY <2>1, <2>2, <2>3
  <2>5. QED
    BY <1>1, <1>2, <1>4, <2>4, AckedIsSender
<1>5. CASE p.kind = "ConnectionRequest"
  <2>1. OnConnectionRequest(s, p)
    BY <1>5 DEF ServerReceive, ServerOnReceived
  <2>2. QED
    BY <1>3, <2>1, StillDelivers DEF OnConnectionRequest, Error
<1>6. CASE p.kind = "ConnectionAccepted"
  BY <1>3, <1>6 DEF ServerReceive, ServerOnReceived, Error
<1>7. CASE p.kind = "DataTransfer"
  <2>1. ServerOnDataTransfer(s, p)
    BY <1>7 DEF ServerReceive, ServerOnReceived
  <2>2. CASE KnownId(s, p.id)
    BY <1>1, <1>2, <1>4, <1>7, <2>1, <2>2, TransferDelivers, StillDelivers
    DEF ServerOnDataTransfer
  <2>3. CASE ~KnownId(s, p.id)
    BY <1>3, <2>1, <2>3 DEF ServerOnDataTransfer, Error
  <2>4. QED
    BY <2>2, <2>3
<1>8. CASE p.kind = "Fragment"
  <2>1. ServerOnFragment(s, p)
    BY <1>8 DEF ServerReceive, ServerOnReceived
  <2>2. CASE KnownId(s, p.id)
    BY <1>1, <1>2, <1>4, <1>8, <2>1, <2>2, ReassembleDelivers DEF ServerOnFragment
  <2>3. CASE ~KnownId(s, p.id)
    BY <1>3, <2>1, <2>3 DEF ServerOnFragment, Error
  <2>4. QED
    BY <2>2, <2>3
<1>9. CASE p.kind = "Heartbeat"
  <2>1. ServerOnHeartbeat(s, p)
    BY <1>9 DEF ServerReceive, ServerOnReceived
  <2>2. QED
    BY <2>1, StillDelivers DEF ServerOnHeartbeat
<1>10. QED
  BY <1>2, <1>5, <1>6, <1>7, <1>8, <1>9 DEF Kind

\* A poll drains the events, and a server's drops lines.
LEMMA PollDelivers ==
  ASSUME IInv, NEW e \in Endpoint,
         \/ e \in Clients /\ ClientPoll(e)
         \/ e \in Servers /\ ServerPoll(e)
  PROVE  LineMoves /\ ApiMoves
<1>1. /\ reassembler \in [Endpoint -> [ConnectionId -> [Sequence -> Seq(Received)]]]
      /\ api \in [Endpoint -> Seq(Event)]
  BY DEF IInv, TypeOK, ProtocolTypeOK
<1>2. ApiMoves
  BY <1>1 DEF ClientPoll, ServerPoll, PollHandler, ApiMoves
<1>3. CASE UNCHANGED reassembler
  BY <1>2, <1>3, StillDelivers
<1>4. CASE e \in Servers /\ ServerPoll(e)
  <2>1. PICK drop \in Drops(e) :
          reassembler' = [reassembler EXCEPT ![e] =
                            [id \in ConnectionId |->
                               [n \in Sequence |->
                                  IF n = drop[id] THEN <<>> ELSE reassembler[e][id][n]]]]
    BY <1>4 DEF ServerPoll
  <2>2. QED
    BY <1>1, <1>2, <2>1 DEF LineMoves
<1>5. QED
  BY <1>3, <1>4 DEF ClientPoll

\* Every step of the system moves lines and events so.
LEMMA NextDelivers ==
  ASSUME DeliveryInv, ConnectedGrows, [Next]_vars
  PROVE  LineMoves /\ ApiMoves
<1>1. IInv
  BY DEF DeliveryInv, SequenceInv, TrackerInv
<1>2. ASSUME UNCHANGED <<reassembler, api>> PROVE LineMoves /\ ApiMoves
  BY <1>2, StillDelivers
<1>3. ASSUME NEW c \in Clients, ClientNext(c) PROVE LineMoves /\ ApiMoves
  <2>1. CASE \E p \in network : ClientReceive(c, p)
    BY <2>1, ClientReceiveDelivers
  <2>2. CASE ClientPoll(c)
    BY <1>1, <2>2, PollDelivers DEF Endpoint
  <2>3. CASE \/ (\E s \in Servers : Connect(c, s)) \/ SendConnectionRequest(c)
             \/ RetryConnectionRequest(c) \/ ClientRetryDataTransfer(c)
             \/ \E q \in Queue : ClientSend(c, q)
    BY <1>2, <2>3
    DEF Connect, SendConnectionRequest, RetryConnectionRequest,
        ClientRetryDataTransfer, ClientSend, SendScheduled, Resend, Forget
  <2>4. CASE Schedule(c) \/ Heartbeat(c) \/ Tick(c)
    BY <1>2, <2>4 DEF Schedule, Heartbeat, Tick, Enqueue
  <2>5. QED
    BY <1>3, <2>1, <2>2, <2>3, <2>4 DEF ClientNext, ClientPolls
<1>4. ASSUME NEW s \in Servers, ServerNext(s) PROVE LineMoves /\ ApiMoves
  <2>1. CASE \E p \in network : ServerReceive(s, p)
    BY <2>1, ServerReceiveDelivers
  <2>2. CASE ServerPoll(s)
    BY <1>1, <2>2, PollDelivers DEF Endpoint
  <2>3. CASE \/ RetryConnectionAccepted(s) \/ SendConnectionAccepted(s)
             \/ ServerRetryDataTransfer(s) \/ ServerRetryFragment(s)
             \/ \E q \in Queue : ServerSend(s, q)
    BY <1>2, <2>3
    DEF RetryConnectionAccepted, SendConnectionAccepted, ServerRetryDataTransfer,
        ServerRetryFragment, RetrySent, ServerSend, SendScheduled, Resend, Forget
  <2>4. CASE Schedule(s) \/ Heartbeat(s) \/ Tick(s)
    BY <1>2, <2>4 DEF Schedule, Heartbeat, Tick, Enqueue
  <2>5. QED
    BY <1>4, <2>1, <2>2, <2>3, <2>4 DEF ServerNext, ServerPolls
<1>5. CASE UNCHANGED vars
  BY <1>2, <1>5 DEF vars, protocolVars
<1>6. QED
  BY <1>3, <1>4, <1>5 DEF Next

-----------------------------------------------------------------------------
(***************************************************************************)
(* The theorems.                                                           *)
(***************************************************************************)

\* No line and no event at the start.
LEMMA DeliveryInit == Init => DeliveryInv
<1> SUFFICES ASSUME Init PROVE DeliveryInv
  OBVIOUS
<1>1. LinesAreOfPeer /\ EventsComeFromPeer
  BY DEF Init, ProtocolInit, LinesAreOfPeer, EventsComeFromPeer
<1>2. QED
  BY <1>1, SequenceInit DEF DeliveryInv

\* The fourth inductive invariant is inductive.
LEMMA DeliveryNext == DeliveryInv /\ [Next]_vars => DeliveryInv'
<1> SUFFICES ASSUME DeliveryInv, [Next]_vars PROVE DeliveryInv'
  OBVIOUS
<1>1. /\ SequenceInv /\ TrackerInv /\ IInv /\ LinesAreOfPeer /\ EventsComeFromPeer
  BY DEF DeliveryInv, SequenceInv, TrackerInv
<1>2. SequenceInv'
  BY <1>1, SequenceNext
<1>3. ConnectedGrows /\ NetworkMoves
  BY <1>1, NextMoves, MovesGrow DEF Moves
<1>4. LineMoves /\ ApiMoves
  BY <1>3, NextDelivers
<1>5. LinesAreOfPeer' /\ EventsComeFromPeer'
  BY <1>1, <1>3, <1>4, LinesKept, EventsKept
<1>6. QED
  BY <1>2, <1>5 DEF DeliveryInv

(***************************************************************************)
(* In every reachable state lines and events are of the peer whose id they *)
(* have.                                                                   *)
(***************************************************************************)
THEOREM DeliveryInductive == Spec => []DeliveryInv
BY DeliveryInit, DeliveryNext, PTL DEF Spec

(***************************************************************************)
(* A reassembler line holds what its peer sent under the line's sequence,  *)
(* whoever else claims the id.                                             *)
(***************************************************************************)
THEOREM LinesHold == Spec => []LinesAreOfPeer
<1>1. DeliveryInv => LinesAreOfPeer
  BY DEF DeliveryInv
<1>2. QED
  BY DeliveryInductive, <1>1, PTL

(***************************************************************************)
(* What the application is handed under an id was sent by the peer of that *)
(* id, and the parts of one payload are not mixed with another's.          *)
(***************************************************************************)
THEOREM EventsHold == Spec => []EventsComeFromPeer
<1>1. DeliveryInv => EventsComeFromPeer
  BY DEF DeliveryInv
<1>2. QED
  BY DeliveryInductive, <1>1, PTL

=============================================================================
