------------------------------ MODULE Protocol ------------------------------
(***************************************************************************)
(* What the two services share: Protocol<S>, its scheduler and reliability *)
(* handler, the peers it is connected to, and the AntarcNet poll loop that *)
(* drives it over a UDP socket.  Client and Server extend this module with *)
(* their own part of the handshake.                                        *)
(*                                                                         *)
(* An endpoint is single threaded: the application calls schedule and      *)
(* heartbeat between polls, and one poll runs through the phases           *)
(*                                                                         *)
(*   app -> retryData (-> retryFragment) -> send -> poll -> app            *)
(*                                                                         *)
(* one packet at a time.  A phase of Stopped is a panic: the endpoint      *)
(* takes no further step.                                                  *)
(***************************************************************************)
EXTENDS Packets

CONSTANTS
  RetryThreshold,    \* Duration::from_secs(1000)
  ReassemblyTtl,     \* Peer<Connected>::poll's one second
  OverflowChecks,    \* TRUE in a debug build: u8 arithmetic panics, not wraps
  FragmentTotals,    \* input: numbers of chunks the application's payloads have
  AppLists,          \* input: scheduler lists the application's calls fill
  MaxPacketId,       \* bound: application calls an endpoint makes
  MaxClock           \* bound: readings of an endpoint's timer

ASSUME ClockAssumption ==
  /\ RetryThreshold \in Nat
  /\ ReassemblyTtl \in Nat
  /\ OverflowChecks \in BOOLEAN
  /\ FragmentTotals \subseteq Nat
  /\ AppLists \subseteq 1 .. 6
  /\ MaxPacketId \in Nat
  /\ MaxClock \in Nat

VARIABLES
  network,           \* every packet ever handed to send_to
  clock,             \* timer.elapsed() of each endpoint
  phase,             \* where each endpoint is in its poll
  packetIdTracker,   \* packet_id_tracker
  connected,         \* connected: what peer an id has, if any
  reassembler,       \* the reassembler of each connected peer, line by line
  scheduled,         \* the scheduler's six lists, in the order poll drains them
  sent,              \* the reliability handler's three lists
  api                \* the events not yet drained by poll

protocolVars == <<network, clock, phase, packetIdTracker, connected,
                  reassembler, scheduled, sent, api>>

Stopped == {"exhausted", "expect", "unwrap"}
Phase == {"app", "retryData", "retryFragment", "send", "poll"} \cup Stopped

(***************************************************************************)
(* The lists in the order poll drains them.                                *)
(***************************************************************************)
DrainOrder ==
  << [kind |-> "DataTransfer", reliable |-> FALSE],
     [kind |-> "DataTransfer", reliable |-> TRUE],
     [kind |-> "Fragment",     reliable |-> FALSE],
     [kind |-> "Fragment",     reliable |-> TRUE],
     [kind |-> "Heartbeat",    reliable |-> FALSE],
     [kind |-> "Heartbeat",    reliable |-> TRUE] >>

Queue == 1 .. 6
SentKind == {"DataTransfer", "Fragment", "Heartbeat"}

ProtocolTypeOK ==
  /\ network \subseteq Packet
  /\ clock \in [Endpoint -> Nat]
  /\ phase \in [Endpoint -> Phase]
  /\ packetIdTracker \in [Endpoint -> PacketId]
  /\ connected \in [Endpoint -> [ConnectionId -> Peer \cup {NoPeer}]]
  /\ reassembler \in [Endpoint -> [ConnectionId -> [Sequence -> Seq(Received)]]]
  /\ scheduled \in [Endpoint -> [Queue -> Seq(Scheduled)]]
  /\ sent \in [Endpoint -> [SentKind -> Seq(Sent)]]
  /\ api \in [Endpoint -> Seq(Event)]

ProtocolInit ==
  /\ network = {}
  /\ clock = [e \in Endpoint |-> 0]
  /\ phase = [e \in Endpoint |-> "app"]
  /\ packetIdTracker = [e \in Endpoint |-> 0]
  /\ connected = [e \in Endpoint |-> [id \in ConnectionId |-> NoPeer]]
  /\ reassembler = [e \in Endpoint |-> [id \in ConnectionId |->
                                          [n \in Sequence |-> <<>>]]]
  /\ scheduled = [e \in Endpoint |-> [q \in Queue |-> <<>>]]
  /\ sent = [e \in Endpoint |-> [k \in SentKind |-> <<>>]]
  /\ api = [e \in Endpoint |-> <<>>]

ConnectedIds(e) == {id \in ConnectionId : connected[e][id] # NoPeer}

\* Time passes at any moment, also while recv_from blocks.
Tick(e) ==
  /\ phase[e] \notin Stopped
  /\ clock[e] < MaxClock
  /\ clock' = [clock EXCEPT ![e] = @ + 1]
  /\ UNCHANGED <<network, phase, packetIdTracker, connected, reassembler,
                 scheduled, sent, api>>

-----------------------------------------------------------------------------
(***************************************************************************)
(* Scheduling.  SendTo::Single names one connected id, SendTo::Broadcast   *)
(* all of them in the order the hash map yields them.                      *)
(***************************************************************************)
Recipients(e) ==
  {<<id>> : id \in ConnectedIds(e)} \cup SetToSeqs(ConnectedIds(e))

\* new_*: index and total are truncated to u8 as Fragment::new does.
ScheduledItem(e, id, index, total) ==
  [id |-> id,
   address |-> connected[e][id].address,
   packetId |-> packetIdTracker[e],
   index |-> index % FragmentModulus,
   total |-> total % FragmentModulus]

\* The items one call pushes: chunk after chunk, each to every recipient.
Batch(e, ids, total) ==
  [k \in 1 .. total * Len(ids) |->
     ScheduledItem(e, ids[((k - 1) % Len(ids)) + 1], (k - 1) \div Len(ids), total)]

\* What both calls require to return Ok; an Err changes nothing.
MaySchedule(e) ==
  /\ phase[e] = "app"
  /\ packetIdTracker[e] < MaxPacketId
  /\ ConnectedIds(e) # {}

Enqueue(e, q, items) ==
  /\ scheduled' = [scheduled EXCEPT ![e][q] = @ \o items]
  /\ packetIdTracker' = [packetIdTracker EXCEPT ![e] = @ + 1]
  /\ UNCHANGED <<network, clock, phase, connected, reassembler, sent, api>>

(***************************************************************************)
(* schedule: an empty payload has no chunk, so nothing is queued and the   *)
(* id is spent all the same; one chunk becomes a data transfer, several    *)
(* become fragments.                                                       *)
(***************************************************************************)
Schedule(e) ==
  /\ MaySchedule(e)
  /\ \E ids \in Recipients(e), total \in FragmentTotals, q \in AppLists :
       /\ DrainOrder[q].kind = IF total > 1 THEN "Fragment" ELSE "DataTransfer"
       /\ Enqueue(e, q, Batch(e, ids, total))

\* heartbeat: no payload, and never split.
Heartbeat(e) ==
  /\ MaySchedule(e)
  /\ \E ids \in Recipients(e), q \in AppLists :
       /\ DrainOrder[q].kind = "Heartbeat"
       /\ Enqueue(e, q, Batch(e, ids, 1))

-----------------------------------------------------------------------------
(***************************************************************************)
(* Sending.  create_* reads the peer's trackers, as_raw and send_to put    *)
(* the packet on the wire, sent_* advances the sequence and remembers a    *)
(* reliable packet.                                                        *)
(***************************************************************************)
\* into_packet: the item's message, numbered and acked by the peer's trackers.
IntoPacket(e, kind, item, peer) ==
  [kind |-> kind, src |-> e, dst |-> item.address,
   sequence |-> peer.sequence, ack |-> peer.remoteAck, id |-> item.id,
   packetId |-> item.packetId, index |-> item.index, total |-> item.total]

Created(e, q, item) ==
  IntoPacket(e, DrainOrder[q].kind, item, connected[e][item.id])

\* EndsGroup gone wrong: a heartbeat does not advance the sequence.
EndsGroupNoHeartbeat(p) ==
  /\ p.kind # "Heartbeat"
  /\ p.kind = "Fragment" => p.index = (p.total - 1) % FragmentModulus

\* EndsGroup gone wrong: off by one, so no fragment is the last.
EndsGroupLate(p) == p.kind = "Fragment" => p.index = p.total

\* EndsGroup gone wrong: every fragment advances the sequence.
EndsGroupEach(p) == TRUE

\* A group of fragments shares one sequence: only its last part advances it.
EndsGroup(p) ==
  p.kind = "Fragment" => p.index = (p.total - 1) % FragmentModulus

\* Exhausts gone wrong: the addition to the sequence is not checked.
ExhaustsUnchecked(peer, p) == OverflowChecks /\ p.kind = "Fragment" /\ p.total = 0

(***************************************************************************)
(* The arithmetic of sent_* panics: checked_add(1).unwrap() at the last    *)
(* sequence, and total - 1 when a u8 total is 0 in a debug build.          *)
(***************************************************************************)
Exhausts(peer, p) ==
  \/ peer # NoPeer /\ EndsGroup(p) /\ peer.sequence = SequenceLimit
  \/ OverflowChecks /\ p.kind = "Fragment" /\ p.total = 0

(***************************************************************************)
(* send_to and sent_data_transfer, sent_fragment or sent_heartbeat.  peers *)
(* is e's connected map after what its service does first; sents is e's    *)
(* sent lists; next the phase that follows.                                *)
(***************************************************************************)
SendPacket(e, p, reliable, peers, sents, next) ==
  /\ network' = network \cup {p}
  /\ IF Exhausts(peers[p.id], p)
       THEN /\ phase' = [phase EXCEPT ![e] = "exhausted"]
            /\ connected' = [connected EXCEPT ![e] = peers]
            /\ sent' = [sent EXCEPT ![e] = sents]
       ELSE /\ phase' = [phase EXCEPT ![e] = next]
            /\ connected' =
                 [connected EXCEPT ![e] =
                    IF peers[p.id] # NoPeer /\ EndsGroup(p)
                      THEN [peers EXCEPT ![p.id].sequence = @ + 1]
                      ELSE peers]
            /\ sent' =
                 [sent EXCEPT ![e] =
                    IF reliable
                      THEN [sents EXCEPT ![p.kind] =
                              Append(@, [packet |-> p, time |-> clock[e]])]
                      ELSE sents]

\* Everything e has scheduled before list q has been sent.
NextInLine(e, q) ==
  /\ scheduled[e][q] # <<>>
  /\ \A before \in 1 .. q - 1 : scheduled[e][before] = <<>>

(***************************************************************************)
(* One round of a poll_* loop: the first item of list q is created and     *)
(* sent.  create_* expects the id to be connected.                         *)
(***************************************************************************)
SendScheduled(e, q, peers) ==
  LET item == Head(scheduled[e][q])
  IN  /\ phase[e] = "send"
      /\ NextInLine(e, q)
      /\ scheduled' = [scheduled EXCEPT ![e][q] = Tail(@)]
      /\ IF connected[e][item.id] = NoPeer
           THEN /\ phase' = [phase EXCEPT ![e] = "expect"]
                /\ UNCHANGED <<network, connected, sent>>
           ELSE SendPacket(e, Created(e, q, item), DrainOrder[q].reliable,
                           peers, sent[e], "send")
      /\ UNCHANGED <<clock, packetIdTracker, reassembler, api>>

(***************************************************************************)
(* Retrying.  retry_reliable_* pops the last packet of its list, and sends *)
(* it again, as it was, only past the threshold on the sum of its send     *)
(* time and now; before that the packet is dropped.                        *)
(***************************************************************************)
Overdue(e, list) ==
  /\ list # <<>>
  /\ Last(list).time + clock[e] > RetryThreshold

Resend(e, kind, peers, next) ==
  /\ SendPacket(e, Last(sent[e][kind]).packet, TRUE, peers,
                [sent[e] EXCEPT ![kind] = Front(@)], next)
  /\ UNCHANGED <<clock, packetIdTracker, reassembler, scheduled, api>>

Forget(e, kind, next) ==
  /\ phase' = [phase EXCEPT ![e] = next]
  /\ sent' = [sent EXCEPT ![e][kind] = Front(@)]
  /\ UNCHANGED <<network, clock, packetIdTracker, connected, reassembler,
                 scheduled, api>>

-----------------------------------------------------------------------------
(***************************************************************************)
(* Receiving.  recv_from blocks for one packet once every list is drained. *)
(* The network keeps what it was given: a packet may arrive any number of  *)
(* times, in any order, or never.                                          *)
(***************************************************************************)
Receives(e, p) ==
  /\ phase[e] = "send"
  /\ \A q \in Queue : scheduled[e][q] = <<>>
  /\ p \in network
  /\ p.dst = e
  /\ UNCHANGED <<network, clock, scheduled, sent>>

\* on_received returned: the handlers are polled next.
Returns(e) == phase' = [phase EXCEPT ![e] = "poll"]

Push(e, event) == api' = [api EXCEPT ![e] = Append(@, event)]

DataTransferEvent(id, parts) == [kind |-> "DataTransfer", id |-> id, parts |-> parts]

PartOf(p) == [packetId |-> p.packetId, index |-> p.index]

(***************************************************************************)
(* From<Vec<Fragment>>: the last fragment of a line is popped for its      *)
(* header, and the payloads of the others are joined.                      *)
(***************************************************************************)
JoinedParts(line) ==
  [i \in 1 .. Len(line) - 1 |-> [packetId |-> line[i].packetId, index |-> line[i].index]]

\* Reassemble gone wrong: a peer has one line, whatever the sequence.
ReassembleOneLine(e, p) ==
  LET line == reassembler[e][p.id][1]
      longer == Append(line, [packetId |-> p.packetId, index |-> p.index,
                              time |-> clock[e]])
      whole == line # <<>> /\ Len(longer) = p.total
  IN  /\ reassembler' = [reassembler EXCEPT ![e][p.id][1] =
                           IF whole THEN <<>> ELSE longer]
      /\ IF whole
           THEN Push(e, DataTransferEvent(p.id, JoinedParts(longer)))
           ELSE UNCHANGED api

(***************************************************************************)
(* The fragment arm of both on_received.  The fragment joins the line of   *)
(* its sequence; when that makes a line as long as the total it announces, *)
(* the line becomes one payload.  The sort is by a sequence they all share *)
(* and so keeps arrival order.  A line of one is never complete: the arm   *)
(* that starts a line answers false.                                       *)
(***************************************************************************)
Reassemble(e, p) ==
  LET line == reassembler[e][p.id][p.sequence]
      longer == Append(line, [packetId |-> p.packetId, index |-> p.index,
                              time |-> clock[e]])
      whole == line # <<>> /\ Len(longer) = p.total
  IN  /\ reassembler' = [reassembler EXCEPT ![e][p.id][p.sequence] =
                           IF whole THEN <<>> ELSE longer]
      /\ IF whole
           THEN Push(e, DataTransferEvent(p.id, JoinedParts(longer)))
           ELSE UNCHANGED api

(***************************************************************************)
(* ReliabilityHandler::poll and the services' poll.  The removal test is   *)
(* map(..).is_some(): it holds of any first packet, expired or not.  One   *)
(* list loses its head: data transfers first, else fragments.  Heartbeats  *)
(* are never removed.                                                      *)
(***************************************************************************)
Expired(lists) ==
  IF lists["DataTransfer"] # <<>>
    THEN [lists EXCEPT !["DataTransfer"] = Tail(@)]
  ELSE IF lists["Fragment"] # <<>>
    THEN [lists EXCEPT !["Fragment"] = Tail(@)]
  ELSE lists

WithoutFirst(list) == IF list = <<>> THEN <<>> ELSE Tail(list)

\* The end of poll: the handlers are polled and api is drained.
PollHandler(e) ==
  /\ phase[e] = "poll"
  /\ phase' = [phase EXCEPT ![e] = "app"]
  /\ sent' = [sent EXCEPT ![e] = Expired(@)]
  /\ api' = [api EXCEPT ![e] = <<>>]
  /\ UNCHANGED <<network, clock, packetIdTracker, connected, scheduled>>
=============================================================================
