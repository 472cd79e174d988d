------------------------------- MODULE Server -------------------------------
(***************************************************************************)
(* Protocol<Server> and AntarcNet<Server>.  A client's request is granted  *)
(* an id at once: requesting_connection is filled and emptied within one   *)
(* on_received, so it is no variable here.  The id then goes               *)
(*   awaitingAck -> connected (a packet that carries it has come).         *)
(* ban_list is never filled.                                               *)
(***************************************************************************)
EXTENDS Protocol

VARIABLES
  awaitingAck,          \* awaiting_connection_ack
  connectionIdTracker,  \* connection_id_tracker
  scheduledAccepted,    \* list_scheduled_connection_accepted
  sentAccepted          \* list_sent_connection_accepted

serverVars == <<awaitingAck, connectionIdTracker, scheduledAccepted, sentAccepted>>

ScheduledAccepted == [id : ConnectionId, address : Endpoint]

ServerTypeOK ==
  /\ awaitingAck \in [Servers -> [ConnectionId -> Peer \cup {NoPeer}]]
  /\ connectionIdTracker \in [Servers -> ConnectionId]
  /\ scheduledAccepted \in [Servers -> Seq(ScheduledAccepted)]
  /\ sentAccepted \in [Servers -> Seq(Sent)]

ServerInit ==
  /\ awaitingAck = [s \in Servers |-> [id \in ConnectionId |-> NoPeer]]
  /\ connectionIdTracker = [s \in Servers |-> 1]
  /\ scheduledAccepted = [s \in Servers |-> <<>>]
  /\ sentAccepted = [s \in Servers |-> <<>>]

-----------------------------------------------------------------------------
(***************************************************************************)
(* send_to and sent_connection_accepted.  sents is s's list of sent        *)
(* accepts, next the phase that follows.                                   *)
(***************************************************************************)
SendAccepted(s, p, sents, next) ==
  LET peer == awaitingAck[s][p.id]
  IN  /\ network' = network \cup {p}
      /\ IF peer # NoPeer /\ peer.sequence = SequenceLimit
           THEN /\ phase' = [phase EXCEPT ![s] = "exhausted"]
                /\ sentAccepted' = [sentAccepted EXCEPT ![s] = sents]
                /\ UNCHANGED awaitingAck
           ELSE /\ phase' = [phase EXCEPT ![s] = next]
                /\ awaitingAck' = IF peer = NoPeer THEN awaitingAck
                                  ELSE [awaitingAck EXCEPT ![s][p.id].sequence = @ + 1]
                /\ sentAccepted' =
                     [sentAccepted EXCEPT ![s] =
                        Append(sents, [packet |-> p, time |-> clock[s]])]

\* poll_retry_connection_accepted: the first step of poll.
RetryConnectionAccepted(s) ==
  /\ phase[s] = "app"
  /\ IF Overdue(s, sentAccepted[s])
       THEN SendAccepted(s, Last(sentAccepted[s]).packet, Front(sentAccepted[s]),
                         "retryData")
       ELSE /\ phase' = [phase EXCEPT ![s] = "retryData"]
            /\ sentAccepted' = [sentAccepted EXCEPT ![s] = Front(@)]
            /\ UNCHANGED <<network, awaitingAck>>
  /\ UNCHANGED <<clock, packetIdTracker, connected, reassembler, scheduled,
                 sent, api, connectionIdTracker, scheduledAccepted>>

\* One round of poll_connection_accepted.
SendConnectionAccepted(s) ==
  /\ phase[s] = "send"
  /\ scheduledAccepted[s] # <<>>
  /\ scheduledAccepted' = [scheduledAccepted EXCEPT ![s] = Tail(@)]
  /\ LET item == Head(scheduledAccepted[s])
         peer == awaitingAck[s][item.id]
     IN  IF peer = NoPeer
           THEN /\ phase' = [phase EXCEPT ![s] = "expect"]
                /\ UNCHANGED <<network, awaitingAck, sentAccepted>>
           ELSE SendAccepted(s, IntoPacket(s, "ConnectionAccepted",
                                           HandshakeItem(item.id, item.address), peer),
                             sentAccepted[s], "send")
  /\ UNCHANGED <<clock, packetIdTracker, connected, reassembler, scheduled,
                 sent, api, connectionIdTracker>>

-----------------------------------------------------------------------------
\* poll_retry_data_transfer and poll_retry_fragment.
RetrySent(s, kind, now, next) ==
  /\ phase[s] = now
  /\ IF Overdue(s, sent[s][kind])
       THEN Resend(s, kind, connected[s], next)
       ELSE Forget(s, kind, next)
  /\ UNCHANGED serverVars

ServerRetryDataTransfer(s) == RetrySent(s, "DataTransfer", "retryData", "retryFragment")
ServerRetryFragment(s) == RetrySent(s, "Fragment", "retryFragment", "send")

\* A round of the poll_* loop of list q.
ServerSend(s, q) ==
  /\ scheduledAccepted[s] = <<>>
  /\ SendScheduled(s, q, connected[s])
  /\ UNCHANGED serverVars

-----------------------------------------------------------------------------
(***************************************************************************)
(* Server::on_received, one operator per arm.  An Err becomes a Fail event *)
(* in AntarcNet::poll.                                                     *)
(***************************************************************************)
\* ConnectionRequestAnotherState gone wrong: only connected is searched.
ConnectionRequestConnected(s, c) ==
  \E id \in ConnectionId : connected[s][id] # NoPeer /\ connected[s][id].address = c

\* ConnectionRequestAnotherState gone wrong: whoever awaits its ack, c is refused.
ConnectionRequestAnyAwaiting(s, c) ==
  \E id \in ConnectionId :
     \/ awaitingAck[s][id] # NoPeer
     \/ connected[s][id] # NoPeer /\ connected[s][id].address = c

ConnectionRequestAnotherState(s, c) ==
  \E id \in ConnectionId :
     \/ awaitingAck[s][id] # NoPeer /\ awaitingAck[s][id].address = c
     \/ connected[s][id] # NoPeer /\ connected[s][id].address = c

Refused(s, p, error) ==
  /\ Returns(s)
  /\ Push(s, Fail(error, p))
  /\ UNCHANGED <<packetIdTracker, connected, reassembler, awaitingAck,
                 connectionIdTracker, scheduledAccepted>>

\* OnConnectionRequest gone wrong: the tracker is not advanced.
OnConnectionRequestSameId(s, p) ==
  LET id == connectionIdTracker[s]
  IN  IF ConnectionRequestAnotherState(s, p.src)
        THEN Refused(s, p, "PeerInAnotherState")
      ELSE /\ Returns(s)
           /\ scheduledAccepted' = [scheduledAccepted EXCEPT ![s] =
                                      Append(@, [id |-> id, address |-> p.src])]
           /\ awaitingAck' = [awaitingAck EXCEPT ![s][id] =
                                NewPeer(p.src, p.sequence)]
           /\ packetIdTracker' = [packetIdTracker EXCEPT ![s] = @ + 1]
           /\ UNCHANGED <<connected, reassembler, api, connectionIdTracker>>

(***************************************************************************)
(* ConnectionRequest: the peer gets the next id, and accept_connection     *)
(* schedules the answer and moves it to awaitingAck.  Handing out the last *)
(* id overflows the tracker.                                               *)
(***************************************************************************)
OnConnectionRequest(s, p) ==
  LET id == connectionIdTracker[s]
  IN  IF ConnectionRequestAnotherState(s, p.src)
        THEN Refused(s, p, "PeerInAnotherState")
      ELSE IF id = ConnectionIdLimit
        THEN /\ phase' = [phase EXCEPT ![s] = "exhausted"]
             /\ UNCHANGED <<packetIdTracker, connected, reassembler, api,
                            awaitingAck, connectionIdTracker, scheduledAccepted>>
      ELSE /\ Returns(s)
           /\ connectionIdTracker' = [connectionIdTracker EXCEPT ![s] = id + 1]
           /\ scheduledAccepted' = [scheduledAccepted EXCEPT ![s] =
                                      Append(@, [id |-> id, address |-> p.src])]
           /\ awaitingAck' = [awaitingAck EXCEPT ![s][id] =
                                NewPeer(p.src, p.sequence)]
           /\ packetIdTracker' = [packetIdTracker EXCEPT ![s] = @ + 1]
           /\ UNCHANGED <<connected, reassembler, api>>

\* p acks the peer of its id, which is then connected if it was not yet.
AckPeer(s, p) ==
  /\ connected' = [connected EXCEPT ![s][p.id] =
                     Acked(IF @ # NoPeer THEN @ ELSE awaitingAck[s][p.id], p)]
  /\ awaitingAck' = IF connected[s][p.id] # NoPeer THEN awaitingAck
                    ELSE [awaitingAck EXCEPT ![s][p.id] = NoPeer]
  /\ Returns(s)
  /\ UNCHANGED <<packetIdTracker, connectionIdTracker, scheduledAccepted>>

KnownId(s, id) == connected[s][id] # NoPeer \/ awaitingAck[s][id] # NoPeer

ServerOnDataTransfer(s, p) ==
  IF KnownId(s, p.id)
    THEN /\ AckPeer(s, p)
         /\ Push(s, DataTransferEvent(p.id, <<PartOf(p)>>))
         /\ UNCHANGED reassembler
    ELSE Refused(s, p, "NoPeersConnected")

ServerOnFragment(s, p) ==
  IF KnownId(s, p.id)
    THEN AckPeer(s, p) /\ Reassemble(s, p)
    ELSE Refused(s, p, "NoPeersConnected")

\* A heartbeat of an unknown id is ignored without an error.
ServerOnHeartbeat(s, p) ==
  /\ IF KnownId(s, p.id)
       THEN AckPeer(s, p)
       ELSE /\ Returns(s)
            /\ UNCHANGED <<packetIdTracker, connected, awaitingAck,
                           connectionIdTracker, scheduledAccepted>>
  /\ UNCHANGED <<reassembler, api>>

ServerOnReceived(s, p) ==
  /\ CASE p.kind = "ConnectionRequest"  -> OnConnectionRequest(s, p)
       [] p.kind = "ConnectionAccepted" -> Refused(s, p, "InvalidPacketType")
       [] p.kind = "DataTransfer"       -> ServerOnDataTransfer(s, p)
       [] p.kind = "Fragment"           -> ServerOnFragment(s, p)
       [] p.kind = "Heartbeat"          -> ServerOnHeartbeat(s, p)
  /\ UNCHANGED sentAccepted

ServerReceive(s, p) ==
  /\ Receives(s, p)
  /\ scheduledAccepted[s] = <<>>
  /\ ServerOnReceived(s, p)

-----------------------------------------------------------------------------
(***************************************************************************)
(* Peer<Connected>::poll.  A line is dropped when the time of its newest   *)
(* fragment plus the ttl is past now, that is while it is fresh; of        *)
(* several, the one the hash map yields last.                              *)
(***************************************************************************)
Droppable(s, id) ==
  {n \in Sequence : /\ reassembler[s][id][n] # <<>>
                    /\ Last(reassembler[s][id][n]).time + ReassemblyTtl > clock[s]}

\* For each id the sequence of the line to drop, 0 if there is none.
Drops(s) ==
  {drop \in [ConnectionId -> 0 .. SequenceLimit] :
     \A id \in ConnectionId :
        IF Droppable(s, id) = {} THEN drop[id] = 0 ELSE drop[id] \in Droppable(s, id)}

\* Protocol<Server>::poll.
ServerPoll(s) ==
  /\ PollHandler(s)
  /\ sentAccepted' = [sentAccepted EXCEPT ![s] = WithoutFirst(@)]
  /\ \E drop \in Drops(s) :
       reassembler' = [reassembler EXCEPT ![s] =
                         [id \in ConnectionId |->
                            [n \in Sequence |->
                               IF n = drop[id] THEN <<>> ELSE @[id][n]]]]
  /\ UNCHANGED <<awaitingAck, connectionIdTracker, scheduledAccepted>>

\* A step of AntarcNet<Server>::poll that does not wait for the network.
ServerPolls(s) ==
  \/ RetryConnectionAccepted(s)
  \/ ServerRetryDataTransfer(s)
  \/ ServerRetryFragment(s)
  \/ SendConnectionAccepted(s)
  \/ \E q \in Queue : ServerSend(s, q)
  \/ ServerPoll(s)

ServerNext(s) ==
  \/ ServerPolls(s)
  \/ \E p \in network : ServerReceive(s, p)
  \/ (Schedule(s) \/ Heartbeat(s) \/ Tick(s)) /\ UNCHANGED serverVars
=============================================================================
