--------------------------- MODULE AntarcTrackers ---------------------------
(***************************************************************************)
(* What the trackers of a peer - sequence, remote ack, local ack - say of  *)
(* the packets in the network: the second inductive invariant of Antarc,   *)
(* on top of the first, which says who is connected to whom.               *)
(***************************************************************************)
EXTENDS AntarcInvariant

\* What is sent to a connected peer is sent to who the sender's map names.
SentToConnected ==
  \A p \in network : p.kind \in SentKind =>
     /\ connected[p.src][p.id] # NoPeer
     /\ connected[p.src][p.id].address = p.dst

\* Somebody at this address sent e a packet of this sequence.
WasSent(e, from, sequence) ==
  \E q \in network : q.src = from /\ q.dst = e /\ q.sequence = sequence

\* A remote ack is 0 or the sequence of a packet received from the peer.
RemoteAcksWereSent ==
  /\ \A e \in Endpoint : \A id \in ConnectedIds(e) :
       LET peer == connected[e][id]
       IN  peer.remoteAck # 0 /\ WasSent(e, peer.address, peer.remoteAck)
  /\ \A s \in Servers, id \in ConnectionId :
       LET peer == awaitingAck[s][id]
       IN  peer # NoPeer => WasSent(s, peer.address, peer.remoteAck)
  /\ \A c \in Clients, a \in Endpoint :
       /\ requesting[c][a] # NoPeer => requesting[c][a].remoteAck = 0
       /\ awaiting[c][a] # NoPeer => awaiting[c][a].remoteAck = 0

\* Only a request acks nothing, so whoever is connected has acked something.
ConnectedAcks ==
  /\ \A p \in network : p.kind \in SentKind => p.ack # 0
  /\ \A s \in Servers : \A id \in ConnectedIds(s) : connected[s][id].localAck # 0

\* A granted id's accept has sequence 1, scheduled or sent.
AcceptsAreFirst ==
  \A s \in Servers, id \in ConnectionId :
     Owner(s, id) # NoPeer =>
        IF AcceptPending(s, id)
          THEN awaitingAck[s][id] # NoPeer /\ awaitingAck[s][id].sequence = 1
          ELSE \E p \in network :
                 /\ p.kind = "ConnectionAccepted"
                 /\ p.src = s
                 /\ p.id = id
                 /\ p.sequence = 1

(***************************************************************************)
(* The reliability handler holds an accept only from the moment it is sent *)
(* to the end of the same poll.                                            *)
(***************************************************************************)
AcceptTrace ==
  \A s \in Servers :
     /\ phase[s] \in {"app", "retryData", "retryFragment"} => sentAccepted[s] = <<>>
     /\ phase[s] = "send" => Len(sentAccepted[s]) + Len(scheduledAccepted[s]) <= 1
     /\ phase[s] = "poll" => Len(sentAccepted[s]) <= 1

TrackerInv ==
  /\ IInv
  /\ SentToConnected
  /\ RemoteAcksWereSent
  /\ AcksWereSent
  /\ ConnectedAcks
  /\ AcceptsAreFirst
  /\ AcceptTrace
=============================================================================
