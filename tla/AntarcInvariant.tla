-------------------------- MODULE AntarcInvariant ---------------------------
(***************************************************************************)
(* The inductive invariant behind the connection properties of Antarc.     *)
(*                                                                         *)
(* IdsAgree and EstablishedOnBothSides relate the maps of two endpoints    *)
(* that only packets connect, so what keeps them true is what every packet *)
(* in the network says of the maps of its sender (PacketsSpeakTrue), and   *)
(* what every list still holds says of the map its item will be looked up  *)
(* in (ScheduledToConnected, SentWasSent and the like).                    *)
(***************************************************************************)
EXTENDS Antarc

\* An address is looked up under itself, and names a service of the other kind.
AddressesFit ==
  /\ \A c \in Clients, a \in Endpoint :
       /\ requesting[c][a] # NoPeer => a \in Servers /\ requesting[c][a].address = a
       /\ awaiting[c][a] # NoPeer => a \in Servers /\ awaiting[c][a].address = a
  /\ \A s \in Servers, id \in ConnectionId :
       Owner(s, id) # NoPeer => Owner(s, id).address \in Clients

\* connection_id_tracker is ahead of every id it has handed out.
TrackerAhead ==
  \A s \in Servers, id \in ConnectionId :
     Owner(s, id) # NoPeer => id < connectionIdTracker[s]

\* A scheduled accept is alone, and its peer still awaits the ack.
AcceptsAwait ==
  \A s \in Servers :
     /\ Len(scheduledAccepted[s]) <= 1
     /\ \A item \in ToSet(scheduledAccepted[s]) :
          /\ awaitingAck[s][item.id] # NoPeer
          /\ awaitingAck[s][item.id].address = item.address

\* A scheduled request is the only one for its address, which is requesting.
RequestsRequest ==
  \A c \in Clients :
     LET list == scheduledRequest[c]
     IN  /\ \A s \in ToSet(list) : requesting[c][s] # NoPeer
         /\ \A i, j \in DOMAIN list : list[i] = list[j] => i = j

\* Whatever else is scheduled goes to a connected peer, at its own address.
ScheduledToConnected ==
  \A e \in Endpoint, q \in Queue : \A item \in ToSet(scheduled[e][q]) :
     /\ connected[e][item.id] # NoPeer
     /\ connected[e][item.id].address = item.address

RequestTrue(p) ==
  /\ p.src \in Clients
  /\ p.dst \in Servers
  /\ KnownPeer(p.src, p.dst)
  /\ requesting[p.src][p.dst] # NoPeer => phase[p.src] \in Stopped

FromServerTrue(p) ==
  /\ Owns(p.src, p.id, p.dst)
  /\ ~AcceptPending(p.src, p.id)

FromClientTrue(p) ==
  /\ p.kind # "ConnectionAccepted"
  /\ connected[p.src][p.id] # NoPeer
  /\ connected[p.src][p.id].address = p.dst

\* What a packet says of its sender's maps stays true for ever.
PacketsSpeakTrue ==
  \A p \in network :
     /\ p.kind = "ConnectionRequest" => RequestTrue(p)
     /\ p.kind # "ConnectionRequest" /\ p.src \in Servers => FromServerTrue(p)
     /\ p.kind # "ConnectionRequest" /\ p.src \in Clients => FromClientTrue(p)

\* What the reliability handler keeps was sent, by its keeper.
SentWasSent ==
  /\ \A e \in Endpoint, k \in SentKind : \A x \in ToSet(sent[e][k]) :
       x.packet \in network /\ x.packet.src = e /\ x.packet.kind = k
  /\ \A c \in Clients : \A x \in ToSet(sentRequest[c]) :
       x.packet \in network /\ x.packet.src = c /\ x.packet.kind = "ConnectionRequest"
  /\ \A s \in Servers : \A x \in ToSet(sentAccepted[s]) :
       x.packet \in network /\ x.packet.src = s /\ x.packet.kind = "ConnectionAccepted"

(***************************************************************************)
(* The connection properties with what makes them inductive: no step of    *)
(* any handler breaks the conjunction, in whatever order they are taken.   *)
(***************************************************************************)
IInv ==
  /\ TypeOK
  /\ AddressesFit
  /\ TrackerAhead
  /\ AcceptsAwait
  /\ RequestsRequest
  /\ ScheduledToConnected
  /\ PacketsSpeakTrue
  /\ SentWasSent
  /\ UniqueIds
  /\ IdsAgree
  /\ OneStatePerServer
  /\ EstablishedOnBothSides
  /\ CreateNeverFails

-----------------------------------------------------------------------------
(***************************************************************************)
(* What the refinement of Handshake needs besides.                         *)
(***************************************************************************)

\* A peer that is requesting is as connect made it: no request of it is out.
RequestingIsFresh ==
  \A c \in Clients, s \in Servers :
     requesting[c][s] # NoPeer =>
        /\ requesting[c][s].sequence = 1
        /\ \A p \in network : ~(p.kind = "ConnectionRequest" /\ p.src = c /\ p.dst = s)

\* Whom a server knows has asked it for the connection, and remembers it.
OwnersAsked ==
  \A s \in Servers, id \in ConnectionId, c \in Clients :
     Owns(s, id, c) => requesting[c][s] = NoPeer /\ KnownPeer(c, s)

(***************************************************************************)
(* A link that is known to one side only is in the right state on it: a    *)
(* request goes out once, from a client that then waits for the answer,    *)
(* and the server's knowledge of a client starts with it.                  *)
(***************************************************************************)
LinkInv == RequestingIsFresh /\ OwnersAsked
=============================================================================
