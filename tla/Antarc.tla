------------------------------- MODULE Antarc -------------------------------
(***************************************************************************)
(* Clients and servers over UDP, and what makes them right.                *)
(***************************************************************************)
EXTENDS Client, Server

CONSTANT ReliableTtl  \* Protocol::reliable_ttl

ASSUME TtlAssumption == ReliableTtl \in Nat

vars == <<protocolVars, clientVars, serverVars>>

Init == ProtocolInit /\ ClientInit /\ ServerInit

Next ==
  \/ \E c \in Clients : ClientNext(c) /\ UNCHANGED serverVars
  \/ \E s \in Servers : ServerNext(s) /\ UNCHANGED clientVars

Spec == Init /\ [][Next]_vars

(***************************************************************************)
(* Fairness.  The application keeps calling poll, as the loops of          *)
(* antarc-sample do, and a poll runs on until recv_from blocks.  UDP may   *)
(* lose, repeat and reorder, but a handshake packet for which the other    *)
(* side is ready again and again arrives in the end.                       *)
(***************************************************************************)
Fairness ==
  /\ \A c \in Clients : WF_vars(ClientPolls(c) /\ UNCHANGED serverVars)
  /\ \A s \in Servers : WF_vars(ServerPolls(s) /\ UNCHANGED clientVars)
  /\ \A c \in Clients, s \in Servers :
       /\ SF_vars(\E p \in network : /\ p.kind = "ConnectionRequest"
                                    /\ p.src = c
                                    /\ ServerReceive(s, p)
                                    /\ UNCHANGED clientVars)
       /\ SF_vars(\E p \in network : /\ p.kind = "ConnectionAccepted"
                                    /\ p.src = s
                                    /\ ClientReceive(c, p)
                                    /\ UNCHANGED serverVars)

FairSpec == Spec /\ Fairness

TypeOK == ProtocolTypeOK /\ ClientTypeOK /\ ServerTypeOK

-----------------------------------------------------------------------------
(***************************************************************************)
(* Connections.                                                            *)
(***************************************************************************)

\* The peer a server knows by an id, connected or not yet.
Owner(s, id) ==
  IF connected[s][id] # NoPeer THEN connected[s][id] ELSE awaitingAck[s][id]

Owns(s, id, c) == Owner(s, id) # NoPeer /\ Owner(s, id).address = c

AcceptPending(s, id) ==
  \E item \in ToSet(scheduledAccepted[s]) : item.id = id

(***************************************************************************)
(* A server never knows one client by two ids, nor one id in two states,   *)
(* however often the request arrives (unexpected_connection).              *)
(***************************************************************************)
UniqueIds ==
  \A s \in Servers, i \in ConnectionId :
     /\ connected[s][i] # NoPeer => awaitingAck[s][i] = NoPeer
     /\ \A j \in ConnectionId, c \in Clients :
          Owns(s, i, c) /\ Owns(s, j, c) => i = j

(***************************************************************************)
(* The two sides agree on ids: what a client is connected under is what    *)
(* that server granted this very client, and the server has told it.       *)
(***************************************************************************)
IdsAgree ==
  \A c \in Clients : \A id \in ConnectedIds(c) :
     LET s == connected[c][id].address
     IN  /\ s \in Servers
         /\ Owns(s, id, c)
         /\ ~AcceptPending(s, id)

(***************************************************************************)
(* A server connects a peer only when the client is connected to it under  *)
(* the same id, whatever packets were lost, repeated or overtaken.         *)
(***************************************************************************)
EstablishedOnBothSides ==
  \A s \in Servers : \A id \in ConnectedIds(s) :
     LET c == connected[s][id].address
     IN  /\ connected[c][id] # NoPeer
         /\ connected[c][id].address = s

(***************************************************************************)
(* "The Peer<AwaitingConnectionAck> will change to Peer<Connected> when we *)
(* receive an ack for this reliable packet": a peer is connected only once *)
(* it acked the connection accepted.                                       *)
(***************************************************************************)
EstablishedByAck ==
  \A s \in Servers : \A id \in ConnectedIds(s) :
     \E p \in network :
        /\ p.kind = "ConnectionAccepted"
        /\ p.src = s
        /\ p.id = id
        /\ p.sequence <= connected[s][id].localAck

(***************************************************************************)
(* A client has a remote address in one state only: requesting, awaiting,  *)
(* or connected under one id (known_peer, and the removals that go with    *)
(* each change of state).                                                  *)
(***************************************************************************)
OneStatePerServer ==
  \A c \in Clients, s \in Servers :
     LET ids == {id \in ConnectedIds(c) : connected[c][id].address = s}
     IN  /\ \A i, j \in ids : i = j
         /\ requesting[c][s] # NoPeer => awaiting[c][s] = NoPeer /\ ids = {}
         /\ awaiting[c][s] # NoPeer => ids = {}

(***************************************************************************)
(* "Creating a packet should never fail!": the peer a scheduled packet     *)
(* names is still there, in the state its create_* looks it up in, when    *)
(* poll comes to send it.                                                  *)
(***************************************************************************)
CreateNeverFails == \A e \in Endpoint : phase[e] # "expect"

(***************************************************************************)
(* A connected peer stays connected, to the same address, and its sequence *)
(* never goes back, although every arm of on_received and every sent_* may *)
(* write to the map.                                                       *)
(***************************************************************************)
ConnectionsPersist ==
  [][\A e \in Endpoint : \A id \in ConnectedIds(e) :
        /\ connected'[e][id] # NoPeer
        /\ connected'[e][id].address = connected[e][id].address
        /\ connected'[e][id].sequence >= connected[e][id].sequence]_connected

(***************************************************************************)
(* A client that asks for a connection gets it, if no packet of the        *)
(* handshake is lost for good and neither side panics.                     *)
(***************************************************************************)
Connects ==
  \A c \in Clients, s \in Servers :
     requesting[c][s] # NoPeer ~>
        \/ \E id \in ConnectedIds(c) : connected[c][id].address = s
        \/ {phase[c], phase[s]} \cap Stopped # {}

-----------------------------------------------------------------------------
(***************************************************************************)
(* Packets.                                                                *)
(***************************************************************************)

(***************************************************************************)
(* A sequence identifies what it is put on: two packets of one endpoint to *)
(* another share theirs only as fragments of one payload.  Reassembly and  *)
(* acks rest on it.  The tracker moves through three maps on the way.      *)
(***************************************************************************)
SequenceIdentifiesPacket ==
  \A p, q \in network :
     p.src = q.src /\ p.dst = q.dst /\ p.sequence = q.sequence =>
        \/ p = q
        \/ p.kind = "Fragment" /\ q.kind = "Fragment" /\ p.packetId = q.packetId

(***************************************************************************)
(* A group goes out under one sequence, that nothing advances between its  *)
(* first fragment and its last, first send or retry: "the sequence tracker *)
(* for a Peer only increases after the last fragment is sent out".  The    *)
(* receiver knows no other key for its line.                               *)
(***************************************************************************)
GroupSharesSequence ==
  \A p, q \in network :
     /\ p.kind = "Fragment" /\ q.kind = "Fragment"
     /\ p.src = q.src /\ p.dst = q.dst /\ p.packetId = q.packetId
     => p.sequence = q.sequence

\* Everything an endpoint acks was sent to it by the endpoint it tells.
AcksWereSent ==
  \A p \in network :
     \/ p.ack = 0
     \/ \E q \in network : q.src = p.dst /\ q.dst = p.src /\ q.sequence = p.ack

(***************************************************************************)
(* A payload handed to the application under an id was sent by the peer of *)
(* that id, although on_received looks peers up by the id a packet claims  *)
(* and not by where it comes from; and its parts are of one payload.       *)
(***************************************************************************)
EventsComeFromPeer ==
  \A e \in Endpoint : \A i \in DOMAIN api[e] :
     api[e][i].kind = "DataTransfer" =>
        LET id == api[e][i].id
            parts == api[e][i].parts
        IN  /\ connected[e][id] # NoPeer
            /\ \A k \in DOMAIN parts :
                 /\ parts[k].packetId = parts[1].packetId
                 /\ \E p \in network :
                      /\ p.src = connected[e][id].address
                      /\ p.dst = e
                      /\ p.id = id
                      /\ p.packetId = parts[k].packetId
                      /\ p.index = parts[k].index

-----------------------------------------------------------------------------
(***************************************************************************)
(* What comments, assertions and the sample say, and the code does not do. *)
(***************************************************************************)

\* The unwrap in sent_connection_request: the peer of a sent request requests.
RequestedPeerIsRequesting == \A c \in Clients : phase[c] # "unwrap"

(***************************************************************************)
(* The ttl is what ends the wait for an ack: a reliable packet that is not *)
(* acked stays with the reliability handler until its ttl is over, or is   *)
(* sent again.                                                             *)
(***************************************************************************)
KeptUntilTtl ==
  [][\A e \in Endpoint, k \in SentKind :
        \A x \in ToSet(sent[e][k]) \ ToSet(sent'[e][k]) :
           \/ x.time + ReliableTtl <= clock[e]
           \/ x.packet.sequence <= connected[e][x.packet.id].localAck
           \/ \E y \in ToSet(sent'[e][k]) : y.packet = x.packet
           \/ phase'[e] \in Stopped]_sent

\* on_received feeds the event pipe: a data transfer received is an event.
ClientDelivers ==
  [][\A c \in Clients, p \in network :
        p.kind = "DataTransfer" /\ ClientReceive(c, p) => api'[c] # api[c]]_vars

(***************************************************************************)
(* "We either receive the whole group and it becomes 1 fully formed packet *)
(* or we discard the parts": a payload that was split is delivered with    *)
(* all its parts.                                                          *)
(***************************************************************************)
GroupsAreWhole ==
  \A e \in Endpoint : \A i \in DOMAIN api[e] :
     api[e][i].kind = "DataTransfer" =>
        LET parts == api[e][i].parts
        IN  \A p \in network :
               /\ p.kind = "Fragment"
               /\ p.src = connected[e][api[e][i].id].address
               /\ p.dst = e
               /\ p.packetId = parts[1].packetId
               => p.total = Cardinality({parts[k].index : k \in DOMAIN parts})

(***************************************************************************)
(* "Removes expired packets from the reassembler line": a line that is not *)
(* complete goes only when its newest fragment is older than the ttl.      *)
(***************************************************************************)
OnlyExpiredLinesGo ==
  [][\A s \in Servers, id \in ConnectionId, n \in Sequence :
        LET line == reassembler[s][id][n]
        IN  line # <<>> /\ reassembler'[s][id][n] = <<>> =>
               \/ api'[s] # api[s] /\ api'[s] # <<>>
               \/ Last(line).time + ReassemblyTtl <= clock[s]]_reassembler

-----------------------------------------------------------------------------
(***************************************************************************)
(* The handshake implements its abstract specification.                    *)
(***************************************************************************)
StageOf(c, s) ==
  IF requesting[c][s] # NoPeer THEN "requesting"
  ELSE IF \E id \in ConnectedIds(s) : connected[s][id].address = c THEN "established"
  ELSE IF \E id \in ConnectedIds(c) : connected[c][id].address = s THEN "open"
  ELSE IF \E id \in ConnectionId : Owns(s, id, c) /\ AcceptPending(s, id) THEN "granted"
  ELSE IF \E id \in ConnectionId : Owns(s, id, c) THEN "offered"
  ELSE IF awaiting[c][s] # NoPeer THEN "requested"
  ELSE "idle"

GrantedTo(c, s) ==
  IF \E id \in ConnectionId : Owns(s, id, c)
    THEN CHOOSE id \in ConnectionId : Owns(s, id, c)
    ELSE 0

Abstract == INSTANCE Handshake WITH
  stage <- [c \in Clients |-> [s \in Servers |-> StageOf(c, s)]],
  granted <- [c \in Clients |-> [s \in Servers |-> GrantedTo(c, s)]]

(***************************************************************************)
(* Packets, queues and polls implement the link by link handshake: every   *)
(* step of an endpoint is a stage of one link, or none.                    *)
(***************************************************************************)
ImplementsHandshake == Abstract!Spec
=============================================================================
