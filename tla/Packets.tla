------------------------------ MODULE Packets ------------------------------
(***************************************************************************)
(* The data of antarc-protocol: packets on the wire, packets an endpoint   *)
(* has scheduled or sent, the peers it knows, and the events its poll      *)
(* hands to the application.                                               *)
(*                                                                         *)
(* Widths are constants so that TLC can reach the limits: SequenceLimit is *)
(* 2^32 - 1 (NonZeroU32), ConnectionIdLimit 2^16 - 1 (NonZeroU16) and      *)
(* FragmentModulus 2^8 (the u8 index and total of a fragment) in the code. *)
(***************************************************************************)
EXTENDS Integers, SequencesExt

CONSTANTS
  Clients,           \* socket addresses that run Protocol<Client>
  Servers,           \* socket addresses that run Protocol<Server>
  SequenceLimit,     \* largest Sequence
  ConnectionIdLimit, \* largest ConnectionId
  FragmentModulus,   \* number of values of a fragment's index and total
  NoPeer             \* what a map lookup that finds nothing returns

Endpoint == Clients \cup Servers
Sequence == 1 .. SequenceLimit
Ack == 0 .. SequenceLimit
ConnectionId == 1 .. ConnectionIdLimit
FragmentByte == 0 .. FragmentModulus - 1

\* A u64, counted by no arithmetic that could overflow in practice.
PacketId == Nat

Kind == {"ConnectionRequest", "ConnectionAccepted",
         "DataTransfer", "Fragment", "Heartbeat"}

(***************************************************************************)
(* One record for the five message types.  Only a connection request has   *)
(* no connection id (0 here).  packetId is the id of the call that scheduled  *)
(* the packet: it stays with the sender, and stands for the payload, which *)
(* is what that call was given.  A packet that is no fragment is part 0 of *)
(* 1, and one of the handshake has packetId 0.                             *)
(***************************************************************************)
Packet ==
  {p \in [kind : Kind, src : Endpoint, dst : Endpoint, sequence : Sequence,
          ack : Ack, id : 0 .. ConnectionIdLimit, packetId : PacketId,
          index : FragmentByte, total : FragmentByte] :
     p.kind = "ConnectionRequest" <=> p.id = 0}

\* Scheduled<_, DataTransfer | Fragment | Heartbeat>
Scheduled ==
  [id : ConnectionId, address : Endpoint, packetId : PacketId,
   index : FragmentByte, total : FragmentByte]

\* Packet<Sent, _>: what the reliability handler keeps, with its send time.
Sent == [packet : Packet, time : Nat]

Peer == [sequence : Sequence, remoteAck : Ack, localAck : Ack, address : Endpoint]

\* What the handshake schedules: no payload, and no id to a request.
HandshakeItem(id, address) ==
  [id |-> id, address |-> address, packetId |-> 0, index |-> 0, total |-> 1]

(***************************************************************************)
(* Peer::new.  await_connection_ack and connected keep the four fields and *)
(* only restamp the metadata, which nothing reads.                         *)
(***************************************************************************)
NewPeer(address, remoteAck) ==
  [sequence |-> 1, remoteAck |-> remoteAck, localAck |-> 0, address |-> address]

\* Acked gone wrong: the ack p carries is not read.
AckedUnread(peer, p) == [peer EXCEPT !.remoteAck = p.sequence]

\* Acked gone wrong: it acks the sequence expected next.
AckedNext(peer, p) == [peer EXCEPT !.remoteAck = p.sequence + 1, !.localAck = p.ack]

\* Acked gone wrong: the peer is made anew, and its sequence starts over.
AckedAnew(peer, p) == [NewPeer(peer.address, p.sequence) EXCEPT !.localAck = p.ack]

\* A peer that has seen p: both acks are overwritten, whatever they were.
Acked(peer, p) == [peer EXCEPT !.remoteAck = p.sequence, !.localAck = p.ack]

Part == [packetId : PacketId, index : FragmentByte]

\* A fragment waiting in a reassembler line, with its arrival time.
Received == [packetId : PacketId, index : FragmentByte, time : Nat]

Error == {"PeerInAnotherState", "NoPeersConnected", "InvalidPacketType"}

\* A failure tells whose packet failed, as PeerInAnotherState(address) does.
Event == [kind : {"DataTransfer"}, id : ConnectionId, parts : Seq(Part)]
           \cup [kind : {"Fail"}, error : Error, address : Endpoint]

Fail(error, p) == [kind |-> "Fail", error |-> error, address |-> p.src]

(***************************************************************************)
(* The widths leave room for the constants the code writes: Peer::new      *)
(* starts at sequence 1, the first connection id is 1, and a packet that   *)
(* is no fragment has total 1.                                             *)
(***************************************************************************)
ASSUME WidthAssumption ==
  /\ SequenceLimit \in Nat \ {0}
  /\ ConnectionIdLimit \in Nat \ {0}
  /\ FragmentModulus \in Nat \ {0, 1}

\* A socket address runs one of the two services.
ASSUME EndpointAssumption == Clients \cap Servers = {}

ASSUME NoPeerAssumption == NoPeer \notin Peer
=============================================================================
