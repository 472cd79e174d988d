-------------------------- MODULE AntarcSequences --------------------------
(***************************************************************************)
(* What a peer's sequence says of the packets sent to it: three inductive  *)
(* invariants of Antarc, on top of the first two.  SequenceInv makes a     *)
(* sequence identify a packet, DeliveryInv with that a reassembler line    *)
(* hold the parts of one payload, and GroupInv one payload have one        *)
(* sequence.                                                               *)
(***************************************************************************)
EXTENDS AntarcTrackers

FragmentQueue == {q \in Queue : DrainOrder[q].kind = "Fragment"}

\* A fragment a list holds is followed, for the same peer, by the last of its
\* group, and by no other group before that.
GroupsEnd(list) ==
  \A i \in DOMAIN list : \E j \in DOMAIN list :
     /\ i <= j
     /\ list[j].id = list[i].id
     /\ list[j].index = (list[j].total - 1) % FragmentModulus
     /\ \A k \in i .. j :
          list[k].id = list[i].id => list[k].packetId = list[i].packetId

\* The next packet e sends to the peer of this id is a fragment of the group.
Due(e, id, packetId) ==
  /\ phase[e] = "send"
  /\ \E q \in FragmentQueue :
       /\ \A before \in 1 .. q - 1 : scheduled[e][before] = <<>>
       /\ \E i \in DOMAIN scheduled[e][q] :
            /\ scheduled[e][q][i].id = id
            /\ \A k \in 1 .. i :
                 scheduled[e][q][k].id = id => scheduled[e][q][k].packetId = packetId

Below(p, peer) == p.dst = peer.address => p.sequence < peer.sequence

\* Every packet to a peer is below its sequence, or is part of the group whose
\* next part is due.
Fits(e, p) ==
  /\ \A id \in ConnectedIds(e) :
       \/ Below(p, connected[e][id])
       \/ /\ p.kind = "Fragment"
          /\ p.sequence = connected[e][id].sequence
          /\ Due(e, id, p.packetId)
  /\ e \in Clients => \A a \in Endpoint :
       awaiting[e][a] # NoPeer => Below(p, awaiting[e][a])
  /\ e \in Servers => \A id \in ConnectionId :
       awaitingAck[e][id] # NoPeer => Below(p, awaitingAck[e][id])

\* The groups in the lists of fragments are whole, or what is left of them.
GroupsAreQueued == \A e \in Endpoint, q \in FragmentQueue : GroupsEnd(scheduled[e][q])

(***************************************************************************)
(* The sequence a peer has is free for the packet it is put on next, as    *)
(* long as its endpoint runs: whatever was sent to it before is below, but *)
(* for the parts of a group that is on its way out, of which another part  *)
(* is next.                                                                *)
(***************************************************************************)
SequencesAreFree == \A p \in network : phase[p.src] \notin Stopped => Fits(p.src, p)

SequencesFit == GroupsAreQueued /\ SequencesAreFree

SequenceInv == TrackerInv /\ SequencesFit /\ SequenceIdentifiesPacket

-----------------------------------------------------------------------------
(***************************************************************************)
(* A line of the reassembler holds fragments that its peer sent under the  *)
(* sequence of the line, although a fragment finds its peer by the id it   *)
(* claims: as a sequence identifies a group, parts of one payload.         *)
(***************************************************************************)
LinesAreOfPeer ==
  \A e \in Endpoint, id \in ConnectionId, n \in Sequence :
     LET line == reassembler[e][id][n]
     IN  \A k \in DOMAIN line :
            /\ connected[e][id] # NoPeer
            /\ \E p \in network :
                 /\ p.kind = "Fragment"
                 /\ p.src = connected[e][id].address
                 /\ p.dst = e
                 /\ p.id = id
                 /\ p.sequence = n
                 /\ p.packetId = line[k].packetId
                 /\ p.index = line[k].index

DeliveryInv == SequenceInv /\ LinesAreOfPeer /\ EventsComeFromPeer

-----------------------------------------------------------------------------
(***************************************************************************)
(* Why a group has one sequence, as long as a byte counts its chunks.      *)
(***************************************************************************)
ChunksFit == \A total \in FragmentTotals : total <= FragmentModulus

\* No part of a group is queued behind the one that ends it.
LastPartsAreLast(list) ==
  \A i, j \in DOMAIN list :
     i < j /\ list[i].id = list[j].id /\ list[i].packetId = list[j].packetId =>
        list[i].index # (list[i].total - 1) % FragmentModulus

LastPartsEnd == \A e \in Endpoint, q \in FragmentQueue : LastPartsAreLast(scheduled[e][q])

\* A fragment has the id of a call that was made.
CallsAreNumbered ==
  /\ \A p \in network : p.kind = "Fragment" => p.packetId < packetIdTracker[p.src]
  /\ \A e \in Endpoint, q \in FragmentQueue : \A item \in ToSet(scheduled[e][q]) :
       item.packetId < packetIdTracker[e]

\* A call filled one list.
OneListPerCall ==
  \A e \in Endpoint, q, l \in FragmentQueue :
     \A x \in ToSet(scheduled[e][q]), y \in ToSet(scheduled[e][l]) :
        x.packetId = y.packetId => q = l

\* The parts of a group that are queued still have the sequence of those sent.
QueuedPartsShare ==
  \A p \in network : p.kind = "Fragment" /\ phase[p.src] \notin Stopped =>
     \A q \in FragmentQueue : \A item \in ToSet(scheduled[p.src][q]) :
        item.id = p.id /\ item.packetId = p.packetId =>
           p.sequence = connected[p.src][p.id].sequence

(***************************************************************************)
(* While parts of a group wait for their turn, its peer's sequence is that *)
(* of the parts that are gone, and none waits behind the last.             *)
(***************************************************************************)
GroupsStayTogether ==
  LastPartsEnd /\ CallsAreNumbered /\ OneListPerCall /\ QueuedPartsShare

GroupInv == SequenceInv /\ GroupsStayTogether /\ GroupSharesSequence
=============================================================================
