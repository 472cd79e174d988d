--------------------------- MODULE DummyInvariant ---------------------------
(***************************************************************************)
(* The inductive invariant behind the properties of Dummy.                 *)
(*                                                                         *)
(* A step of Dummy that handles a batch ends no poll, so it is no step of  *)
(* Antarc, and the invariants of Antarc are not known to hold here.  What  *)
(* makes the handshake work instead is order: the first packet either way  *)
(* is of the handshake, and each end handles the other's one by one.       *)
(***************************************************************************)
EXTENDS Dummy

Running(e) == phase[e] \notin Stopped

\* How many packets were ever sent to e.
SentTo(e) == Cardinality({p \in network : p.dst = e})

\* The peer e knows as 1, the only id there is, if it has one to answer.
Partner(e) ==
  IF connected[e][1] # NoPeer THEN connected[e][1]
  ELSE IF e = client THEN awaiting[e][server]
  ELSE awaitingAck[e][1]

\* The last packet e has handled: a client that is not connected has handled none.
LastHandled(e) ==
  IF connected[e][1] # NoPeer THEN connected[e][1].remoteAck
  ELSE IF e = server /\ awaitingAck[e][1] # NoPeer THEN awaitingAck[e][1].remoteAck
  ELSE 0

-----------------------------------------------------------------------------
\* The loops connect, beat and swap between two polls, with no batch left over.
BatchIsHandled ==
  \A e \in Endpoint : turn[e] # "poll" => phase[e] = "app" /\ inbox[e] = <<>>

\* There is one link, so one id.
OneLink ==
  \A e \in Endpoint, id \in ConnectionId :
     /\ connected[e][id] # NoPeer => id = 1 /\ connected[e][id].address = Other(e)
     /\ e = server /\ awaitingAck[e][id] # NoPeer =>
          id = 1 /\ awaitingAck[e][id].address = client /\ connected[e][id] = NoPeer

(***************************************************************************)
(* How far the handshake is follows from what was sent.  What has stopped  *)
(* the client may be the request itself, which went out all the same.      *)
(***************************************************************************)
ClientStage ==
  /\ \A peer \in {requesting[client][server], awaiting[client][server]} :
       peer # NoPeer => peer.address = server
  /\ requesting[client][server] # NoPeer /\ Running(client) =>
       SentTo(server) = 0 /\ requesting[client][server].sequence = 1
  /\ Running(client) =>
       /\ scheduledRequest[client] =
            IF requesting[client][server] = NoPeer THEN <<>> ELSE <<server>>
       /\ Partner(client) = NoPeer <=> SentTo(server) = 0
  /\ connected[client][1] # NoPeer =>
       /\ awaiting[client][server] = NoPeer
       /\ SentTo(server) > 0
       /\ SentTo(client) > 0
  /\ sentRequest[client] # <<>> =>
       /\ phase[client] \notin {"app", "retryData"}
       /\ Len(sentRequest[client]) = 1
       /\ SentTo(server) > 0

ServerStage ==
  /\ Partner(server) = NoPeer =>
       /\ SentTo(client) = 0
       /\ connectionIdTracker[server] = 1
       /\ scheduledAccepted[server] = <<>>
  /\ Partner(server) # NoPeer => SentTo(server) > 0
  /\ scheduledAccepted[server] # <<>> =>
       /\ scheduledAccepted[server] = << [id |-> 1, address |-> client] >>
       /\ SentTo(client) = 0
  /\ connected[server][1] # NoPeer => SentTo(client) > 0
  /\ sentAccepted[server] # <<>> =>
       /\ phase[server] \notin {"app", "retryData", "retryFragment"}
       /\ Len(sentAccepted[server]) = 1
       /\ SentTo(client) > 0

\* Nothing is scheduled or kept but heartbeats to the one peer there is.
OnlyHeartbeats ==
  \A e \in Endpoint :
     /\ api[e] = <<>>
     /\ \A kind \in {"DataTransfer", "Fragment"} : sent[e][kind] = <<>>
     /\ \A q \in Queue : \A i \in DOMAIN scheduled[e][q] :
          /\ DrainOrder[q].kind = "Heartbeat"
          /\ scheduled[e][q][i].id = 1
          /\ scheduled[e][q][i].address = Other(e)
          /\ connected[e][1] # NoPeer

\* What each packet is follows from its number, and each number is used once.
PacketsNumbered ==
  /\ IsFiniteSet(network)
  /\ \A p \in network :
       /\ p.dst = Other(p.src)
       /\ p.sequence <= SentTo(p.dst)
       /\ p.kind = (IF p.sequence > 1 THEN "Heartbeat"
                    ELSE IF p.src = client THEN "ConnectionRequest"
                    ELSE "ConnectionAccepted")
       /\ p.id = IF p.kind = "ConnectionRequest" THEN 0 ELSE 1
       /\ p.sequence > 1 => connected[p.src][1] # NoPeer
  /\ \A e \in Endpoint : Running(e) /\ Partner(e) # NoPeer =>
       Partner(e).sequence = SentTo(Other(e)) + 1

\* What waits for an end is what was sent to it after the last it has handled.
NextInOrder ==
  \A e \in Endpoint : Running(e) =>
     /\ Partner(e) # NoPeer /\ (e = client => connected[e][1] # NoPeer) =>
          LastHandled(e) > 0
     /\ \A i \in DOMAIN Pending(e) :
          /\ Pending(e)[i] \in network
          /\ Pending(e)[i].dst = e
          /\ Pending(e)[i].sequence = LastHandled(e) + i
     /\ LastHandled(e) + Len(Pending(e)) = SentTo(e)

(***************************************************************************)
(* One link over batches, with what makes its properties inductive.        *)
(***************************************************************************)
DummyInv ==
  /\ DummyTypeOK
  /\ BatchIsHandled
  /\ OneLink
  /\ ClientStage
  /\ ServerStage
  /\ OnlyHeartbeats
  /\ PacketsNumbered
  /\ NextInOrder
=============================================================================
