-------------------------- MODULE SampleInvariant ---------------------------
(***************************************************************************)
(* The inductive invariant behind the properties of Sample.                *)
(*                                                                         *)
(* Sample only restricts who acts when, so the invariants of Antarc hold   *)
(* of it.  What it adds: the two loops leave at most one thing to send,    *)
(* and whoever has it to send is also the one who has heard the other last.*)
(***************************************************************************)
EXTENDS Sample, AntarcSequences

OtherEnd(e) == Talk!Other(e)

Numbers(e) == {0} \cup {p.sequence : p \in {q \in network : q.src = e}}

\* n is the last sequence e has sent, 0 if it has sent nothing.
Latest(e, n) == n \in Numbers(e) /\ \A m \in Numbers(e) : m <= n

-----------------------------------------------------------------------------
(***************************************************************************)
(* Each loop by itself.                                                    *)
(***************************************************************************)

\* connect and schedule are called between polls, and connect by the client.
TurnsAlternate ==
  \A e \in Endpoint :
     /\ turn[e] # "poll" => phase[e] = "app"
     /\ turn[e] = "connect" => e = client

\* Of all that an end could have to send, it is at most one payload.
OneToSend ==
  \A e \in Endpoint :
     /\ Len(scheduled[e][1]) <= 1
     /\ \A q \in Queue \ {1} : scheduled[e][q] = <<>>
     /\ \A k \in SentKind : sent[e][k] = <<>>

\* The loop was drained before it waited, so an answer is all there is to say.
NothingLeft ==
  \A e \in Endpoint :
     turn[e] # "poll" \/ phase[e] = "poll" =>
        /\ scheduled[e][1] = <<>>
        /\ e = client => scheduledRequest[e] = <<>>

\* A poll that returns has heard something that can be answered.
CanAnswer ==
  \A e \in Endpoint :
     turn[e] = "schedule" \/ phase[e] = "poll" =>
        \/ ConnectedIds(e) # {}
        \/ e = server /\ scheduledAccepted[e] # <<>>

(***************************************************************************)
(* The reliability handler holds the request only from the moment it is    *)
(* sent to the end of the same poll, so it is not retried.                 *)
(***************************************************************************)
RequestTrace ==
  /\ phase[client] \in {"app", "retryData"} => sentRequest[client] = <<>>
  /\ phase[client] = "send" =>
       Len(sentRequest[client]) + Len(scheduledRequest[client]) <= 1
  /\ phase[client] = "poll" => Len(sentRequest[client]) <= 1

LoopInv == TurnsAlternate /\ OneToSend /\ NothingLeft /\ CanAnswer /\ RequestTrace

-----------------------------------------------------------------------------
(***************************************************************************)
(* The two loops together.                                                 *)
(***************************************************************************)

\* No payload is split and nobody calls heartbeat.
PlainPackets == \A p \in network : p.kind \notin {"Fragment", "Heartbeat"}

Live(e) == HasSomethingToSay(e) \/ flight[e] # <<>>

\* One word at a time: one end has it to say, or one end is about to hear it.
OneWord ==
  \A e \in Endpoint :
     /\ Len(flight[e]) <= 1
     /\ Live(e) => ~lost /\ ~Live(OtherEnd(e))
     /\ HasSomethingToSay(e) => flight[e] = <<>>

\* The word p can be answered when e hears it.
Answerable(e, p) ==
  /\ p.kind = "ConnectionRequest" =>
       e = server /\ \A id \in ConnectionId : Owner(e, id) = NoPeer
  /\ p.kind = "ConnectionAccepted" =>
       /\ e = client
       /\ awaiting[e][p.src] # NoPeer
       /\ requesting[e][p.src] = NoPeer
       /\ connected[e][p.id] = NoPeer

\* The word on its way is the last its sender said, and acks the last it heard.
WordsAreLast ==
  \A e \in Endpoint : \A p \in ToSet(flight[e]) :
     /\ p \in network
     /\ p.dst = e
     /\ p.src = OtherEnd(e)
     /\ Latest(p.src, p.sequence)
     /\ Latest(e, p.ack)
     /\ Answerable(e, p)

\* Whoever is to speak has acked the last word of the other.
SpeakerHasHeard ==
  \A e \in Endpoint : HasSomethingToSay(e) =>
     /\ \A id \in ConnectedIds(e) : Latest(OtherEnd(e), connected[e][id].remoteAck)
     /\ e = server => \A id \in ConnectionId :
          awaitingAck[e][id] # NoPeer => Latest(client, awaitingAck[e][id].remoteAck)

TalkInv == PlainPackets /\ OneWord /\ WordsAreLast /\ SpeakerHasHeard

(***************************************************************************)
(* The loops of the sample with what makes their properties inductive.     *)
(***************************************************************************)
SampleInv ==
  /\ SequenceInv
  /\ LinkInv
  /\ SampleTypeOK
  /\ LoopInv
  /\ TalkInv
=============================================================================
