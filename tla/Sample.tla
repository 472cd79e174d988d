------------------------------- MODULE Sample -------------------------------
(***************************************************************************)
(* antarc-sample: a client that has asked for its connection and a server, *)
(* each in a thread that loops over poll and schedule, on one host.        *)
(*                                                                         *)
(* Loopback UDP keeps the order of what one socket sends another and       *)
(* repeats nothing, but a full receive buffer loses: each end has a queue  *)
(* of datagrams, which recv_from empties from the front.                   *)
(***************************************************************************)
EXTENDS Antarc

CONSTANTS client, server

\* One thread of each kind.
ASSUME ThreadsAssumption == Clients = {client} /\ Servers = {server}

\* What both threads schedule: one chunk, unreliable.
ASSUME PayloadAssumption == 1 \in FragmentTotals /\ 1 \in AppLists

VARIABLES
  turn,    \* what each thread does next: connect, poll or schedule
  flight,  \* the datagrams waiting for each end
  lost     \* whether one has been lost

sampleVars == <<vars, turn, flight, lost>>

Turn == {"connect", "poll", "schedule"}

SampleTypeOK ==
  /\ TypeOK
  /\ turn \in [Endpoint -> Turn]
  /\ flight \in [Endpoint -> Seq(Packet)]
  /\ lost \in BOOLEAN

SampleInit ==
  /\ Init
  /\ turn = [e \in Endpoint |-> IF e = client THEN "connect" ELSE "poll"]
  /\ flight = [e \in Endpoint |-> <<>>]
  /\ lost = FALSE

Turns(e, next) == turn' = [turn EXCEPT ![e] = next]

\* What this step gave to send_to joins the queue of its destination.
Carry ==
  flight' = [e \in Endpoint |->
               flight[e] \o SetToSeq({p \in network' \ network : p.dst = e})]

\* client.connect, before the threads are spawned.
AskForConnection ==
  /\ turn[client] = "connect"
  /\ Connect(client, server)
  /\ Turns(client, "poll")
  /\ UNCHANGED <<serverVars, flight, lost>>

\* A step of poll; the application's turn comes when poll returns.
Poll(e) ==
  /\ turn[e] = "poll"
  /\ \/ e = client /\ ClientPolls(client) /\ UNCHANGED serverVars
     \/ e = server /\ ServerPolls(server) /\ UNCHANGED clientVars
  /\ Turns(e, IF phase[e] = "poll" THEN "schedule" ELSE "poll")
  /\ Carry
  /\ UNCHANGED lost

\* recv_from returns the datagram that has waited longest.
Arrive(e) ==
  /\ flight[e] # <<>>
  /\ \/ e = client /\ ClientReceive(client, Head(flight[e])) /\ UNCHANGED serverVars
     \/ e = server /\ ServerReceive(server, Head(flight[e])) /\ UNCHANGED clientVars
  /\ flight' = [flight EXCEPT ![e] = Tail(@)]
  /\ UNCHANGED <<turn, lost>>

\* ScheduleBroadcast gone wrong: the payload is scheduled twice.
ScheduleBroadcastTwice(e) ==
  /\ turn[e] = "schedule"
  /\ Turns(e, "poll")
  /\ IF ConnectedIds(e) = {} THEN UNCHANGED protocolVars
     ELSE /\ MaySchedule(e)
          /\ \E ids \in SetToSeqs(ConnectedIds(e)) :
               Enqueue(e, 1, Batch(e, ids, 1) \o Batch(e, ids, 1))
  /\ UNCHANGED <<clientVars, serverVars, flight, lost>>

\* ScheduleBroadcast gone wrong: the server waits to be asked.
ScheduleBroadcastClient(e) ==
  /\ turn[e] = "schedule"
  /\ Turns(e, "poll")
  /\ IF ConnectedIds(e) = {} \/ e = server THEN UNCHANGED protocolVars
     ELSE /\ MaySchedule(e)
          /\ \E ids \in SetToSeqs(ConnectedIds(e)) : Enqueue(e, 1, Batch(e, ids, 1))
  /\ UNCHANGED <<clientVars, serverVars, flight, lost>>

(***************************************************************************)
(* schedule_client and schedule_server: an unreliable broadcast of two     *)
(* bytes; the Err of an end without connections is only logged.            *)
(***************************************************************************)
ScheduleBroadcast(e) ==
  /\ turn[e] = "schedule"
  /\ Turns(e, "poll")
  /\ IF ConnectedIds(e) = {} THEN UNCHANGED protocolVars
     ELSE /\ MaySchedule(e)
          /\ \E ids \in SetToSeqs(ConnectedIds(e)) : Enqueue(e, 1, Batch(e, ids, 1))
  /\ UNCHANGED <<clientVars, serverVars, flight, lost>>

\* The longest waiting datagram was dropped before it was read.
Lose(e) ==
  /\ flight[e] # <<>>
  /\ flight' = [flight EXCEPT ![e] = Tail(@)]
  /\ lost' = TRUE
  /\ UNCHANGED <<vars, turn>>

TimePasses(e) == Tick(e) /\ UNCHANGED <<clientVars, serverVars, turn, flight, lost>>

SampleNext ==
  \/ AskForConnection
  \/ \E e \in Endpoint :
       Poll(e) \/ Arrive(e) \/ ScheduleBroadcast(e) \/ Lose(e) \/ TimePasses(e)

(***************************************************************************)
(* Both threads run, and a datagram that is not lost is read in the end.   *)
(* Nothing is assumed of time or of loss.                                  *)
(***************************************************************************)
SampleSpec ==
  /\ SampleInit
  /\ [][SampleNext]_sampleVars
  /\ WF_sampleVars(AskForConnection)
  /\ \A e \in Endpoint : /\ WF_sampleVars(Poll(e))
                         /\ WF_sampleVars(Arrive(e))
                         /\ WF_sampleVars(ScheduleBroadcast(e))

-----------------------------------------------------------------------------
\* The last sequence e has sent to anyone, 0 if it has sent nothing.
LastSent(e) == Max({0} \cup {p.sequence : p \in {q \in network : q.src = e}})

(***************************************************************************)
(* The trackers of the two ends are in step: whatever is on its way to an  *)
(* end acks the very last packet that end has sent, although each ack      *)
(* passes three maps, and only the handler of one packet writes it.        *)
(***************************************************************************)
EveryPacketAcksTheLast ==
  \A e \in Endpoint : \A p \in ToSet(flight[e]) : p.ack = LastSent(e)

(***************************************************************************)
(* One lost datagram is the end: poll blocks in recv_from, nothing wakes   *)
(* it, and no end sends anything any more, whatever time passes.           *)
(***************************************************************************)
NothingAfterLoss == [][lost => UNCHANGED network]_network

(***************************************************************************)
(* Short of a loss the two loops never wait for each other: they talk on   *)
(* until a sequence is used up.                                            *)
(***************************************************************************)
TalksOn == <>(lost \/ \E e \in Endpoint : phase[e] \in Stopped)

\* e will send without hearing anything first.
HasSomethingToSay(e) ==
  \/ turn[e] \in {"connect", "schedule"}
  \/ phase[e] = "poll"
  \/ phase[e] \notin Stopped /\ \E q \in Queue : scheduled[e][q] # <<>>
  \/ e = client /\ phase[e] \notin Stopped /\ scheduledRequest[e] # <<>>
  \/ e = server /\ phase[e] \notin Stopped /\ scheduledAccepted[e] # <<>>

Talk == INSTANCE Exchange WITH
  speaker <- {e \in Endpoint : HasSomethingToSay(e)},
  flying <- [e \in Endpoint |-> Len(flight[e])]

(***************************************************************************)
(* The loops implement the exchange: one end at a time has something to    *)
(* say, never are two datagrams on their way, and hearing is what makes an *)
(* end speak, in the handshake as well as after it.                        *)
(***************************************************************************)
ImplementsExchange == Talk!Spec
=============================================================================
