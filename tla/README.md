# antarc in TLA+

antarc is a small connection protocol over UDP: a *client* asks a *server* for a
connection, the server grants it a connection id, and from then on both sides
exchange data transfers, fragments of large payloads and heartbeats, reliably or
not. This directory holds a model of it in TLA+, the configurations with which
TLC checks the model on small instances, and theorems about it that TLAPS proves
for every number of clients, servers and packets.

## 1. Inventory

| Component | Source | State | Operations |
|---|---|---|---|
| Protocol core | `antarc-protocol/src/lib.rs`, `scheduler.rs`, `reliability.rs` | `packet_id_tracker`, six scheduled lists, three sent lists, `reliable_ttl`, timer | `schedule`, `heartbeat`, `create_*`, `sent_*`, `retry_*`, `poll` |
| Peers and packets | `peers.rs`, `packets/*` | sequence tracker, two ack trackers, address, reassembler lines | `Peer::new`, `await_connection_ack`, `connected`, `poll`; `From<Vec<Fragment>>` |
| Client service | `client.rs`, `client/service.rs` | `requesting_connection`, `awaiting_connection_ack` (by address), `connected` (by id), scheduled and sent requests | `connect`, `create_`/`sent_`/`resend_connection_request`, `on_received` |
| Server service | `server.rs`, `server/service.rs` | `awaiting_connection_ack`, `connected` (by id), `connection_id_tracker`, scheduled and sent accepts | `on_received`, `accept_connection`, `create_`/`sent_`/`retry_connection_accepted` |
| UDP driver | `antarc/src/{lib,client,server}.rs` | socket | `poll`: retries, then every scheduled list in a fixed order, then one blocking `recv_from`, then the handlers |
| Codec | `packets/{raw,encode,decode,packet_type}.rs` | none | `as_raw`, `decode`; the cutting of payloads in `schedule_helper` |
| Sample | `antarc-sample/src/main.rs` | whose turn it is | two threads that loop over `poll` and `schedule` |
| Dummy network | `antarc-dummy/src/lib.rs`, `antarc-dummy-sample/src/main.rs` | `dummy_sender`, `dummy_receiver`, two channels | `poll` without a socket; two threads that loop over `poll`, `heartbeat`, `send`, `try_recv` (commented out of the workspace) |
| Other | `antarc-macro`, benches, `connection.rs`, `header.rs`, `payload.rs` | | derive macros; code outside the build |

**Interaction.** An endpoint is single threaded and shares nothing: endpoints
talk by packets only. Within an endpoint the application calls `connect`,
`schedule` and `heartbeat` between two polls. These fill lists; the next `poll`
drains them, creating each packet from the peer it looks up *then*, and records
the send. One received packet ends the poll.

**What is hard.**
- UDP loses, repeats and reorders. Every arm of `on_received` may move a peer
  from one map to another, and does so on whichever packet comes first.
- The two sides key their maps differently (the client by address before it is
  connected, by id after), and the id is chosen by each server alone.
- Lookups made when a call is scheduled are repeated, with `expect`, when its
  packet is created.
- Retry, time to live and the poll that removes packets all edit one list.
- A group of fragments shares one sequence, which is also its reassembly key.
- Sequences and ids are bounded, and running out of them panics. A fragment's
  index and total are a byte each.
- `poll` blocks in `recv_from`: whoever waits for a lost packet waits for ever.
- The two threads of the dummy network never agree on a turn; batches are copied,
  replaced and cleared in between.
- Each message layout is written twice, once to encode and once to decode, and
  the protocol id is checksummed but not sent.

**What makes it right**, component by component:
- *handshake*: one id per client and server, the same on both sides; one state
  per address; no side connected alone; a connection lasts; every request is
  answered if the network lets it;
- *core*: scheduled packets can always be created; a sequence names one packet or
  one group; acks are of packets that were sent; reliable packets stay until
  acked, retried or expired;
- *reassembly*: a payload delivered is one payload, whole; only expired lines go;
- *events*: what is delivered was sent by the peer it is delivered for;
- *codec*: decoding undoes encoding; a damaged or foreign datagram is no packet;
  no datagram is larger than `MAX_FRAGMENT_SIZE`;
- *sample*: short of a loss the loops never wait for each other, and each packet
  acks the last one;
- *dummy network*: nothing is lost, repeated or reordered, and all is handled.

`PROJECT.json` lists the hazards, each at its line, with the property for it.

## 2. Modules

```
Packets   data: widths, packets, peers, events
  Protocol   the core both services share, and the phases of a poll
    Client     Protocol<Client>, AntarcNet<Client>
    Server     Protocol<Server>, AntarcNet<Server>
      Antarc     clients and servers over the network; the properties
        AntarcInvariant   the first inductive invariant: who is connected to whom
          AntarcTrackers    the second: what the trackers say of the packets sent
            AntarcSequences     three more: sequences are free, lines their peer's, groups whole
              MCAntarc              root module of most TLC runs
              AntarcSequenceProofs  proof: a sequence identifies a payload, which has
                                      but one and comes from who it is said to be from
            AntarcTrackerProofs proof: the second invariant and what follows
          AntarcProofs      proof: the first invariant and what follows
            AntarcRefinement    proof: Antarc implements Handshake
        AntarcTypes       proof: types
        Sample            the two loops of antarc-sample, one host, no reordering
          SampleInvariant   the invariant of the two loops; with AntarcSequences
            SampleProofs      proof: Sample implements Antarc and Exchange
        Dummy             the two loops of antarc-dummy-sample, batches, no socket
          DummyInvariant    the invariant of the two loops
            DummyProofs       proof: one link over batches; with AntarcTypes
Handshake   the abstract handshake, which Antarc implements
Exchange    the abstract exchange of one word, which Sample implements
Codec       bytes: encoding, damage, decoding, the size of chunks
  CodecProofs proof: the codec
  MCCodec     root module of the codec's run
```

How the state corresponds:

| Variable | Code |
|---|---|
| `phase[e]` | where `poll` of `antarc/src/client.rs` or `server.rs` is; `app` between polls; `expect`, `unwrap`, `exhausted` after a panic |
| `connected`, `reassembler` | `connected` and its peers' `Connected::reassembler` |
| `scheduled[e][q]` | the six lists of `Scheduler`, numbered in the order `poll` drains them |
| `sent[e][kind]` | the three lists of `ReliabilityHandler` |
| `requesting`, `awaiting`, `scheduledRequest`, `sentRequest` | the client's maps and lists |
| `awaitingAck`, `connectionIdTracker`, `scheduledAccepted`, `sentAccepted` | the server's maps and lists |
| `api` | events not yet drained by `poll` |
| `clock[e]` | `timer.elapsed()` |
| `network` | every packet ever given to `send_to` |
| `turn` (Sample, Dummy) | where the thread's loop is: `connect`, `poll`, then `schedule`, or the two heartbeats, `send` and `try_recv` |
| `flight`, `lost` (Sample) | the receive buffers of the two sockets; whether one has dropped a datagram |
| `outbox`, `inbox`, `channel` (Dummy) | `dummy_sender`, `dummy_receiver`, the two `mpsc::channel`s |
| `packet`, `origin`, `datagram`, `spoiled`, `role`, `result` (Codec) | the argument of `as_raw` and the program that calls it, its result on the wire, whether a byte changed, the service that decodes, what `decode` returns |

The model's steps are one application call, one retry, one packet sent, one packet received
with the whole of its handler, or the end of a poll. Since endpoints share no
memory, packets are the only way they affect one another, and each step has at
most one packet operation, so nothing finer could be observed. `network` only
grows: a packet in it may be received any number of times, in any order, or
never, which is loss, repetition and reordering at once. `packetId` stands for a payload
(the call that scheduled it). `Peer` leaves out the connection metadata, which
no code reads. A server's `requesting_connection` is filled and emptied within
one `on_received` and is not a variable; `ban_list` is never filled. A panic
takes the endpoint's memory with it, so what the panicking call had written
before is left out where no one could see it.

`Handshake` tells the story of one link (client, server) in seven stages, and
what a grant and an opening may not do: give an id that another link of the
server has, or open two links of one client under one id. `Antarc!Abstract`
maps a link's stage from six maps and a list of two endpoints.

`Sample` and `Dummy` add to `Antarc` what its `Next` leaves open: when the
application calls what, and how a packet travels. In `Sample` the sockets of one
host keep the order and repeat nothing, but may drop, and the loops schedule one
unreliable broadcast a turn. In `Dummy` a poll takes what is in `dummy_receiver`
without blocking, and a turn swaps one batch. Both use the steps of `Client`
and `Server` as they are; a receive of `Dummy` is the handler alone, without the
socket and the end of the poll that follow it there. `Exchange` is what the loops of `Sample` amount to: one end
speaks once, then listens. An end maps to the speaker when it will send
without hearing anything first (`HasSomethingToSay`).

`Codec` gives bytes to one packet. A byte has `Radix` values, 7 in the run, and
every width in bytes is the code's. The CRC-32 of the library is a remainder of polynomials over
those values, of degree 4 with a constant term: like the real one it notices every change
of one byte and takes every value, which is all the properties use. A datagram has one
fault, a changed byte or the protocol id of another program, so what a CRC may miss (two faults
that cancel) is not asked.

## 3. Runs

The runs of this section use `MCAntarc` except `Sample` (`SampleInvariant`), `Dummy` (`DummyInvariant`) and `Codec` (`MCCodec`). Clients and servers are model values. Widths are small:
`SequenceLimit` 3 or 5 (more in `Sample` and `Dummy`), `ConnectionIdLimit` one more than the clients need: the
last id is the one whose grant panics, which no run comes to and the theorems cover. `FragmentModulus` is 4. `MaxPacketId` bounds the
application's calls of an endpoint, `MaxClock` the readings of its timer (with the
thresholds 1, one reading is before and one after each of them). The
application's input is the number of chunks of its payloads and the lists it
fills (`FragmentTotals`, `AppLists`). No symmetry is used.

| Run | Question | Bounds |
|---|---|---|
| `Handshake2x1` | Is the handshake safe, does it refine `Handshake`, does every connect succeed? | 2 clients, 1 server, 3 ids, unreliable data and heartbeats, 2 calls each: a connect and one more; with fairness |
| `TwoServers1x2` | Does it stay safe when two servers grant one id? Is what the refinement proof needs an invariant? | 1 client, 2 servers, data (empty payloads too), 3 calls, so the client can connect to both and try again |
| `Transfer1x1` | Do sequences, groups and acks mean what they should, up to the last sequence? Do the inductive invariants behind that hold, and are lines their peer's? | 1+1, reliable data, reliable groups of two fragments, heartbeats, retries, 3 sequences, 3 calls, 2 readings of the clock |
| `Sample` | What do the two loops do, with and without a loss? Is their invariant one? | 1+1, 8 sequences, every moment of a loss, time passes |
| `Dummy` | Do batches between free running threads keep the protocol's order, and is all handled? Is the invariant behind it one? | 1+1, 17 sequences, at most 2 batches behind (`MaxLag`) |
| `Codec` | Do encoder and decoder agree, and is damage noticed? | every message type, first, middle and last value of each field, payloads up to 7 chunks (whose total wraps to 0), each byte of each datagram changed to each other value |

A panic stops an endpoint and `recv_from` may block for ever, so deadlock is not
an error in these runs. An empty network with an empty poll is where the program
itself waits.

Six runs show what the code does against its own comments; `PROJECT.json`
quotes them under "findings":

| Run | Shows |
|---|---|
| `ResendRequest` | a connection request sent again panics in `sent_connection_request` |
| `ReliableTtl` | a reliable packet is forgotten by the next poll, whatever its ttl |
| `ClientEvents` | a connected client loses the data transfers it receives |
| `GroupPayload` | the last fragment to arrive is left out of the payload, and duplicates count |
| `ReassemblerPoll` | the server drops fresh lines and keeps expired ones |
| `WideGroup` | a payload of more chunks than a byte counts ends its group early, and its parts go out under two sequences |

Met while modelling, and not run: `retry_reliable_heartbeat` has no caller and no poll
looks at the sent heartbeats, so they pile up; nor does a client's `poll` look at
its reassembler lines. The services' own `poll` has the removal test that `ReliableTtl`
refutes, so a sent accept, which `poll_retry_connection_accepted` is there to send again, is
forgotten by the poll that sent it. `inner_decode` compares the protocol id it has itself put into
the buffer, so `InvalidProtocolId` is never returned. And `as_raw` asserts that no
checksum is 0, a value any CRC takes.

These do not weaken the passing runs: each property there holds with the code as
it is, and none asks for what these find wrong. One conjunct of `TrackerInv`, `AcceptTrace`, records
where the sent accepts go in the code as it is; the proofs need it and nothing is promised by it.

Every property of a passing run has a mutant (an operator named for what went
wrong, placed before the definition it would replace): the property fails when
the mutant replaces the code's definition.

**Fairness** (`Handshake2x1`, `Sample` and `Dummy`). In `Handshake2x1`: weak fairness of each endpoint's own poll
steps: a poll does not stop until `recv_from`, and the loops of the sample
always poll again. Strong fairness of the arrival of requests and accepts, that
is an assumption on the network, not on the code: a handshake packet is not lost
for good while its receiver keeps coming back to `recv_from`. The code itself
sends a request once (a retry panics, see above) and an accept once (it
is forgotten, see above), so without that assumption nothing can be promised, and
`Connects` shows only that no refusal, competing client or map lookup strands a
client. Receiving other packets is not assumed.

`Sample` has weak fairness of each thread's steps and of the arrival of what is
in a receive buffer: the loops never end and the operating system hands over
what it has. A datagram may be lost instead (`Lose`), the choice is free, and `TalksOn` says what
follows without a loss, `NothingAfterLoss` what follows with one. `Dummy` has weak
fairness of each thread only: no step of theirs blocks. `SendBatch` waits at `MaxLag`
batches while the other thread runs, which the code does not, so `EverythingHeard` is a statement about threads
that are at most that far apart; once the other has stopped, what is sent to it is dropped, as the code
drops the `Err` of `send`. `EverythingHeard` says that each end handles the other's packets one by one,
through the handshake and on to `LastInTime`, with no way out. A thread of the run stops when its
sequences are used up, and then handles nothing more, so the last packets are excluded: as many as the other
thread may be behind. The thread that is ahead is `MaxLag` batches of two
heartbeats ahead at most; four more turns are allowed for while the other is not yet connected and
for what is in the boxes. A batch lost, skipped or left in its channel at any turn before that violates it.

## 4. Proofs

`AntarcTypes`, `AntarcProofs`, `AntarcTrackerProofs`, `AntarcSequenceProofs`,
`AntarcRefinement`, `SampleProofs`, `DummyProofs` and `CodecProofs` are
checked by TLAPS, for every value of the constants. They assume only what the modules state as ASSUME: the widths hold
the constants the code starts from, no address is both a client and a server,
`NoPeer` is no peer, and the bounds are numbers; in `Sample`, that the application calls what both threads of it
call: `schedule`, unreliably, with a payload of one chunk (`PayloadAssumption`); in `Dummy`, that there
is one thread of each kind and `MaxLag` is not 0; in `Codec`, that
the inputs fit their fields, `MAX_FRAGMENT_SIZE` is above the header, the two protocol ids
differ, and no multiple of the generator's constant term vanishes (`CodecAssumption`: of a prime `Radix`
that is any term but 0, of 256 any odd one). TLC evaluates them on each run.

- `TypeCorrect`: `Spec => []TypeOK`. Not a formality here: it says that no sequence or
  id leaves its width, since the increments that would do so panic, and
  that every lookup that is dereferenced found a peer.
- `Inductive`: `Spec => []IInv`, from which `UniqueIdsHolds`, `IdsAgreeHolds`,
  `EstablishedHolds`, `OneStateHolds` and `CreateHolds` follow.
- `TrackersInductive`: `Spec => []TrackerInv`, from which `AcksHold`
  and `EstablishedByAckHolds` follow.
- `SequencesInductive`: `Spec => []SequenceInv`, from which `SequencesFitHolds` and
  `SequenceIdentifiesHolds` follow.
- `GroupsInductive`: `Spec => []GroupInv`, from which `GroupsStayHolds` and
  `GroupSharesHolds` follow, if no payload has more chunks than a byte counts (`ChunksFit`).
- `DeliveryInductive`: `Spec => []DeliveryInv`, from which `LinesHold` and `EventsHold`
  follow.
- `PersistHolds`: `Spec => ConnectionsPersist`, an action property, step by step
  from `IInv`.
- `HandshakeRefined`: `Spec => ImplementsHandshake`, if there are two sequences at
  least, and `LinksHold`: `Spec => []LinkInv`, what it needs besides `IInv`.
- `SampleImplementsAntarc`: `SampleSpec => Spec`, so what is proved of `Antarc` is
  proved of the sample.
- `SampleInductive`: `SampleSpec => []SampleInv`, from which `SampleTypeCorrect`,
  `EveryPacketAcksTheLastHolds`, `NothingAfterLossHolds` (an action property) and
  `ExchangeRefined` (`SampleSpec => ImplementsExchange`) follow; all five if there are
  two sequences at least.
- `DummyInductive`: `DummySpec => []DummyInv`, from which `DummyTypeCorrect`,
  `InOrderOnceHolds` and `NothingRefusedHolds` follow.
- `CodecInductive`: `CodecSpec => []CodecInv`, from which `CodecTypeCorrect`, `RoundTripHolds`,
  `OnlyWhatWasSentHolds` and `DatagramFitsHolds` follow.

None of the safety properties is inductive. `IdsAgree` relates maps of two endpoints
between which there is nothing but packets, so `IInv` adds what a packet says of its
sender for ever (`PacketsSpeakTrue`): a request in the network means that the
client knows the server and is past requesting; a packet of a server with an id
means that the server knows its destination by that id and has sent the accept;
a packet of a client with an id means that it is connected to its destination
under it. Since no handler ever removes a known peer, a repeated or late packet speaks
as true as a new one. `SentWasSent` says the same for packets waiting
for a retry, `ScheduledToConnected`, `AcceptsAwait` and `RequestsRequest` for
items waiting to be created, `AddressesFit` and `TrackerAhead` what an entry of
a map can be. The last is why ids are unique: the tracker is ahead of them all.

The proof that every step preserves `IInv` has two parts. Most steps are *calm*
(`Calm`): every peer stays in its map at its address, and new packets speak true. One
lemma, `CalmStep`, does all of `IInv` for them, and each such action has a short lemma
that it is calm. The six others (`connect`, a request sent, an accept received by the
client and the arms that do the same, an id granted, an id joined, `schedule`)
are done conjunct by conjunct. A by-product: a retry of a connection request never
succeeds, it panics or does nothing (`RetryConnectionRequestCalm`).

`TrackerInv` stands on `IInv` and relates the trackers of a peer to `network`. That an
ack names a packet that was sent (`AcksWereSent`) is not inductive: an ack is
copied from `remoteAck` of the peer at the time of sending, which was copied from the
sequence of a packet received long before, under an id, in one of three maps. So
`RemoteAcksWereSent` says it of every `remoteAck`, and `SentToConnected` that
what is sent under an id goes to the address that id has in the sender's map: with `IInv`
the two ends of an id are each other's, so the packet that was received came
from the address that will be told. `EstablishedByAck` needs that the accept of an
id has sequence 1, the first of its peer (`AcceptsAreFirst`), and that whoever
joins acks something (`ConnectedAcks`): only a request acks nothing. `AcceptTrace`
follows the list of sent accepts through the phases of a poll. Most steps leave
the trackers alone but for the peer they send to or hear from; the lemmas on
those steps state what each leaves, and each conjunct has its own lemma about them.

`HandshakeRefined` sorts the steps of all handlers into seven shapes (`StepShape`): one
leaves every peer where it is, and each of the others takes one link one stage
further. `IInv` does not know yet that a client has not sent the request it is still to
send, nor that whom a server knows has asked it; that is `LinkInv`, inductive next to
`IInv`. With both, the one id by which a server knows a client decides the stage
of their link (`OwnedStage`), and each shape moves it from the stage before to the one
after; that the opened id is free at the client is what `IdsAgree` is for. The hypothesis is needed: with a single
sequence `sent_connection_request` panics on the very first request, which is
out on the network all the same, and the server grants an id to a client that never waits for it.

`SampleInv` puts two invariants next to `SequenceInv` and `LinkInv`. `LoopInv` is about each
thread for itself: between two polls there is at most one payload to send, and a poll
that waits has sent it (`NothingLeft`). A poll that returns has heard something that can
be answered (`CanAnswer`), or the next turn of the loop would say nothing and wait.
`TalkInv` is about both: one end has something to say, or one word is on
its way, never more (`OneWord`); that word is the last its sender said, and acks the last its
receiver said (`WordsAreLast`); who is to speak has heard the other's last word
(`SpeakerHasHeard`). For the proof every step of the sample has one of four shapes: it is
silent, says a word, hears one, or loses one. To say one makes it the last because what is
sent comes from the peer's sequence, and by `SequencesFit` that one is above all that was sent
before. To hear one wakes the receiver, because the word finds its peer: a packet that carries
data is from a peer that is connected (`SentToConnected`), and then the receiver is so too
(`IInv`). The exception would be the first word: with one sequence the
client panics on its request, which the server still answers, to nobody. Hence the
hypothesis.

`SequenceInv` stands on `TrackerInv`. That two packets share a sequence only as parts of
one payload would be easy if each packet had its own: the sequence of a peer would be above
all that was sent to it. But a fragment that is not the last of its group leaves the
sequence where it is, for the next part to use. So `SequencesFit` says that what was
sent is below the peer's sequence *or* is a fragment of the group whose next part is what
the endpoint sends next to that peer (`Due`), and that the lists of fragments are made of
whole groups, up to a remainder at the head (`GroupsEnd`): after the last part of one
comes the first of another, and no group is left without its last part. This holds while
groups of several recipients alternate in a list, and it is where the order of the loops
in `poll` counts: the first fragment goes out only after every data transfer before
it, and nothing else is scheduled until the lists are empty. A retry sends its
packet under the old sequence, and may only advance the peer's. `Sends` says what one step may do to the lists and the sequences of
an endpoint: it *rests* (nothing sent; sequences of known peers stay or, at a retry of
what is in `network` already, advance), *opens* (a request or an accept) or *drains* (the
item in line). `GroupsEndBatch` is the arithmetic: the calls' chunks, each to
every recipient, make whole groups, also when the total wraps around a byte. The invariant
says nothing of an endpoint that has panicked: its sequence was not advanced, but it sends
no more.

`GroupInv` is the converse: a payload has one sequence. A part that is still queued will get
the sequence its peer has by then, so `QueuedPartsShare` says that this is the sequence of
the parts that are gone. What could move it in between is a send to the same peer. By
`SequencesFit` only the group itself is due there; its part at the head of the list is not
the last one, since parts are queued behind it (`LastPartsEnd`); and `OneListPerCall` keeps
the rest of the group from waiting in the other list of fragments. A retry would move it
too, but not while the lists are drained (`DrainedPeersStay`). `LastPartsBatch` is where
`ChunksFit` is needed: with more chunks an index comes round again, some part in the middle
looks like the last, and the sequence moves on under the others, which is what `WideGroup`
shows. So `ChunksFit` is a hypothesis of the theorems and no assumption of the modules.

`DeliveryInv` adds what is waiting in the reassemblers and in `api`. A packet is looked up by
the id it claims, not by its address. That its sender is the one that id
stands for (`AcksItsSender`) is the agreement of ids in `IInv`; so what joins a
line was sent by its peer (`LinesAreOfPeer`), and as all parts of a line have its
sequence, `SequenceIdentifiesPacket` makes them parts of one payload. TLC checks
`EventsComeFromPeer` on data transfers only; for groups of any size there is this proof.

`DummyInv` owes nothing to `IInv`: a receive of `Dummy` ends no poll, so a step of
`Dummy` is no step of `Antarc`, and only the types are carried over. In place of what a packet
says of its sender there is order. `PacketsNumbered` tells from its number what a packet
is: the first either way is of the handshake, the others are heartbeats, and no number is used
twice. `NextInOrder` says that what waits for an end (`Pending`: its inbox, the batches in its channel, and the
other's outbox until that is copied) are the packets right after the last it has handled. And
`ClientStage` and `ServerStage` tell from the number of packets sent how far the handshake is. So the
packet at the head of an inbox is known, and so is the map in which its handler finds the peer: this is why
nothing is refused. The lists of requests and accepts are empty again before the
first retry looks at them, hence a retry sends nothing here. Every step of a thread
says a packet (`Said`), handles one (`Handled`) or does neither (`Quiet`); each shape keeps `NextInOrder`
by its own lemma, and the handshake is followed action by action. Swapping batches is quiet: a copy appends
to the channel what leaves the outbox, and taking a batch moves it to an inbox that
is empty (`BatchIsHandled`). For that the flattened channel has to be the batches one after the other
(`FlattenJoins`), by induction as in the codec.

`CodecInv` says what `RoundTrip` and `OnlyWhatWasSent` leave open: what is on the wire is `AsRaw`
of the packet but for one byte if it was spoiled, and the result is its `Decode`. The
step that matters is then the decoding, of which there are three cases. *Whole:* the layout of each
message type is stated position by position (`EncodedLayout`, `BodyLayout`, `BufferLayout`), on the side
of the encoder, and `ReadHeader` and `ReadMessage` read the same positions back; that an integer
survives its bytes is arithmetic of four digits. *Spoiled:* the byte is one of the checksum's, which then is another, or one of the
body's. *Foreign:* the first four bytes under the checksum differ. For both of these the registers of two CRCs
are run side by side: with equal heads a step moves the other three places on as they are
(`RemainderShifts`), and a difference of the heads comes in at the far end, because the
generator's constant term makes it visible (`RemainderForgetsNothing`). So registers that differ stay different
as long as the bytes agree (`RunsStayApart`), however long the rest of the datagram is. The
checksum is a recursive function, and that its recursion has a solution
(`CrcRuns`) and that a difference lasts are inductions over the position. The library's induction rules take an
operator, which is beyond the provers; `Induction` states the rule for sets of
numbers instead, and is proved from the well-foundedness of `<`. `DatagramFits`
stands on `ChunkFits`, the arithmetic of `chunks()`.

Two mistakes of the model came to light in the proof. `Parse` chose its error with a CASE whose
arms overlapped, which leaves open what TLC decides by taking the first; the code's order is now
an IF. And a datagram that was both foreign and spoiled was said to be refused, which held for the
numbers of the run only: two such faults may cancel.

Only model-checked: liveness under fairness (`Connects`, `TalksOn`, `EverythingHeard`),
which is out of the prover's reach and stays with TLC.

## 5. Not modelled

- The codec inside `Antarc`: packets pass whole there. A corrupted or alien datagram
  raises a `Fail` event and changes nothing else, so it is a lost packet;
  `Codec` shows that it never is another packet. A datagram shorter than a
  checksum, and more than one fault in one datagram, are left out of `Codec`.
- Socket errors, which the driver answers with `unwrap` or `todo!`;
  `cancel_packet`, a `todo!`; `retry_reliable_heartbeat`, which has no caller.
- What the dummy manager has and its sample never reaches: the retries of
  fragments and data, `schedule`, more than one client. It is written against an
  older interface of the protocol and stands outside the workspace, hence "partly".
- The macros, which write two constants at compile time; the benchmarks; three
  source files outside the crate.
- The service events `ConnectionRequest` and `ConnectionAccepted`, which no code
  raises, and the peers' timeouts, whose thresholds no code reads.

## 6. What is left

Every safety property that a run checks is proved, and every action property. What could be
added lies at the edges of the model: the dummy manager's `schedule` and retries, which its sample never
calls, and more than one client on a dummy link.
