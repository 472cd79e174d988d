-------------------------------- MODULE Codec --------------------------------
(***************************************************************************)
(* The bytes of a packet: as_raw lays a packet out and checksums it, the   *)
(* network may spoil one byte of the datagram, and inner_decode reads it   *)
(* back.  Everywhere else in this project a datagram is the packet itself; *)
(* this module is why it may be.                                           *)
(*                                                                         *)
(* A byte has Radix values instead of 256; the width of every field, in    *)
(* bytes, is the code's.  The debug assertions of the codec are not        *)
(* modelled: this is the release build.                                    *)
(***************************************************************************)
EXTENDS Integers, SequencesExt

CONSTANTS
  Radix,             \* number of values of a byte, above the 5 types
  Generator,         \* external: the polynomial of the checksum
  ProtocolId,        \* PROTOCOL_ID
  OtherId,           \* the protocol id of some other program
  MaxFragmentSize,   \* MAX_FRAGMENT_SIZE
  Sequences, Acks, ConnectionIds, \* input: fields of the packets sent
  PayloadSizes,      \* input: sizes of the payloads scheduled
  None               \* no packet, no datagram, no result

\* u8, u16 and u32; the NonZero types leave out 0.
Byte == 0 .. Radix - 1
U16 == 0 .. Radix * Radix - 1
U32 == 0 .. Radix * Radix * Radix * Radix - 1

\* No multiple of the constant term vanishes: of a prime Radix any term does but
\* 0, of 256 any odd one.
ASSUME CodecAssumption ==
  /\ Radix \in Nat /\ Radix > 6
  /\ Generator \in [1 .. 4 -> Byte]
  /\ \A n \in Byte \ {0} : (n * Generator[4]) % Radix # 0
  /\ {ProtocolId, OtherId} \subseteq U32 \ {0} /\ ProtocolId # OtherId
  /\ MaxFragmentSize \in Nat /\ MaxFragmentSize > 17
  /\ Sequences \subseteq U32 \ {0}
  /\ Acks \subseteq U32
  /\ ConnectionIds \subseteq U16 \ {0}
  /\ PayloadSizes \subseteq Nat

VARIABLES
  packet,            \* the packet given to as_raw
  origin,            \* the protocol id of the program that sent it
  datagram,          \* what is on the wire
  spoiled,           \* whether the network changed it
  role,              \* the service that receives it
  result             \* what decode returned to it

codecVars == <<packet, origin, datagram, spoiled, role, result>>

Role == {"client", "server"}

PacketTypes == <<"ConnectionRequest", "ConnectionAccepted", "DataTransfer",
                 "Fragment", "Heartbeat">>

\* A field a message type lacks is 0, or the empty payload.
CodecPacket ==
  {p \in [kind : ToSet(PacketTypes), sequence : U32 \ {0}, ack : U32,
          index : Byte, total : Byte, id : U16, payload : Seq(Byte)] :
     /\ p.kind = "ConnectionRequest" <=> p.id = 0
     /\ p.kind # "Fragment" => p.index = 0 /\ p.total = 0
     /\ p.kind \notin {"DataTransfer", "Fragment"} => p.payload = <<>>}

ASSUME NoneAssumption == None \notin CodecPacket

\* What each byte of an integer counts, from the last byte on.
Weight == <<1, Radix, Radix * Radix, Radix * Radix * Radix>>

\* to_be_bytes of an integer of so many bytes, and from_be_bytes.
Bytes(n, width) == [i \in 1 .. width |-> (n \div Weight[width + 1 - i]) % Radix]

Number(bytes) ==
  LET digit(k) == IF k < Len(bytes) THEN bytes[Len(bytes) - k] ELSE 0
  IN  ((digit(3) * Radix + digit(2)) * Radix + digit(1)) * Radix + digit(0)

(***************************************************************************)
(* crc32fast: the remainder of the message, a polynomial, divided by the   *)
(* Generator.  As with the CRC-32 the remainder is 4 bytes, a change of up *)
(* to 4 adjacent bytes always alters it, and it takes every value.         *)
(***************************************************************************)
Remainder(r, b) ==
  LET minus == Radix - r[1]
  IN  << (r[2] + minus * Generator[1]) % Radix, (r[3] + minus * Generator[2]) % Radix,
         (r[4] + minus * Generator[3]) % Radix, (b + minus * Generator[4]) % Radix >>

Crc(bytes) ==
  LET register[i \in 0 .. Len(bytes)] ==
        IF i = 0 THEN <<Radix - 1, Radix - 1, Radix - 1, Radix - 1>>
        ELSE Remainder(register[i - 1], bytes[i])
  IN  register[Len(bytes)]

\* Checksum gone wrong: the protocol id is left out of it.
ChecksumWithoutId(id, body) == Crc(body)

\* The protocol id goes into the checksum, though it is not sent.
Checksum(id, body) == Crc(Bytes(id, 4) \o body)

-----------------------------------------------------------------------------
(***************************************************************************)
(* Encoding.                                                               *)
(***************************************************************************)
TypeByte(kind) == Bytes(CHOOSE n \in 1 .. 5 : PacketTypes[n] = kind, 1)

Encoded(p) ==
  CASE p.kind = "ConnectionRequest" -> TypeByte(p.kind)
    [] p.kind \in {"ConnectionAccepted", "Heartbeat"} ->
         TypeByte(p.kind) \o Bytes(p.id, 2)
    [] p.kind = "DataTransfer" -> TypeByte(p.kind) \o Bytes(p.id, 2) \o p.payload
    [] p.kind = "Fragment" ->
         TypeByte(p.kind) \o Bytes(p.index, 1) \o Bytes(p.total, 1)
           \o Bytes(p.id, 2) \o p.payload

\* What the program with this protocol id puts on the wire.
AsRaw(id, p) ==
  LET body == Bytes(p.sequence, 4) \o Bytes(p.ack, 4) \o Encoded(p)
  IN  body \o Checksum(id, body)

\* protocol id, sequence, ack, type and, of most types, connection id
HeaderSize(kind) ==
  4 + 4 + 4 + 1 + (CASE kind = "ConnectionRequest" -> 0
                     [] kind = "Fragment" -> 1 + 1 + 2
                     [] OTHER -> 2)

-----------------------------------------------------------------------------
(***************************************************************************)
(* Decoding.                                                               *)
(***************************************************************************)
Ok(p) == [ok |-> TRUE, packet |-> p]
Err(error) == [ok |-> FALSE, error |-> error]

DecodeError == {"InvalidCrc32", "IntConversion", "InvalidProtocolId",
                "PacketTypeConversion", "InvalidPacketType"}

\* read_buffer_inc! after the first `at' bytes.
Read(buffer, at, size) == Number(SubSeq(buffer, at + 1, at + size))

\* The payload is what is left of the buffer.
Rest(buffer, at) == SubSeq(buffer, at + 1, Len(buffer))

\* ReadPart gone wrong: index and total are read in the other order.
ReadPartSwapped(buffer) == <<Read(buffer, 14, 1), Read(buffer, 13, 1)>>

\* A fragment's index and total.
ReadPart(buffer) == <<Read(buffer, 13, 1), Read(buffer, 14, 1)>>

\* What follows the common header, which ends with the type at 13.
CommonDecode(head, buffer) ==
  CASE head.kind = "ConnectionRequest" -> head
    [] head.kind \in {"ConnectionAccepted", "Heartbeat"} ->
         [head EXCEPT !.id = Read(buffer, 13, 2)]
    [] head.kind = "DataTransfer" ->
         [head EXCEPT !.id = Read(buffer, 13, 2), !.payload = Rest(buffer, 15)]
    [] head.kind = "Fragment" ->
         [head EXCEPT !.index = ReadPart(buffer)[1], !.total = ReadPart(buffer)[2],
                      !.id = Read(buffer, 15, 2), !.payload = Rest(buffer, 17)]

\* A buffer whose checksum is right, the receiver's protocol id in front.
Parse(buffer) ==
  LET sequence == Read(buffer, 4, 4)
      type == Read(buffer, 12, 1)
      p == CommonDecode([kind |-> PacketTypes[type], sequence |-> sequence,
                         ack |-> Read(buffer, 8, 4), index |-> 0, total |-> 0,
                         id |-> 0, payload |-> <<>>], buffer)
  IN  IF Read(buffer, 0, 4) # ProtocolId THEN Err("InvalidProtocolId")
      ELSE IF type \notin 1 .. 5 THEN Err("PacketTypeConversion")
      ELSE IF sequence = 0 THEN Err("IntConversion")
      ELSE IF p.kind # "ConnectionRequest" /\ p.id = 0 THEN Err("IntConversion")
      ELSE Ok(p)

\* The expected checksum is reported as a NonZeroU32.
InnerDecode(bytes) ==
  LET cut == Len(bytes) - 4
      body == SubSeq(bytes, 1, cut)
      crc == Checksum(ProtocolId, body)
  IN  IF crc = SubSeq(bytes, cut + 1, cut + 4) THEN Parse(Bytes(ProtocolId, 4) \o body)
      ELSE Err(IF Number(crc) = 0 THEN "IntConversion" ELSE "InvalidCrc32")

\* A client is sent no connection request, a server no acceptance.
Unexpected == [client |-> "ConnectionRequest", server |-> "ConnectionAccepted"]

Decode(r, bytes) ==
  LET decoded == InnerDecode(bytes)
  IN  IF decoded.ok /\ decoded.packet.kind = Unexpected[r]
      THEN Err("InvalidPacketType")
      ELSE decoded

-----------------------------------------------------------------------------
(***************************************************************************)
(* One packet: sent, perhaps spoiled, received.                            *)
(***************************************************************************)
CodecInit ==
  /\ packet = None
  /\ datagram = None
  /\ result = None
  /\ origin = ProtocolId
  /\ spoiled = FALSE
  /\ role \in Role

\* ChunkSize gone wrong: the header of a packet that is no fragment.
ChunkSizeOfTransfer(max) == max - HeaderSize("DataTransfer")

ChunkSize(max) == max - HeaderSize("Fragment")

Chunks(size) == (size + ChunkSize(MaxFragmentSize) - 1) \div ChunkSize(MaxFragmentSize)

\* chunks().enumerate(): how much of a payload of this size chunk `index' holds.
ChunkLength(size, index) ==
  IF index + 1 < Chunks(size) THEN ChunkSize(MaxFragmentSize)
  ELSE size - index * ChunkSize(MaxFragmentSize)

\* Part gone wrong: an index and a total are not cast to a byte.
PartUncast(size, index) ==
  [index |-> index, total |-> Chunks(size),
   payload |-> [i \in 1 .. ChunkLength(size, index) |-> i % Radix]]

\* What Fragment::new makes of chunk `index'; the bytes do not matter.
PartOf(size, index) ==
  [index |-> index % Radix, total |-> Chunks(size) % Radix,
   payload |-> [i \in 1 .. ChunkLength(size, index) |-> i % Radix]]

Numbered(kind, n, a, id) ==
  [kind |-> kind, sequence |-> n, ack |-> a, index |-> 0, total |-> 0,
   id |-> id, payload |-> <<>>]

\* as_raw of a packet, by a program with this or with the other protocol id.
Emit(p) ==
  /\ packet = None
  /\ packet' = p
  /\ origin' \in {ProtocolId, OtherId}
  /\ datagram' = AsRaw(origin', p)
  /\ UNCHANGED <<spoiled, role, result>>

EmitHandshake(n, a, id) ==
  \/ Emit(Numbered("ConnectionRequest", n, a, 0))
  \/ Emit(Numbered("ConnectionAccepted", n, a, id))

EmitHeartbeat(n, a, id) == Emit(Numbered("Heartbeat", n, a, id))

\* A payload of one chunk is a data transfer, each chunk of a larger one a fragment.
EmitPayload(n, a, id) ==
  \E size \in PayloadSizes :
    \/ /\ Chunks(size) = 1
       /\ Emit([Numbered("DataTransfer", n, a, id) EXCEPT
                  !.payload = PartOf(size, 0).payload])
    \/ /\ Chunks(size) > 1
       /\ \E index \in 0 .. Chunks(size) - 1 :
            LET part == PartOf(size, index)
            IN  Emit([Numbered("Fragment", n, a, id) EXCEPT
                        !.index = part.index, !.total = part.total,
                        !.payload = part.payload])

\* The network changes one byte.  What comes from elsewhere is fault enough: a
\* checksum does not promise to notice two faults, which may cancel.
Spoil ==
  /\ packet # None /\ result = None /\ ~spoiled /\ origin = ProtocolId
  /\ \E i \in DOMAIN datagram, b \in Byte :
       /\ b # datagram[i]
       /\ datagram' = [datagram EXCEPT ![i] = b]
  /\ spoiled' = TRUE
  /\ UNCHANGED <<packet, origin, role, result>>

Receive ==
  /\ packet # None /\ result = None
  /\ result' = Decode(role, datagram)
  /\ UNCHANGED <<packet, origin, datagram, spoiled, role>>

CodecNext ==
  \/ \E n \in Sequences, a \in Acks, id \in ConnectionIds :
       EmitHandshake(n, a, id) \/ EmitHeartbeat(n, a, id) \/ EmitPayload(n, a, id)
  \/ Spoil
  \/ Receive

CodecSpec == CodecInit /\ [][CodecNext]_codecVars

-----------------------------------------------------------------------------
\* The type of the codec's state; a chunk's index and total fit their byte.
CodecTypeOK ==
  /\ packet \in CodecPacket \cup {None}
  /\ origin \in {ProtocolId, OtherId}
  /\ datagram \in Seq(Byte) \cup {None}
  /\ spoiled \in BOOLEAN
  /\ role \in Role
  /\ result \in {None} \cup [ok : {TRUE}, packet : CodecPacket]
                  \cup [ok : {FALSE}, error : DecodeError]

(***************************************************************************)
(* encode.rs and raw.rs agree on the layout of every message type: what    *)
(* arrives as it was sent decodes to the packet that was sent, or, of the  *)
(* one type the receiver's side refuses, to InvalidPacketType.             *)
(***************************************************************************)
RoundTrip ==
  result # None /\ ~spoiled /\ origin = ProtocolId =>
    result = IF packet.kind = Unexpected[role] THEN Err("InvalidPacketType")
             ELSE Ok(packet)

(***************************************************************************)
(* No datagram passes for a packet nobody sent: decode's crc check lets    *)
(* through only what this protocol's programs sent, and unchanged - even   *)
(* though the id that tells the protocol is cut from every datagram.       *)
(***************************************************************************)
OnlyWhatWasSent ==
  result # None /\ result.ok =>
    ~spoiled /\ origin = ProtocolId /\ result.packet = packet

(***************************************************************************)
(* schedule cuts a payload so that no datagram is larger than              *)
(* MAX_FRAGMENT_SIZE.  The header it deducts has the protocol id, which is *)
(* not sent, and lacks the checksum, which is.                             *)
(***************************************************************************)
DatagramFits == datagram # None => Len(datagram) <= MaxFragmentSize
=============================================================================
