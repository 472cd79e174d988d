\* Every type of packet, sent to either side, whole or with one byte changed.
SPECIFICATION CodecSpec

CONSTANTS
  Radix = 7
  Generator <- SomeGenerator
  ProtocolId = 1234
  OtherId = 1235
  MaxFragmentSize = 20
  Sequences <- SomeSequences
  Acks <- SomeAcks
  ConnectionIds <- SomeIds
  PayloadSizes = {1, 3, 5, 21}
  None = None

INVARIANTS
  CodecTypeOK
  RoundTrip
  OnlyWhatWasSent
  DatagramFits

\* One packet is sent and received, and that is all.
CHECK_DEADLOCK FALSE
