\* One client, one server: reliable data, groups of fragments, heartbeats, retries, time.
SPECIFICATION Spec

CONSTANTS
  Clients = {c1}
  Servers = {s1}
  NoPeer = NoPeer
  SequenceLimit = 3
  ConnectionIdLimit = 2
  FragmentModulus = 4
  RetryThreshold = 1
  ReassemblyTtl = 1
  ReliableTtl = 1
  OverflowChecks = TRUE
  FragmentTotals = {1, 2}
  AppLists = {2, 4, 5}
  MaxPacketId = 3
  MaxClock = 1

INVARIANTS
  TypeOK
  TrackerInv
  SequencesFit
  SequenceIdentifiesPacket
  GroupsStayTogether
  GroupSharesSequence
  LinesAreOfPeer
  AcksWereSent

PROPERTIES
  ConnectionsPersist

\* A panic stops an endpoint, and recv_from may block for ever.
CHECK_DEADLOCK FALSE
