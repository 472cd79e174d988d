\* Two clients, one server: the handshake and unreliable traffic;
\* every request for a connection is served.
SPECIFICATION FairSpec

CONSTANTS
  Clients = {c1, c2}
  Servers = {s1}
  NoPeer = NoPeer
  SequenceLimit = 5
  ConnectionIdLimit = 3
  FragmentModulus = 4
  RetryThreshold = 1
  ReassemblyTtl = 1
  ReliableTtl = 1
  OverflowChecks = TRUE
  FragmentTotals = {1}
  AppLists = {1, 5}
  MaxPacketId = 2
  MaxClock = 0

INVARIANTS
  IInv
  UniqueIds
  IdsAgree
  EstablishedOnBothSides
  EstablishedByAck
  CreateNeverFails
  EventsComeFromPeer

PROPERTIES
  ConnectionsPersist
  ImplementsHandshake
  Connects

\* A panic stops an endpoint, and recv_from may block for ever.
CHECK_DEADLOCK FALSE
