\* One client, two servers that grant the same id.
SPECIFICATION Spec

CONSTANTS
  Clients = {c1}
  Servers = {s1, s2}
  NoPeer = NoPeer
  SequenceLimit = 5
  ConnectionIdLimit = 2
  FragmentModulus = 4
  RetryThreshold = 1
  ReassemblyTtl = 1
  ReliableTtl = 1
  OverflowChecks = TRUE
  FragmentTotals = {0, 1}
  AppLists = {1}
  MaxPacketId = 3
  MaxClock = 0

INVARIANTS
  LinkInv
  EstablishedOnBothSides
  OneStatePerServer
  AcksWereSent

PROPERTIES
  ImplementsHandshake

\* A panic stops an endpoint, and recv_from may block for ever.
CHECK_DEADLOCK FALSE
