\* How long a reliable packet is kept.
SPECIFICATION Spec

CONSTANTS
  Clients = {c1}
  Servers = {s1}
  NoPeer = NoPeer
  SequenceLimit = 5
  ConnectionIdLimit = 2
  FragmentModulus = 4
  RetryThreshold = 1
  ReassemblyTtl = 1
  ReliableTtl = 1
  OverflowChecks = TRUE
  FragmentTotals = {1}
  AppLists = {2}
  MaxPacketId = 2
  MaxClock = 0

PROPERTIES
  KeptUntilTtl

\* A panic stops an endpoint, and recv_from may block for ever.
CHECK_DEADLOCK FALSE
