\* The two loops of antarc-dummy-sample.
SPECIFICATION DummySpec

CONSTANTS
  client = c1
  server = s1
  Clients = {c1}
  Servers = {s1}
  NoPeer = NoPeer
  MaxLag = 2
  SequenceLimit = 17
  ConnectionIdLimit = 2
  FragmentModulus = 4
  RetryThreshold = 1
  ReassemblyTtl = 1
  ReliableTtl = 1
  OverflowChecks = TRUE
  FragmentTotals = {1}
  AppLists = {5, 6}
  MaxPacketId = 40
  MaxClock = 0

INVARIANTS
  DummyTypeOK
  InOrderOnce
  NothingRefused
  DummyInv

PROPERTIES
  EverythingHeard

\* Threads that have run out of sequences stop.
CHECK_DEADLOCK FALSE
