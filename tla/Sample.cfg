\* The two loops of antarc-sample.
SPECIFICATION SampleSpec

CONSTANTS
  client = c1
  server = s1
  Clients = {c1}
  Servers = {s1}
  NoPeer = NoPeer
  SequenceLimit = 8
  ConnectionIdLimit = 2
  FragmentModulus = 4
  RetryThreshold = 1
  ReassemblyTtl = 1
  ReliableTtl = 1
  OverflowChecks = TRUE
  FragmentTotals = {1}
  AppLists = {1}
  MaxPacketId = 20
  MaxClock = 2

INVARIANTS
  SampleInv
  SampleTypeOK
  EveryPacketAcksTheLast

PROPERTIES
  NothingAfterLoss
  TalksOn
  ImplementsExchange

\* After a loss both threads wait for ever.
CHECK_DEADLOCK FALSE
