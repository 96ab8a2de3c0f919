\* Two connections at one or at two addresses.  Three messages: a batch of two,
\* and one that arrives while it is handled; reads that end in the middle of a
\* message, and receive buffers that are over their limit at any time.
SPECIFICATION TcpSpec
CONSTANTS
  Bev = {b1, b2}
  NoBev = NoBev
  Payload = {p}
  MaxConn = 2
  MaxMsg = 3
  MaxRead = 2
  OverLimit = {TRUE, FALSE}
  WriteResults <- MCWriteResults
SYMMETRY BevSymmetry
INVARIANTS
  TcpTypeOK
  NoUseAfterFree
  MapMatchesSockets
  IteratorsValid
  LaterBatchesAreNewer
  BatchIsNewestFirst
PROPERTIES
  MessagesLiveTheirLife
\* The peers may fall silent, and the two threads may block each other.
CHECK_DEADLOCK FALSE
