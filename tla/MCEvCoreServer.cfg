\* Publish and subscribe: three connections at two addresses.
SPECIFICATION CoreSpec
CONSTANTS
  Bev = {b1, b2}
  NoBev = NoBev
  Name = {n1}
  Payload <- PubSubPayload
  MaxConn = 3
  MaxMsg = 3
  MaxRead = 1
  OverLimit = {FALSE}
  WriteResults <- MCWriteResults
SYMMETRY BevSymmetry
INVARIANTS
  IteratorAtTarget
  CopiesMatchEntries
  EntryHasLiveRequest
PROPERTIES
  PrunedOnlyIfSendFailed
\* The peers may fall silent, and the two threads may block each other.
CHECK_DEADLOCK FALSE
