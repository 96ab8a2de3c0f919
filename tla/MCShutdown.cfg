\* Two connections with two messages between them, while the broker ends.
SPECIFICATION ShutLiveSpec
CONSTANTS
  Bev = {b1, b2}
  NoBev = NoBev
  Name = {n1}
  Payload <- MCPayload
  MaxConn = 2
  MaxMsg = 2
  MaxRead = 1
  OverLimit = {FALSE}
  WriteResults = {0}
INVARIANTS
  NothingLeftBehind
PROPERTIES
  DestructorReturns
\* The object may be gone, and the threads may block each other.
CHECK_DEADLOCK FALSE
