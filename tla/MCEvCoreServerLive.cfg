\* Every type of message; the broker is an instance of the handler and makes
\* progress.  No symmetry.
SPECIFICATION CoreLiveSpec
CONSTANTS
  Bev = {b1, b2}
  NoBev = NoBev
  Name = {n1}
  Payload <- AllPayload
  MaxConn = 2
  MaxMsg = 2
  MaxRead = 1
  OverLimit = {FALSE}
  WriteResults <- MCWriteResults
PROPERTIES
  TcpSpec
  HandledEventually
  ClosedIsFreed
\* The peers may fall silent, and the two threads may block each other.
CHECK_DEADLOCK FALSE
