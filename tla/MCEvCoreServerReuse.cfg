\* The address of a freed connection is given to the next one.
SPECIFICATION CoreSpec
CONSTANTS
  Bev = {b1}
  NoBev = NoBev
  Name = {n1}
  Payload <- PubSubPayload
  MaxConn = 2
  MaxMsg = 2
  MaxRead = 1
  OverLimit = {FALSE}
  WriteResults <- MCWriteResults
INVARIANTS
  PublishedToSubscribersOnly
CHECK_DEADLOCK FALSE
