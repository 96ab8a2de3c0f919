\* Two reconnects; a buffer with two messages is over the limit.  Two calls: a
\* request and a cancel of one name in one batch of the broker, whatever it
\* knew before.
SPECIFICATION ClientLiveSpec
CONSTANTS
  HeaderSize = 2
  MagicWord = 7
  MaxDataLen = 2
  Width = 8
  Name = {n1}
  NoCall = NoCall
  MaxConn = 3
  MaxOps = 2
  MaxIn = 2
  MaxOut = 2
  MaxRead = 2
  Cap = 4
  OverLimit <- YesOrNo
  ConnectResults <- Both
  WriteResults <- Both
INVARIANTS
  OneLiveSocket
  MessagesAreWhole
  SubscriptionUnderWay
PROPERTIES
  BrokenIsReplaced
\* The client may be connected and idle, or the threads block each other.
CHECK_DEADLOCK FALSE
