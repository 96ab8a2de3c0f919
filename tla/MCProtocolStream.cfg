\* Every cut of every two legal messages of up to three cells of data.
SPECIFICATION StreamLiveSpec
CONSTANTS
  HeaderSize = 2
  MagicWord = 7
  MaxDataLen = 3
  Width = 8
  Data <- LegalData
  Cap = 3
  MaxRead = 2
  MaxSend = 2
INVARIANTS
  StreamIsKept
  BufferBounded
PROPERTIES
  EverythingArrives
\* Everything sent has been received.
CHECK_DEADLOCK FALSE
