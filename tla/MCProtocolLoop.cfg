\* All buffers of up to six cells, room for three headers.  Width is just
\* wide enough for the length of a legal message.
SPECIFICATION LoopSpec
CONSTANTS
  HeaderSize = 2
  MagicWord = 4
  MaxDataLen = 2
  Width = 5
  MaxBuffer = 6
INVARIANTS
  MessageShortens
  NoHeaderSkipped
  FrontMessageTaken
PROPERTIES
  LoopEnds
\* The loop ends.
CHECK_DEADLOCK FALSE
