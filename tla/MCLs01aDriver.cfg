\* Two scans and a cell of noise, in pieces of up to two cells; the buffer
\* is full with more than one scan.
SPECIFICATION DriverLiveSpec
CONSTANTS
  Noise <- MCNoise
  MaxScans = 2
  MaxNoise = 1
  MaxErrors = 1
  MaxOps = 2
  ErrLimit = 0
  Limit = 4
  BufferSize = 2
INVARIANTS
  ScansAreSent
  StopHolds
  SerialBufferBounded
PROPERTIES
  ScanLeavesBuffer
\* The lidar may fall silent, and the driver may be destroyed.
CHECK_DEADLOCK FALSE
