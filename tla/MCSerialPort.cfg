\* Two threads, one of which reads; the device is unplugged once.
SPECIFICATION SerialSpec
CONSTANTS
  reader = reader
  user = user
  Thread <- MCThread
  Calls <- MCCalls
  WSize = 2
  iBufferSize = 2
  Expect = 2
  MinCnt = 1
  MaxOpen = 2
  MaxIn = 3
  MaxWrite = 2
  MaxUnplug = 1
INVARIANTS
  NoDescriptorLost
  GarbledIsReported
  ReadsAreTheStream
\* The device may be gone and nobody may call.
CHECK_DEADLOCK FALSE
