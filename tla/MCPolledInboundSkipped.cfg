SPECIFICATION Spec
CONSTANTS
  MaxMessages = 3
  BufferCap = 1
  MaxFaults = 1
CHECK_DEADLOCK FALSE
INVARIANT SkippedIsRecorded
