SPECIFICATION FairSpec
CONSTANTS
  MaxMessages = 2
  BufferCap = 1
  MaxFaults = 3
CHECK_DEADLOCK FALSE
INVARIANTS
  CursorPassesNothingUnseen
  NothingLostSilently
PROPERTIES
  RedeliveryPaced
  EveryMessageArrives
