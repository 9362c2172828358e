SPECIFICATION FairSpec
CONSTANTS
  x = x
  y = y
  Conversations = {x, y}
  Conv <- TwoRooms
  Welcome = {y}
  QueueCap = 2
  MinRefusals = 2
  MaxFaults = 1
  None = None
CHECK_DEADLOCK FALSE
INVARIANTS
  RepliesAccounted
PROPERTIES
  RepliesInOrder
  GivenUpOnItsOwnAccount
  EveryReplySettles
