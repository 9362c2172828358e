SPECIFICATION FairSpec
CONSTANTS
  matrix = matrix
  Tasks = {1, 2, 3}
  Asks = {a1}
  Buses = {matrix}
  Origin <- Blocked
  AskBus <- AllMatrix
  Nothing = nothing
  QueueCap = 1
  SweepPage = 1
  MaxFaults = 1
INVARIANTS
  AtMostOnce
  LossIsSaid
  AsksAccounted
PROPERTIES
  EveryReplySettled
