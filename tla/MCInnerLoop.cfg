SPECIFICATION FairSpec
CONSTANTS
  Plans <- MCPlans
  MaxPlans = 2
  MaxSteps = 2
  SkillSizes <- MCSkillSizes
  PayloadFloor = 0
  HasDeadline = TRUE
  MaxFaults = 1
  MaxAsks = 1
CHECK_DEADLOCK FALSE
INVARIANTS
  StepsAreSanctioned
  ClassesRespected
  CancelStopsDispatch
  BudgetPerAnswer
  HistoryKept
PROPERTIES
  EveryRunEnds
