SPECIFICATION FairSpec
CONSTANTS
  Tasks = {1}
  Asks = {1, 2}
  Runners = {r1}
  Resolvers = {cli}
  BusResolvers = {}
  Cancellers = {c1}
  Sweeper = sweeper
  Nobody = nobody
  NoTask = 0
  TaskLane <- MCTaskLane
  RunnerLane <- MCRunnerLane
  Reach <- MCReach
  L3Runs = {}
  Outcomes = {"completed"}
  Faults = {}
CHECK_DEADLOCK FALSE
PROPERTIES
  EveryTaskEnds
