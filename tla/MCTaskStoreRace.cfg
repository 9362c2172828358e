SPECIFICATION Spec
CONSTANTS
  Tasks = {1}
  Asks = {1, 2}
  Runners = {r1}
  Resolvers = {q1, q2}
  BusResolvers = {}
  Cancellers = {c1}
  Sweeper = sweeper
  Nobody = nobody
  NoTask = 0
  TaskLane <- MCTaskLane
  RunnerLane <- MCRunnerLane
  Reach <- MCReach
  L3Runs = {}
  Outcomes = {"completed"}
  Faults = {"dberr"}
SYMMETRY ResolverSymmetry
CHECK_DEADLOCK FALSE
INVARIANTS
  TypeOK
  AskTaskCoupled
  CycleOnlyThroughResweep
PROPERTIES
  NothingReopens
