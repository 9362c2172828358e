SPECIFICATION Spec
CONSTANTS
  Tasks = {1, 2}
  Asks = {1}
  Runners = {r1, r2}
  Resolvers = {bus}
  BusResolvers = {bus}
  Cancellers = {c1}
  Sweeper = sweeper
  Nobody = nobody
  NoTask = 0
  TaskLane <- MCTaskLane
  RunnerLane <- MCRunnerLane
  Reach <- MCReach
  L3Runs = {2}
  Outcomes = {"completed"}
  Faults = {"crash"}
SYMMETRY RunnerSymmetry
INVARIANTS
  OneRunnerPerTask
  FinalizedOnce
PROPERTIES
  ImplementsLifecycle
CHECK_DEADLOCK FALSE
