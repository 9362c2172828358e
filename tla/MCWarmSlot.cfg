SPECIFICATION FairSpec
CONSTANTS
  Callers = {c1, c2, c3}
  Workers = {w1, w2}
  Instants = {i1, i2}
  None = None
  MaxRequests = 2
  HasMaxAge = TRUE
  HasIdle = TRUE
  HasWallClock = TRUE
  Base = 1
  Factor = 2
  Cap = 3
  RestartBound = 2
INVARIANTS
  OneWorkerPerTool
  FitForReuse
  BackoffServed
PROPERTIES
  KillsOnlyInCall
  IdleForWholePeriod
  EveryDispatchEnds
