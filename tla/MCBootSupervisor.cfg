SPECIFICATION FairSpec
CONSTANTS
    BaseDelay = 1
    MaxDelay = 2
    StableUptime = 2
    DownThreshold = 2
    DownRepeat = 3
    FlapWindow = 5
    FlapThreshold = 3
    FlapRepeat = 3
    Horizon = 6
CHECK_DEADLOCK FALSE
INVARIANTS
  NoBusLeaks
PROPERTIES
  ReportsStayTrue
  FlapsAreSlowed
  NoEventMissed
