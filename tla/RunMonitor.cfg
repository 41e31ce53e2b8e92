CONSTANTS
  Limit = 2
  Grace = 2
  DrainGrace = 1
  DrainMax = 3
  MaxDelay = 2
  MaxPresses = 2
SPECIFICATION FairMonitorSpec
INVARIANTS OwnSignalReported KilledGroupIsGone OutputComplete
PROPERTIES RunEnds
CHECK_DEADLOCK FALSE
