SPECIFICATION GateSpec
CONSTANTS
  BucketCount = 3
  BucketMs = 2
  PermilleMs = 1
  MaxBands = 4
  Channels <- FiveBands
  DownlinkTimes = {1}
  LastInstant = 2
INVARIANT BandBudget
CHECK_DEADLOCK FALSE
