SPECIFICATION GateSpec
CONSTANTS
  BucketCount = 3
  BucketMs = 2
  PermilleMs = 2
  MaxBands = 4
  Channels <- TwoBands
  DownlinkTimes = {1, 2}
  LastInstant = 8
INVARIANTS BandBudget OverflowIsOwn
CHECK_DEADLOCK FALSE
