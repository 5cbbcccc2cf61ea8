SPECIFICATION LimiterSpec
CONSTANTS
  BucketCount = 3
  BucketMs = 2
  PermilleMs = 3
  Freqs <- MCFreqs
  TableFreqs <- MCTableFreqs
  Airtimes = {1, 2, 4}
  MaxTime = 13
INVARIANTS LimiterInv WindowBudget RetryHintExact LimiterFitsBand
CHECK_DEADLOCK FALSE
