SPECIFICATION FairSpec
CONSTANTS
  w1 = w1
  w2 = w2
  j1 = j1
  j2 = j2
  Workers <- MCWorkers
  Jobs <- MCJobs
  Nobody = Nobody
  NoJob = NoJob
  NumIntervals = 3
  BatchSize = 2
  MaxSwaps = 2
  MaxBlocks = 2
  MaxLosses = 2
  Punctual = TRUE
INVARIANTS
  CompletedMeansFresh
PROPERTIES
  CandlesNeverGoBack
  CandlesCatchUp
CHECK_DEADLOCK FALSE
