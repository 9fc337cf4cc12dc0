SPECIFICATION Spec
CONSTANTS
  poller = poller
  backfill = backfill
  inliner = inliner
  w1 = w1
  w2 = w2
  NoBlock = NoBlock
  Deployments <- MCDeployments
  Bulk <- MCBulk
  Inline <- MCInline
  Bounded <- MCBulk
  ToHeight = 2
  Depth = 1
  IngestBatch = 2
  PoolHeight = 2
  MaxHeight = 4
  MaxReorg = 2
  MaxCrashes = 1
  ClaimBatch = 2
  MaxAttempts = 2
INVARIANTS
  LedgerWhole
  SwapsCountedOnce
PROPERTIES
  MarksOfHolderOnly
  CatchesUp
  JobsSettle
CHECK_DEADLOCK FALSE
