SPECIFICATION Spec
CONSTANTS
  NumTokens = 1
  Scale = 2
  EpochLength = 1
  MaxPeriods = 1
  MaxRewardTokens = 1
  MaxTime = 2
  NumPools = 2
  NumUsers = 1
  PairAssets <- MCPairAssets
  PairTypeOf <- MCPairTypeOf
  TimeSteps = {1}
  LpSupply = 1
  StakeAmounts = {1}
  AllocPoints = {1, 3}
  EmissionRates = {0, 3}
  IncentiveTokens = {}
  IncentiveRates = {2}
  IncentiveDust = {0}
  IncentivePeriods = {}
  MaxBalance = 4
  TopUps = {3}
  BlockBatches <- Batches
  DelistedPools = {2}
  BlacklistTypes = {"stable"}
  FlakyTokens = {}
  RemovalModes = {}
  CarefulOwner = TRUE
  OrphanLimits = {1}
  Emissions = {0, 1, 2, 3, 4}
INVARIANTS
  EmittingPoolsListed
  EmissionWithinRate
  BlockedPoolsInactive
PROPERTIES
  AllocPointsAddUp
  ImplementsLedger
CHECK_DEADLOCK FALSE
