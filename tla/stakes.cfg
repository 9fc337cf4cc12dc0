SPECIFICATION Spec
CONSTANTS
  NumTokens = 2
  Scale = 10
  EpochLength = 1
  MaxPeriods = 1
  MaxRewardTokens = 1
  MaxTime = 4
  NumPools = 1
  NumUsers = 2
  PairAssets <- MCPairAssets
  PairTypeOf <- MCPairTypeOf
  TimeSteps = {1, 2}
  LpSupply = 2
  StakeAmounts = {1}
  AllocPoints = {}
  EmissionRates = {}
  IncentiveTokens = {2}
  IncentiveRates = {1}
  IncentiveDust = {0}
  IncentivePeriods = {1}
  MaxBalance = 4
  TopUps = {}
  BlockBatches <- NoBatches
  DelistedPools = {}
  BlacklistTypes = {}
  FlakyTokens = {2}
  RemovalModes = {FALSE, TRUE}
  CarefulOwner = TRUE
  OrphanLimits = {1}
INVARIANTS
  SchedulesRunPastUpdate
  StakesAddUp
  PositionsCanExit
  ExternalRewardsBacked
CHECK_DEADLOCK FALSE
