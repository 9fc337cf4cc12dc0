SPECIFICATION Spec
CONSTANTS
  NumTokens = 2
  Scale = 2
  EpochLength = 1
  MaxPeriods = 2
  MaxRewardTokens = 1
  MaxTime = 4
  NumPools = 1
  NumUsers = 2
  PairAssets <- MCPairAssets
  PairTypeOf <- MCPairTypeOf
  TimeSteps = {1, 3}
  LpSupply = 2
  StakeAmounts = {1}
  AllocPoints = {}
  EmissionRates = {}
  IncentiveTokens = {2}
  IncentiveRates = {2}
  IncentiveDust = {0}
  IncentivePeriods = {1, 2}
  MaxBalance = 8
  TopUps = {}
  BlockBatches <- NoBatches
  DelistedPools = {}
  BlacklistTypes = {}
  FlakyTokens = {}
  RemovalModes = {FALSE}
  CarefulOwner = TRUE
  OrphanLimits = {}
  Emissions = {0, 2}
PROPERTIES
  ImplementsLedger
CHECK_DEADLOCK FALSE
