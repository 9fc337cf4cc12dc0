SPECIFICATION OracleSpec
CONSTANTS
  Scale = 60
  MinimumLiquidity = 1
  DefaultSlippage = 5
  MaxSlippage = 30
  NumUsers = 1
  TrackBalances = FALSE
  UnpauseAt = 0
  TwapPrecision = 3
  Modulus = 16
  FeeInfos <- MCFeeInfos
  FeeShares = {}
  BeliefPrices = {60}
  Tolerances = {30}
  Minima = {0}
  Deposits = {4, 9}
  Offers = {6}
  Gifts = {}
  LpAmounts = {3}
  MaxPool = 15
  MaxSupply = 12
  MaxTime = 5
  MaxMessages = 2
  Period = 2
  One = 1
  Amounts = {1, 5}
INVARIANTS
  AverageWithinPrices
CHECK_DEADLOCK FALSE
