SPECIFICATION Spec
CONSTANTS
  Scale = 1000
  AmpPrecision = 4
  Iterations = 64
  Tol = 10
  Unit <- MCUnit
  MinimumLiquidity = 1
  DefaultSlippage = 5
  MaxSlippage = 500
  NumUsers = 1
  Capacity = 3
  NoValue = NoValue
  Native <- MCNative
  MaxAmp = 6
  MaxAmpChange = 3
  MinAmpChangingTime = 2
  MinTradeSize = 260
  TwapPrecision = 2
  Modulus = 1
  InitialAmps = {1}
  NextAmps = {3, 6}
  Durations = {2}
  FeeInfos <- MCFeeInfos
  FeeShares = {600}
  BeliefPrices = {0}
  Tolerances = {500}
  Minima = {0}
  AutoStakes = {FALSE}
  Deposits = {0, 50}
  Offers = {30}
  Gifts = {40}
  LpAmounts = {60}
  Asks = {20}
  MaxPool = 120
  MaxSupply = 300
  MaxTime = 4
  MaxMessages = 4
INVARIANTS
  AmpMovesSlowly
  QuotesSuffice
PROPERTIES
  ValueKept
CHECK_DEADLOCK FALSE
