SPECIFICATION Spec
CONSTANTS
  Scale = 10000
  FeeTol = 10
  HalfPowTol = 1
  MaxIter = 64
  Rounding = 2
  Unit <- MCUnit
  MinimumLiquidity = 1
  LpUnit = 1
  MinTradeSize = 800
  OfferPercent = 1000
  DefaultSlippage = 500
  MaxSlippage = 5000
  MinAmpChangingTime = 2
  MaxChange = 100000
  AmpLimits <- MCAmpLimits
  GammaLimits <- MCGammaLimits
  ParamLimits <- MCParamLimits
  InitialParams <- MCParams
  InitialAmpGamma <- MCAmpGamma
  InitialScale = 10000
  TrackBalances = FALSE
  NumUsers = 1
  Capacity = 3
  NoValue = NoValue
  TwapPrecision = 2
  Modulus = 1
  NewParams <- MCNewParams
  NextAmpGammas <- MCNextAmpGammas
  Durations = {2}
  FeeInfos <- MCFeeInfos
  FeeShares = {6000}
  BeliefPrices = {0}
  Tolerances = {5000}
  Minima = {0}
  AutoStakes = {FALSE}
  Deposits = {0, 60}
  Offers = {30}
  Gifts = {20}
  LpAmounts = {2500}
  Asks = {6}
  MaxPool = 200
  MaxSupply = 30000
  MaxTime = 3
  MaxMessages = 4
  MaxSettings = 1
INVARIANTS
  ProfitBacked
  QuotesSuffice
  PegFollowsTrades
PROPERTIES
  RepegKeepsHalf
CHECK_DEADLOCK FALSE
