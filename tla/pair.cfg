SPECIFICATION RouterSpec
CONSTANTS
  Scale = 100
  MinimumLiquidity = 1
  DefaultSlippage = 5
  MaxSlippage = 50
  NumUsers = 1
  TrackBalances = TRUE
  UnpauseAt = 2
  TwapPrecision = 2
  Modulus = 1
  FeeInfos <- MCFeeInfos
  FeeShares = {60}
  BeliefPrices = {0, 100}
  Tolerances = {50}
  Minima = {0, 2}
  Deposits = {4, 9}
  Offers = {6}
  Gifts = {3}
  LpAmounts = {3}
  MaxPool = 13
  MaxSupply = 10
  MaxTime = 3
  MaxMessages = 2
  BurnNotifies = FALSE
  MaxHops = 2
  RouteOffers = {0, 6}
  RouterGifts = {2}
  MaxLeft = 2
INVARIANTS
  SharesBacked
  BalanceHistoryHolds
  TrackedAsHeld
  QuotesSuffice
  RoutesDeliver
PROPERTIES
  ShareValueNeverFalls
CHECK_DEADLOCK FALSE
