SPECIFICATION Spec
CONSTANTS
  NumClaims = 3
  Tokens = {"juno", "osmo"}
  TokenOf <- MCTokenOf
  AmountOf <- MCAmountOf
  Funds <- MCFunds
  MaxDepth = 3
  MaxReplyId = 6
INVARIANTS
  PendingMatchesInFlight
  NothingLostOrDoubled
CHECK_DEADLOCK FALSE
