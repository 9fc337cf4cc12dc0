SPECIFICATION Spec
CONSTANTS
  alice = alice
  bob = bob
  coin = coin
  token = token
  other = other
  concentrated = concentrated
  None = None
  Accounts = {alice, bob}
  Founder = alice
  MaxTtl = 1
  Ttls = {1, 2}
  Types = {concentrated}
  Priced = {concentrated}
  Trackable = {concentrated}
  TrackerCodes = {1}
  Configs <- MCConfigs
  Assets = {coin, token, other}
  Key <- MCKey
  Keys = {1, 2}
  Coins = {coin}
  Decimals = {6, 8}
  Allowed = {6, 8}
  MaxFee = 2
  MaxContracts = 2
  MaxDepth = 2
  MaxTime = 3
INVARIANTS
  RegisteredServesItsKey
  PairsAgreeOnDecimals
PROPERTIES
  OwnersChosenInTime
CHECK_DEADLOCK FALSE
