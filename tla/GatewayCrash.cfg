SPECIFICATION FairGatewaySpec
CONSTANTS
  NoValue = NoValue
  r1 = r1
  r2 = r2
  k1 = k1
  w1 = w1
  i1 = i1
  i2 = i2
  Requests = {r1, r2}
  Wallets = {w1}
  Keys = {k1}
  WalletOf <- OneWallet
  KeyOf <- SameKey
  IdemOf <- Apart
  TokensOf <- OneToken
  Streams = {}
  Funds = 3
  Idems = {i1, i2}
  Refs = {f1}
  LimitSets <- OneLimit
  Overrides = {NoValue}
  TokenSizes = {1}
  UsedTokens = {1}
  Costs = {1}
  Grants = {4}
  Observed = {NoValue, 0, 1, 2, 3}
  MaxBudget = 9
  DayLength = 2
  Window = 1
  LockWait = 1
  MaxTime = 1
CHECK_DEADLOCK FALSE
PROPERTIES NoStaleAuthority LostHoldPauses HoldsResolve
