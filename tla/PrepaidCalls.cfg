SPECIFICATION FairGatewaySpec
CONSTANTS
  NoValue = NoValue
  r1 = r1
  r2 = r2
  k1 = k1
  w1 = w1
  i1 = i1
  i2 = i2
  Requests = {r1, r2}
  Wallets = {w1}
  Keys = {k1}
  WalletOf <- OneWallet
  KeyLimit <- Limits
  KeyOf <- OneKey
  IdemOf <- Apart
  AmountOf <- OneEach
  Idems = {i1, i2}
  Refs = {f1}
  Amounts = {1}
  Bills = {0, 2}
  Grants = {3}
  Rates = {1, 2}
  DailyBudget = 9
  WalletBudget = 9
  GlobalRate = 9
  ActiveLimit = 3
  MaxBalance = 9
  DayLength = 2
  Window = 1
  LockWait = 1
  MaxTime = 1
CHECK_DEADLOCK FALSE
PROPERTIES UsesLedger NoBlindRefund LostHoldPauses HoldsResolve
