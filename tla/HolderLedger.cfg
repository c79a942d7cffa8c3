SPECIFICATION MCSpec
CONSTANTS
  NoValue = NoValue
  k1 = k1
  k2 = k2
  w1 = w1
  w2 = w2
  Requests = {r1, r2, r3}
  Wallets = {w1, w2}
  Keys = {k1, k2}
  WalletOf <- OwnWallets
  Idems = {i1, i2, i3}
  Refs = {f1, f2}
  LimitSets <- OneLimit
  Overrides = {NoValue, 6}
  TokenSizes = {1, 2, 3}
  UsedTokens = {1, 4}
  Costs = {0, 1, 3}
  Grants = {2, 3, 9}
  Observed = {NoValue, 2, 5, 9}
  MaxBudget = 9
  DayLength = 1
  Window = 1
  LockWait = 1
  MaxTime = 1
SYMMETRY Rename
INVARIANTS TypeOK ProjectionExact OverrunOnlyFromBilling OneChargePerIdem DayOversoldByOneAtMost ConcurrencyCapped
PROPERTIES ImplementsAccount AdmissionCovered SettlementFinal PausedWhileUncertain
