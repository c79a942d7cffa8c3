SPECIFICATION Spec
CONSTANTS
  NoValue = NoValue
  k1 = k1
  k2 = k2
  k3 = k3
  w1 = w1
  w2 = w2
  Requests = {r1, r2}
  Wallets = {w1, w2}
  Keys = {k1, k2, k3}
  WalletOf <- TwoWallets
  KeyLimit <- KeyLimits
  Idems = {i1, i2}
  Refs = {f1, f2}
  Amounts = {1, 2}
  Bills = {0, 3}
  Grants = {3}
  Rates = {9}
  DailyBudget = 4
  WalletBudget = 3
  GlobalRate = 9
  ActiveLimit = 3
  MaxBalance = 9
  DayLength = 1
  Window = 1
  LockWait = 1
  MaxTime = 1
SYMMETRY Rename
INVARIANTS CreditConserved OverdraftOnlyFromBilling BudgetExceededByOneAtMost
PROPERTIES EachWalletImplementsAccount ReviewClosedByOperator
