SPECIFICATION ServicesSpec
CONSTANTS
  m1 = m1
  m2 = m2
  s1 = s1
  s2 = s2
  s3 = s3
  s4 = s4
  token = token
  other = other
  None = None
  Callers = {c1, c2}
  Models = {m1, m2}
  Snapshot = {m1}
  LiveLife = 2
  SnapshotLife = 1
  Life <- MCLife
  NetworkLimit = 3
  ReadTime = 1
  LastTime = 5
  Nothing = Nothing
  Viewers = {v1, v2}
  StatusLife = 2
  BalanceLife = 3
  Cooldown = 1
  MaxBlockAge = 2
  GatewayTime = 1
  LastMoment = 7
  Unset = Unset
  shared = shared
  own = own
  x1 = x1
  Clients = {shared, own}
  Tasks = {a1, a2, a3, x1}
  ClientOf <- MCClientOf
  Slots = 2
  Gap = 1
  Timeout = 2
  GenesisLife = 2
  LastTick = 3
  Absent = Absent
  Clerks = {d1, d2}
  Sigs = {s1, s2, s3, s4}
  Tx <- MCTx
  Mint = token
  LastSlot = 2
  Missing = Missing
  Partial = Partial
  Runs = {b1, b2}
  MaxVersions = 2
  Unread = Unread
  UsageIds = {u1, u2, u3, u4}
  CostOf <- MCCost
  PageSize = 2
  MaxPages = 2
  h1 = h1
  h2 = h2
  Accs = {h1, h2}
  Accounts <- MCAccounts
  Mints <- MCMints
  Typed <- MCTyped
  Decimals = 1
  RawMax = 12
  FinalSlot = 2
  Gone = Gone
CHECK_DEADLOCK FALSE
INVARIANTS ServedIsCurrent DisabledStaysOut TreasuryCurrent ReceiptsCountOnce BackupsAreWhole ScanMeansList ToolsAgree
PROPERTIES RpcWithinBudget AnswersCome
