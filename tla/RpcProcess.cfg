SPECIFICATION RpcSpec
CONSTANTS
  Unset = Unset
  shared = shared
  own = own
  x1 = x1
  Clients = {shared, own}
  Tasks = {a1, a2, x1}
  ClientOf <- MCClientOf
  Slots = 2
  Gap = 2
  Timeout = 3
  GenesisLife = 2
  LastTick = 3
CHECK_DEADLOCK FALSE
PROPERTIES ProcessWithinBudget
