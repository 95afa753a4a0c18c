SPECIFICATION DurableSpec
CONSTANTS
  Clients = {c1}
  MaxClients = 1
  AccessTtl = 1
  RefreshTtl = 1
  MaxTokens = 2
  MaxEpoch = 0
  MaxTime = 1
  MaxWrites = 1
  MaxStops = 1
INVARIANTS
  CleanRestartsCostNothing
  WithdrawalOnDiskHolds
