SPECIFICATION Spec
CONSTANTS
  Clients = {c1, c2}
  MaxClients = 1
  AccessTtl = 1
  RefreshTtl = 1
  MaxTokens = 3
  MaxEpoch = 1
  MaxTime = 1
SYMMETRY AnyClient
INVARIANTS
  WithdrawnRefused
  ReuseNeedsReplay
  SessionKept
