SPECIFICATION FairSpec
CONSTANTS
  a = a
  b = b
  NoTask = NoTask
  Requests = {"p", "q"}
  Objects = {a, b}
  Work <- TwoRequests
  Workers = {w1, w2, w3}
  Size = 2
  MaxRemembered = 1
INVARIANTS
  HangingCostBounded
  OneTurnAhead
PROPERTIES
  PromiseKept
  EveryTaskSettles
CHECK_DEADLOCK FALSE
