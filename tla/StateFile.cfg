SPECIFICATION FairSpec
CONSTANTS
  MaxState = 4
  States <- Numbers
  Empty = 0
  Later <- InOrder
  MaxWrites = 3
INVARIANTS
  CloseKeepsAll
PROPERTIES
  ReachesTheDisk
