SPECIFICATION Spec
CONSTANTS
  Calls = {c1, c2, c3}
  Accounts = {a1}
  Folders = {inbox, archive}
  Sockets = {s1, s2}
  MaxReloads = 1
  None = none
INVARIANTS
  OpenIsKept
  NothingFromBeforeTheClose
  NoCommandStrays
  SendingIsAnswered
SYMMETRY Symmetry
