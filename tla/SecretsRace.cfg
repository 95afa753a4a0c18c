SPECIFICATION SecretsSpec
CONSTANTS
  Procs = {p1, p2}
  Given = Given
  Inline = Inline
  Absent = Absent
  Blank = Blank
  MaxBoots <- Twice
INVARIANT BothHoldOne
CHECK_DEADLOCK FALSE
