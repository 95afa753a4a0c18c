SPECIFICATION FairSpec
CONSTANTS
  Ids = {"m"}
  Forms = {f1, f2}
  Reloads = {l1, l2}
  MaxTries = 1
  MaxVersions = 3
INVARIANTS
  QuietMemoryIsCurrent
  OneWritePerVersion
PROPERTIES
  EditsSurvive
  MutationsEnd
