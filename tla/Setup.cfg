SPECIFICATION MCSpec
CONSTANTS
  Oauth = oauth
  Connector = connector
  Procs = {oauth, connector}
  Given = Given
  Inline = Inline
  Absent = Absent
  Blank = Blank
  MaxBoots <- MCBoots
  Requests = {r1, r2}
  Nobody = Nobody
  Earlier = Earlier
  MaxEdits = 1
INVARIANTS
  AgreeUnlessEmptied
  ClaimedOnce
  NoDefaultTaken
PROPERTIES
  AnswersEstablished
CHECK_DEADLOCK FALSE
