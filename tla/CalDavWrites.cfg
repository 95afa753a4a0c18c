SPECIFICATION TheSpec
CONSTANTS
  MaxTexts = 3
  Absent = Absent
  NoTag = NoTag
  AnyTag = AnyTag
  Callers = {c1, c2}
  Objects <- SomeObjects
  Asked <- SomeAsked
  Mailbox = gmail
  Principal = nextcloud
  None = none
INVARIANTS
  WrittenAsOurselves
  NothingLeftOutInSilence
PROPERTIES
  KeepsTexts
  AnswersAreTrue
CHECK_DEADLOCK FALSE
