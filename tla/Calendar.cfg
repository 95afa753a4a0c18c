SPECIFICATION Spec
CONSTANTS
  Day = 4
  Days = 3
  Lengths = {2}
  Moves <- SomeMoves
  Ours = ours
  Theirs = theirs
  Original = original
  ForeignTimes = {1, 5, 6, 9}
  ForeignLengths = {1}
  MaxWrites = 2
  None = none
  MailboxAddress = gmail
  PrincipalAddress = nextcloud
  Guests = {ann}
  Boss = boss
  Nobody = nobody
  MaxVevents = 2
  DayLength = 4
  Horizon = 12
  Zones <- SomeZones
  Utc <- Steady
  NoZone = noZone
  Events <- SomeEvents
  MaxEvents = 2
  Reports <- SomeReports
  Queries <- SomeQueries
  NoQuery = noQuery
  MaxSlots = 1
  Unasked = unasked
INVARIANTS
  OnlyTheNamedOccurrence
  SeriesMovesAsOne
  WindowShowsWhatOverlaps
  MailedAreNamed
  QuietCallsStayQuiet
  SlotsAreWhatIsFree
  EventsTakeTheirTime
CHECK_DEADLOCK FALSE
