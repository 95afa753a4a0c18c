SPECIFICATION ScreensSpec
CONSTANTS
  Discovery = 10
  PerAttempt = 3
  Reach = 3
  MaxRedirects = 1
  MaxReach = 2
  MaxServers = 3
  Addresses = {blank, plain, proton}
  BlankAddress = blank
  Warned = {proton}
  Mail = {imap}
  Calendar = caldav
  Passwords = {good, bad}
  Empty = empty
  Right = good
  None = none
INVARIANTS
  LookupKeepsItsBudgets
PROPERTIES
  WarningFollowsTheAddress
  StoredIsMeant
