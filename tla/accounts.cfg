SPECIFICATION Spec
CONSTANTS
  Million = 10
  Thousand = 10
  Most = 1000000
  DayLength = 2
  Lasting = 6
  Split <- MCSplit
  Built <- MCBuilt
  Enabled <- MCEnabled
  Sets <- MCSets
  Sends <- MCSends
  Faulty <- MCFaulty
  RetryBase = 1
  RetryCeiling = 2
  RetryAfter = 2
  Took <- MCTook
  Late <- MCLate
  MaxCalls = 1
  Resizes <- MCResizes
  Chats <- MCChats
  MaxChats = 2
  MaxNow = 1
  Filters <- MCFilters
  Limits <- MCLimits
ACTION_CONSTRAINT Apart
INVARIANT BillIsAFloor OneRowTellsTheCall AnswersWhatWasAsked PagesListTheTotals
PROPERTY MediaKeepsPromise
CHECK_DEADLOCK FALSE
