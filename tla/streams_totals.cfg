SPECIFICATION Spec
CONSTANTS
  Repeating = TRUE
  Calls <- MCCalls
  Manners <- MCManners
  MaxChunk = 12
INVARIANT TotalsAreMergedOnce
CHECK_DEADLOCK FALSE
