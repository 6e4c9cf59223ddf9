SPECIFICATION FairSpec
CONSTANTS
  s1 = s1
  c1 = c1
  Calls = {s1, c1}
  Streams = {s1}
  Queue = 1
  Batch = 2
  Channel = 2
  MaxEvents = 2
  SyncOn = FALSE
INVARIANT TypeOK RowInOnePlace DoneIsWhole RowTellsTheEnding CleanExitWritesAll
PROPERTY LeavingEndsTheStream RowsAreWritten
CHECK_DEADLOCK FALSE
