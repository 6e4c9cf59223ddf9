SPECIFICATION Spec
CONSTANTS
  Repeating = FALSE
  Calls <- MCCalls
  Manners <- MCManners
  MaxChunk = 12
INVARIANT CutsDoNotMatter FoldsToTheReply ClientSeesWhatIsRecorded
CHECK_DEADLOCK FALSE
