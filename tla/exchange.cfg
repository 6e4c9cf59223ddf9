SPECIFICATION Spec
CONSTANTS
  Sets <- MCSets
  Enabled <- MCEnabled
  Providers <- MCProviders
  Names <- MCNames
  Questions <- MCQuestions
  Replies <- MCReplies
  MaxTurns = 2
INVARIANT AskedIsCarried ConversationCarried ResultsFindTheirCalls
CHECK_DEADLOCK FALSE
