SPECIFICATION FairSpec
CONSTANTS
  q1 = q1
  q2 = q2
  q3 = q3
  Requests = {q1, q2}
  Streamed = {}
  Limited = {}
  NumRoutes = 2
  Known = {1, 2}
  Offers <- SomeOffer
  Needs <- SomeNeed
  ErrorsSeen = {"rate_limited_for", "timeout"}
  HasBreaker = TRUE
  HasPreflight = FALSE
  HasDeadline = TRUE
  Deadline = 4
  Order = "as_listed"
  HasBudget = FALSE
  Cap = 0
  AllowUnpriced = FALSE
  Pricing <- Unrated
  PublishedRate <- Free
  ReplyBound <- Free
  ReplyCost <- Free
  InputBound = 0
  First = 1
  Longest = 2
  Settled = 2
  Attempts = 2
  Base = 1
  Ceiling = 2
  RepeatTimeouts = FALSE
  RetryAfter = 2
INVARIANT OneFailurePerRequest
PROPERTY AskedWaitHonoured EveryRequestEnds
CHECK_DEADLOCK FALSE
