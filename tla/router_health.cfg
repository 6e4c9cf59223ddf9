SPECIFICATION Spec
CONSTANTS
  q1 = q1
  q2 = q2
  q3 = q3
  Requests = {q1, q2}
  Streamed = {}
  Limited = {}
  NumRoutes = 2
  Known = {1, 2}
  Offers <- AllOffer
  Needs <- NoNeeds
  ErrorsSeen = {"transient", "refused"}
  HasBreaker = TRUE
  HasPreflight = TRUE
  HasDeadline = FALSE
  Deadline = 0
  Order = "healthiest"
  HasBudget = FALSE
  Cap = 0
  AllowUnpriced = FALSE
  Pricing <- Unrated
  PublishedRate <- Free
  ReplyBound <- Free
  ReplyCost <- Free
  InputBound = 0
  First = 1
  Longest = 1
  Settled = 2
  Attempts = 2
  Base = 0
  Ceiling = 0
  RepeatTimeouts = FALSE
  RetryAfter = 0
SYMMETRY Interchangeable
INVARIANT TypeOK RestWaitedOut
PROPERTY RefusalIsFinal KeepsPromise
CHECK_DEADLOCK FALSE
