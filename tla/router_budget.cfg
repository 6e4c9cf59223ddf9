SPECIFICATION Spec
CONSTANTS
  q1 = q1
  q2 = q2
  q3 = q3
  Requests = {q1, q2, q3}
  Streamed = {q1}
  Limited = {q1, q2, q3}
  NumRoutes = 4
  Known = {1, 2, 3, 4}
  Offers <- AllOffer
  Needs <- NoNeeds
  ErrorsSeen = {"invalid"}
  HasBreaker = FALSE
  HasPreflight = FALSE
  HasDeadline = FALSE
  Deadline = 0
  Order = "cheapest"
  HasBudget = TRUE
  Cap = 2
  AllowUnpriced = TRUE
  Pricing <- Mixed
  PublishedRate <- Rates
  ReplyBound <- Bounds
  ReplyCost <- Costs
  InputBound = 1
  First = 1
  Longest = 2
  Settled = 3
  Attempts = 1
  Base = 0
  Ceiling = 0
  RepeatTimeouts = FALSE
  RetryAfter = 0
INVARIANT SpentCapStopsNewWork OvershootsByInputOnly UnmeasuredIsPending NothingSentIsTrue
CHECK_DEADLOCK FALSE
