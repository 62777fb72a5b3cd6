SPECIFICATION Spec
CONSTANTS
  N = 1
  Reporters = {}
  Subscribed = {"module.recovered"}
  ToolNames = {"a", "b"}
  Offers <- MCOffers
  Crashy = {}
  OverflowAt = 3
  MaxOutage = 1
  MaxTasks = 2
INVARIANTS
  DegradedHasRetry
