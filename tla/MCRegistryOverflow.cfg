SPECIFICATION Spec
CONSTANTS
  N = 1
  Reporters = {}
  Subscribed = {}
  ToolNames = {"a", "b"}
  Offers <- MCOffers
  Crashy = {}
  OverflowAt = 3
  MaxOutage = 3
  MaxTasks = 2
INVARIANTS
  DegradedHasRetry
