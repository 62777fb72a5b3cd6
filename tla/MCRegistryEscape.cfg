SPECIFICATION Spec
CONSTANTS
  N = 1
  r1 = r1
  Reporters = {r1}
  Subscribed = {}
  ToolNames = {"a", "b"}
  Offers <- MCOffers
  Crashy = {}
  OverflowAt = 3
  MaxOutage = 1
  MaxTasks = 2
INVARIANTS
  QuietWhenClosed
