SPECIFICATION FairSpec
CONSTANTS
  N = 3
  Reporters = {}
  Subscribed = {"module.degraded", "module.failed"}
  ToolNames = {"a", "b"}
  Offers <- MCOffers
  Crashy = {2}
  OverflowAt = 3
  MaxOutage = 2
  MaxTasks = 2
INVARIANTS
  DegradedHasRetry
  OneLifecycleCall
  StatusIsTruthful
  QuietWhenClosed
  OneOwnerPerTool
PROPERTIES
  StartsClean
  DegradedResolves
  LifespanProgress
  ImplementsLifecycle
