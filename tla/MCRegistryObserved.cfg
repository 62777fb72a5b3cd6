SPECIFICATION FairSpec
CONSTANTS
  N = 3
  Reporters = {}
  Subscribed = {"module.degraded", "module.recovered", "module.failed"}
  ToolNames = {"a", "b"}
  Offers <- MCOffers
  Crashy = {2}
  OverflowAt = 3
  MaxOutage = 1
  MaxTasks = 2
INVARIANTS
  TypeOK
  RetryIsNamed
  OneLifecycleCall
  StatusIsTruthful
  QuietWhenClosed
  ReverseStop
PROPERTIES
  RollbackAdvances
  StartsClean
