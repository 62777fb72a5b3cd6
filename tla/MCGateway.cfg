SPECIFICATION SystemSpec
CONSTANTS
  N = 2
  Reporters = {}
  Subscribed = {}
  ToolNames = {"read", "comfort", "forbidden"}
  Offers <- MCOffers
  Crashy = {1}
  OverflowAt = 3
  MaxOutage = 1
  MaxTasks = 2
  c1 = c1
  c2 = c2
  Calls = {c1, c2}
  AsksFor = {"read", "comfort", "forbidden", "unheard of"}
  TierOf <- MCTierOf
INVARIANTS
  RunsOnlyRead
  NothingRunsUnaudited
  ExactlyOneOutcome
PROPERTIES
  ImplementsAuditTrail
