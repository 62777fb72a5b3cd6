SPECIFICATION SystemSpec
CONSTANTS
  N = 1
  Reporters = {}
  Subscribed = {}
  ToolNames = {"read", "comfort", "forbidden"}
  Offers <- MCOffers
  Crashy = {1}
  OverflowAt = 3
  MaxOutage = 1
  MaxTasks = 2
  c1 = c1
  Calls = {c1}
  AsksFor = {"read", "comfort", "forbidden", "unheard of"}
  TierOf <- MCTierOf
INVARIANTS
  EveryIntentHasOutcome
