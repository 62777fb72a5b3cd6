SPECIFICATION ServiceSpec
CONSTANTS
  N = 2
  r1 = r1
  Reporters = {r1}
  Subscribed = {"module.degraded", "module.failed", "module.recovered"}
  ToolNames = {"a"}
  Offers <- MCOffers
  Crashy = {1}
  OverflowAt = 3
  MaxOutage = 1
  MaxTasks = 2
  Llm = 1
  Observer = "observer"
  Early = {1, 2, 3}
  Subscriptions = {1, 2, 3}
  TopicOf <- MCEachTopic
  HandlerOf <- MCOneHandler
INVARIANTS
  ObserverIsRight
