------------------------------ MODULE MCService -----------------------------
(* The service with module Llm and one that can be reported.               *)
EXTENDS Service

MCOffers == [m \in Modules |-> IF m = Llm THEN {} ELSE {"a"}]
MCTopicOf == [s \in Subscriptions |-> IF s >= 2 THEN "module.failed" ELSE "module.degraded"]
MCHandlerOf == [s \in Subscriptions |-> IF s <= 2 THEN "observer" ELSE "guest"]
MCEachTopic == [s \in Subscriptions |-> CASE s = 1 -> "module.degraded"
                                           [] s = 2 -> "module.failed"
                                           [] s >= 3 -> "module.recovered"]
MCOneHandler == [s \in Subscriptions |-> "observer"]
=============================================================================
