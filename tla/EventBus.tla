------------------------------- MODULE EventBus -----------------------------
(***************************************************************************)
(* The event bus of farmhub/core/events.py: lists of handlers by topic,    *)
(* and publishers that wait until every handler they found has ended.      *)
(*                                                                         *)
(* publish copies the list, starts one delivery per handler at once and    *)
(* gathers them, so that a delivery is what remains of a publish; which    *)
(* task publishes, and what it does before and after, is its module's.     *)
(***************************************************************************)
EXTENDS Naturals, Sequences, SequencesExt

CONSTANTS
  Subscriptions,   \* calls of subscribe, each with the unsubscribe it returned
  TopicOf,         \* the topic of each
  HandlerOf        \* the handler of each; two subscriptions may share one

Handlers == {HandlerOf[s] : s \in Subscriptions}
BusTopics == {TopicOf[s] : s \in Subscriptions}

ASSUME EventBusAssumption ==
  /\ DOMAIN TopicOf = Subscriptions
  /\ DOMAIN HandlerOf = Subscriptions

VARIABLES
  handlers,     \* _handlers: for every topic, the list of its handlers
  deliveries,   \* the handlers that run now
  sub           \* of every subscription: "none", "live" or "ended" (history)

busVars == <<handlers, deliveries, sub>>

\* What runs is the handler at place slot of publisher by's copy of the list.
Delivery(by, topic, about, slot) ==
  [by |-> by, topic |-> topic, about |-> about, slot |-> slot,
   handler |-> handlers[topic][slot]]

HandlersOf(topic) == IF topic \in BusTopics THEN handlers[topic] ELSE <<>>

-----------------------------------------------------------------------------

Subscribe(s) ==
  /\ sub[s] = "none"
  /\ handlers' = [handlers EXCEPT ![TopicOf[s]] = Append(@, HandlerOf[s])]
  /\ sub' = [sub EXCEPT ![s] = "live"]
  /\ UNCHANGED deliveries

\* Bug: whichever handler came first is removed.
Unsubscribe_First(s) ==
  /\ sub[s] # "none"
  /\ handlers' = [handlers EXCEPT ![TopicOf[s]] = IF @ = <<>> THEN @ ELSE Tail(@)]
  /\ sub' = [sub EXCEPT ![s] = "ended"]
  /\ UNCHANGED deliveries

\* The function subscribe returned: it removes the first handler equal to its own, if
\* there is one.  It may be called again.
Unsubscribe(s) ==
  /\ sub[s] # "none"
  /\ handlers' = [handlers EXCEPT ![TopicOf[s]] = RemoveFirst(@, HandlerOf[s])]
  /\ sub' = [sub EXCEPT ![s] = "ended"]
  /\ UNCHANGED deliveries

\* publish by task by: a delivery to every handler of now.
Publish(by, topic, about) ==
  /\ deliveries' = deliveries \cup
       {Delivery(by, topic, about, slot) : slot \in DOMAIN HandlersOf(topic)}
  /\ UNCHANGED <<handlers, sub>>

\* A handler returns, or raises and _deliver logs it: the publisher cannot tell.
Handled(d) ==
  /\ d \in deliveries
  /\ deliveries' = deliveries \ {d}
  /\ UNCHANGED <<handlers, sub>>


\* Bug: publish does not wait for its handlers.
Published_NoWait(by) == TRUE

\* gather is done: no handler that by started is left.
Published(by) == \A d \in deliveries : d.by # by

\* The publisher is cancelled: gather cancels its deliveries and ends after them.
Abandon(by) ==
  /\ deliveries' = {d \in deliveries : d.by # by}
  /\ UNCHANGED <<handlers, sub>>

\* Those of the subscriptions in early are made before anything is published.
BusInit(early) ==
  /\ handlers = [topic \in BusTopics |->
       SetToSeq({HandlerOf[s] : s \in {r \in early : TopicOf[r] = topic}})]
  /\ deliveries = {}
  /\ sub = [s \in Subscriptions |-> IF s \in early THEN "live" ELSE "none"]

-----------------------------------------------------------------------------

BusTypeOK ==
  /\ handlers \in [BusTopics -> Seq(Handlers)]
  /\ sub \in [Subscriptions -> {"none", "live", "ended"}]
  /\ \A d \in deliveries : d.topic \in BusTopics /\ d.handler \in Handlers

\* Whoever subscribed and has not unsubscribed is still in the list, whatever the others
\* subscribed, unsubscribed or unsubscribed twice (EventBus.subscribe).
SubscriptionHolds ==
  \A s \in Subscriptions : sub[s] = "live" => HandlerOf[s] \in Range(handlers[TopicOf[s]])
=============================================================================
