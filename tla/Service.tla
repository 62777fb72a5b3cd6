-------------------------------- MODULE Service -----------------------------
(***************************************************************************)
(* The running service: the registry of module Registry with what it       *)
(* leaves to its surroundings filled in.                                   *)
(*                                                                         *)
(*   - Its publishers deliver to the event bus of EventBus, and go on when *)
(*     the handlers have ended.  One observer keeps account of what it was *)
(*     told; other subscribers come and go.                                *)
(*   - Module Llm starts and reports its health by a probe of LlmBackend   *)
(*     (farmhub/modules/llm/module.py), so that its outcomes follow from   *)
(*     what the server at the other end does.                              *)
(*   - GET /health (farmhub/api/routes_admin.py) walks the modules and     *)
(*     asks the running ones, among all of this.                           *)
(***************************************************************************)
EXTENDS Registry, EventBus, LlmBackend

CONSTANTS
  Llm,        \* the module that owns the connection; the others need no server
  Observer,   \* a handler that keeps account of what it is told
  Early       \* its subscriptions, made before the start and never ended

VARIABLES
  heard,      \* the last topic the observer was told about each module
  view,       \* the request for /health: the entry it awaits (0: none), what it lists
  downSince,  \* modules that were never RUNNING since the request came (history)
  servedIn    \* the server served at some time since the request came (history)

\* A task is named <<c>> for a caller c, and <<m, k>> for a retry.
Main == <<"main">>
Health == <<"health">>
View == <<"view">>
LlmAskers == {Main, Health, View} \cup {t \in RetryTasks : t[1] = Llm}

viewVars == <<view, downSince, servedIn>>
serviceVars == <<regVars, busVars, llmVars, heard, viewVars>>

ASSUME ServiceAssumption ==
  /\ Llm \in Modules
  /\ Offers[Llm] = {}
  /\ Early \subseteq Subscriptions
  /\ \A s \in Early : HandlerOf[s] = Observer
  /\ Subscribed = {TopicOf[s] : s \in Early}
  /\ Subscribed = BusTopics \cap Topics

NoView == 0
Replied == N + 1
Idle == [at |-> NoView, listed |-> {}]

-----------------------------------------------------------------------------
(* Module Llm: startup and health are a probe.                             *)

\* The callers that are in startup or health of module Llm.
Probing == {u \in LlmAskers :
  \/ u = Main /\ pc["main"] = "starting" /\ on["main"] = Llm
  \/ u = Health /\ pc["health"] = "probing" /\ on["health"] = Llm
  \/ u = View /\ view.at = Llm
  \/ u \in RetryTasks /\ rpc[u] = "starting"}

\* A step of u that is only taken with one of these answers, when it was a probe.
Given(u, answers) == u \in Probing => asking[u] \in answers


\* Bug: health() returns what startup had found.
Reports_Assumed(u, answers) == Given(u, answers) \/ (u \in Probing /\ answers = {"ok"})

\* LlmModule.health: re-probe; unavailable is UNHEALTHY, other errors go through.
Reports(u, answers) == Given(u, answers)


\* Bug: the module closes the shared connection in its shutdown.
ClientFollows_ModuleCloses ==
  client' = IF phase'[Llm] = "stopping" THEN "closed" ELSE client

\* Nobody but the lifespan's last step closes the client.
ClientFollows ==
  client' = IF pc["main"] = "closing" /\ pc'["main"] = "stopped" THEN "closed" ELSE client

-----------------------------------------------------------------------------
(* The steps of the registry, with their deliveries and answers.           *)

Silent == UNCHANGED busVars

\* _degrade publishes when the module is down, and goes on when it was delivered.
DegradeGoesOn(c) ==
  \/ DegradeShutdown(c) /\ Publish(<<c>>, "module.degraded", on[c])
  \/ DegradePublished(c) /\ Published(<<c>>) /\ Silent

MainGoesOn ==
  \/ (Boot \/ HealthEnded \/ RetriesEnded \/ ModuleStopped \/ CloseBackend) /\ Silent
  \/ StartOk /\ Given(Main, {"ok"}) /\ Silent
  \/ StartUnavailable /\ Given(Main, {"unavailable"}) /\ Silent
  \/ StartFails /\ Given(Main, {"raises"}) /\ Silent
  \/ DegradeGoesOn("main")

\* The server has drained its requests before the lifespan shuts down.
StopRequested == ShutdownRequested /\ view.at = 0 /\ Silent

HealthGoesOn ==
  \/ PollBegins /\ Silent
  \/ ProbeHealthy /\ Reports(Health, {"ok"}) /\ Silent
  \/ ProbeUnhealthy /\ Reports(Health, {"unavailable", "raises"}) /\ Silent
  \/ HealthCancelled /\ Abandon(Health)
  \/ DegradeGoesOn("health")

\* Modules with another dependency may notice by themselves; module Llm does not.
ReporterGoesOn(r) ==
  \/ Report(r) /\ on'[r] # Llm /\ Silent
  \/ DegradeGoesOn(r)

RetryGoesOn(t) ==
  \/ RetryWakes(t) /\ Silent
  \/ RetryOk(t) /\ Given(t, {"ok"}) /\ Publish(t, "module.recovered", t[1])
  \/ RetryUnavailable(t) /\ Given(t, {"unavailable"}) /\ Silent
  \/ RetryDown(t) /\ Silent
  \/ RetryFails(t) /\ Given(t, {"raises"}) /\ Silent
  \/ FailedDown(t) /\ Publish(t, "module.failed", t[1])
  \/ RetryPublished(t) /\ Published(t) /\ Silent
  \/ RetryCancelled(t) /\ Abandon(t)

RegistryGoesOn ==
  \/ MainGoesOn \/ StopRequested \/ HealthGoesOn
  \/ \E r \in Reporters : ReporterGoesOn(r)
  \/ \E t \in RetryTasks : RetryGoesOn(t)

-----------------------------------------------------------------------------
(* GET /health: ModuleRegistry.health.                                     *)

\* The walk from entry i on: an entry that is not RUNNING is listed at once, the next
\* one that is RUNNING is asked, and after the last the route replies.
ViewFrom(i, listed) ==
  \/ \E j \in i..N :
       /\ status[j] = "running"
       /\ \A k \in i..(j - 1) : status[k] # "running"
       /\ view' = [at |-> j, listed |-> listed \cup i..(j - 1)]
  \/ /\ \A k \in i..N : status[k] # "running"
     /\ view' = [at |-> Replied, listed |-> listed \cup i..N]

\* Requests come while the application serves.
ViewBegins == view.at = NoView /\ pc["main"] = "serving" /\ ViewFrom(1, {})

ViewHealthy == view.at \in Modules /\ Reports(View, {"ok"}) /\ ViewFrom(view.at + 1, view.listed)

ViewUnhealthy ==
  /\ view.at \in Modules
  /\ Reports(View, {"unavailable"})
  /\ ViewFrom(view.at + 1, view.listed \cup {view.at})

\* health() of a module raises: nothing catches it here, the request is a 500.
ViewRaises == view.at \in Modules /\ Reports(View, {"raises"}) /\ view' = Idle

ViewEnds == view.at = Replied /\ view' = Idle

ViewGoesOn ==
  /\ ViewBegins \/ ViewHealthy \/ ViewUnhealthy \/ ViewRaises \/ ViewEnds
  /\ UNCHANGED <<regVars, busVars, heard, vllm, client>>

-----------------------------------------------------------------------------
(* The surroundings: the server, the answers, handlers and subscribers.    *)

ServerGoesOn ==
  /\ ServerChanges
  /\ UNCHANGED <<regVars, busVars, heard, view>>

\* After MaxOutage failed attempts a retry gets its answer when the server is back: the
\* rounds of the retry loop in between differ in nothing but the attempt.
Answered(u) ==
  /\ Answer(u)
  /\ u \in RetryTasks /\ attempt[u] > MaxOutage => ProbeAnswer # "unavailable"
  /\ UNCHANGED <<regVars, busVars, heard, view>>


\* Bug: an exception of a handler reaches the task that publishes, which dies of it.
HandlerEnds_Escapes(d) ==
  /\ Handled(d)
  /\ IF d.by = Health /\ pc["health"] = "degPublish"
     THEN pc' = [pc EXCEPT !["health"] = "done"]
     ELSE UNCHANGED pc
  /\ heard' = [heard EXCEPT ![d.about] = IF d.handler = Observer THEN d.topic ELSE @]
  /\ UNCHANGED <<status, attempted, tools, handle, phase, on, rpc, attempt, failed,
                 vllm, client, view>>

\* A handler ends; those of a publisher that is cancelled end with it.
HandlerEnds(d) ==
  /\ Handled(d)
  /\ d.by = Health => pc["health"] # "cancelled"
  /\ d.by \in RetryTasks => rpc[d.by] # "cancelled"
  /\ heard' = [heard EXCEPT ![d.about] = IF d.handler = Observer THEN d.topic ELSE @]
  /\ UNCHANGED <<regVars, vllm, client, view>>

\* Other subscribers come and go; the observer stays.
SubscriberGoesOn(s) ==
  /\ Subscribe(s) \/ Unsubscribe(s)
  /\ UNCHANGED <<regVars, heard, vllm, client, view>>

-----------------------------------------------------------------------------
(* The specification.                                                      *)

\* What the request has seen so far.
Witnessed ==
  /\ downSince' = {m \in IF view.at = NoView THEN Modules ELSE downSince :
                     view'.at # NoView /\ status[m] # "running" /\ status'[m] # "running"}
  /\ servedIn' = (view'.at # NoView /\
                    (servedIn \/ vllm = "serving" \/ vllm' = "serving"))

ServiceInit ==
  /\ Init /\ BusInit(Early) /\ LlmInit(LlmAskers)
  /\ heard = [m \in Modules |-> "nothing"]
  /\ view = Idle
  /\ downSince = {}
  /\ servedIn = FALSE

Asks == Asking(Probing, Probing')

\* A step of a task of the service, with what it asks by it.
Step(A) == A /\ Asks /\ Witnessed

\* A step of the registry changes nothing of the server, the observer or the request.
RegistryStepWith(A) == Step(A /\ ClientFollows /\ UNCHANGED <<heard, view, vllm>>)

Tasks == {<<c>> : c \in Callers} \cup RetryTasks

ServiceNext ==
  \/ RegistryStepWith(RegistryGoesOn)
  \/ Step(ViewGoesOn)
  \/ \E d \in deliveries : Step(HandlerEnds(d))
  \/ \E s \in Subscriptions \ Early : Step(SubscriberGoesOn(s))
  \/ ServerGoesOn /\ Witnessed
  \/ \E u \in LlmAskers : Answered(u) /\ Witnessed
  \/ Ended /\ UNCHANGED serviceVars

ServiceSpec == ServiceInit /\ [][ServiceNext]_serviceVars

\* The loop is fair to its tasks, and a probe is answered or times out.  Nothing makes
\* the server change, anybody report, subscribe or ask for /health, or the process stop.
TaskFairness ==
  /\ WF_serviceVars(RegistryStepWith(MainGoesOn))
  /\ WF_serviceVars(RegistryStepWith(HealthGoesOn))
  /\ \A r \in Reporters : WF_serviceVars(RegistryStepWith(DegradeGoesOn(r)))
  /\ \A t \in RetryTasks : WF_serviceVars(RegistryStepWith(RetryGoesOn(t)))
  /\ \A u \in LlmAskers : WF_serviceVars(Answered(u) /\ Witnessed)
  /\ WF_serviceVars(view.at # NoView /\ Step(ViewGoesOn))

\* Handlers end.  This is asked of the subscribers: publish has no time-out.
HandlerFairness ==
  \A p \in Tasks : WF_serviceVars(\E d \in deliveries : d.by = p /\ Step(HandlerEnds(d)))

FairServiceSpec == ServiceSpec /\ TaskFairness /\ HandlerFairness

\* The same with handlers that may hang (MCServiceHang.cfg).
HangingServiceSpec == ServiceSpec /\ TaskFairness

-----------------------------------------------------------------------------
(* Properties.                                                             *)

ServiceTypeOK ==
  /\ TypeOK /\ BusTypeOK /\ LlmTypeOK
  /\ heard \in [Modules -> {"nothing"} \cup Topics]
  /\ view \in [at : 0..Replied, listed : SUBSET Modules]
  /\ downSince \in SUBSET Modules
  /\ servedIn \in BOOLEAN

\* Whatever the bus, the server and the reporters do: retries are neither forgotten nor
\* doubled, modules are called by one task at a time, their status is true until the
\* roll-back (_degrade, _retry_loop, mark_unhealthy, poll_health).
ServiceIsSound == SoundWhileOpen /\ DegradedHasRetry

\* Somebody has yet to publish what became of m, or the observer is being told.
Unsaid(m) ==
  \/ \E c \in Callers : pc[c] = "degShutdown" /\ on[c] = m
  \/ \E t \in RetryTasks : rpc[t] = "failShutdown" /\ t[1] = m
  \/ \E d \in deliveries : d.handler = Observer /\ d.about = m

\* Events arrive in the order in which things happened, though every handler is a task of
\* its own and a module's events come from different tasks: when nothing is left unsaid of
\* a module, what the observer heard last is what the registry says of it.
ObserverIsRight ==
  ~RollingBack =>
    \A m \in Modules : ~Unsaid(m) =>
      /\ status[m] = "degraded" => heard[m] = "module.degraded"
      /\ status[m] = "failed" => heard[m] = "module.failed"

\* GET /health hides no trouble, although modules come and go while it walks them: a module
\* that was down for the whole request is listed, and module Llm is left out only if the
\* server did serve during the request.
ViewIsHonest ==
  view.at = Replied => downSince \subseteq view.listed /\ (Llm \notin view.listed => servedIn)

\* The lifespan closes the connection "once, after nothing can still be using it": no
\* startup, health check or retry of module Llm, and no request, is then under way.
ClosedUnused == client = "closed" => Probing = {}

\* A server that comes back and stays is found again: module Llm does not stay degraded,
\* for as many shutdowns as it went through (LlmModule.shutdown, _retry_loop).
ComesBack == <>[](vllm = "serving") => <>[](status[Llm] # "degraded")

\* A server that goes and stays away is noticed: module Llm does not stay RUNNING on a
\* probe that was answered before, nor because a subscriber failed (_health_loop, EventBus).
GoneIsNoticed == <>[](vllm # "serving") => <>[](status[Llm] # "running")

\* Whatever a module's health() does, GET /health tells of the modules that are degraded.
\* Not so: see MCServiceView.cfg.
ViewAlwaysReplies == [][view.at \in Modules => view'.at # NoView]_serviceVars
=============================================================================
