----------------------------- MODULE ServiceProofs ---------------------------
(***************************************************************************)
(* Proofs about the composed service: whatever the event bus, the server   *)
(* of the language model, the subscribers and the requests do, the         *)
(* registry in it makes steps of module Registry only, and so what is      *)
(* proved of the registry holds in the service.  From that, when the       *)
(* shared connection is closed and what GET /health tells; that the event  *)
(* bus loses no subscriber; and that the observer hears the truth last.    *)
(***************************************************************************)
EXTENDS Service, RegistryProofs, SequenceTheorems, FiniteSetTheorems, WellFoundedInduction

\* A step of the registry among its surroundings is one of the registry alone.
LEMMA RegistryGoesOnAlone == RegistryGoesOn => Next
<1>1. MainGoesOn => MainStep
  BY DEF MainGoesOn, MainStep, DegradeGoesOn, Degrading
<1>2. StopRequested => ShutdownRequested
  BY DEF StopRequested
<1>3. HealthGoesOn => HealthStep
  BY DEF HealthGoesOn, HealthStep, DegradeGoesOn, Degrading
<1>4. ASSUME NEW r \in Reporters PROVE ReporterGoesOn(r) => Report(r) \/ Degrading(r)
  BY DEF ReporterGoesOn, DegradeGoesOn, Degrading
<1>5. ASSUME NEW t \in RetryTasks PROVE RetryGoesOn(t) => RetryStep(t)
  BY DEF RetryGoesOn, RetryStep
<1> QED
  BY <1>1, <1>2, <1>3, <1>4, <1>5 DEF RegistryGoesOn, Next, RegistryNext

\* Everything else leaves the registry as it is.
LEMMA ServiceStep == [ServiceNext]_serviceVars => [Next]_regVars
<1>1. RegistryStepWith(RegistryGoesOn) => Next
  BY RegistryGoesOnAlone DEF RegistryStepWith, Step
<1>2. Step(ViewGoesOn) => UNCHANGED regVars
  BY DEF Step, ViewGoesOn
<1>3. ASSUME NEW d \in deliveries PROVE Step(HandlerEnds(d)) => UNCHANGED regVars
  BY DEF Step, HandlerEnds
<1>4. ASSUME NEW s \in Subscriptions \ Early PROVE Step(SubscriberGoesOn(s)) => UNCHANGED regVars
  BY DEF Step, SubscriberGoesOn
<1>5. ServerGoesOn => UNCHANGED regVars
  BY DEF ServerGoesOn
<1>6. ASSUME NEW u \in LlmAskers PROVE Answered(u) => UNCHANGED regVars
  BY DEF Answered
<1>7. UNCHANGED serviceVars => UNCHANGED regVars
  BY DEF serviceVars
<1> QED
  BY <1>1, <1>2, <1>3, <1>4, <1>5, <1>6, <1>7 DEF ServiceNext

\* The service implements the registry: what module Registry leaves open, and the event
\* bus, the server, GET /health and the subscribers fill in, adds no behaviour to it.
THEOREM ServiceImplementsRegistry == ServiceSpec => Spec
<1>1. ServiceInit => Init
  BY DEF ServiceInit
<1> QED
  BY <1>1, ServiceStep, PTL DEF ServiceSpec, Spec

\* In the service retries are neither forgotten nor doubled, modules are called by one
\* task at a time and their status is true until the roll-back, for any number of modules,
\* handlers and reporters, and however the server comes and goes, if no outage lasts until
\* the backoff overflows (_degrade, _retry_loop, mark_unhealthy, poll_health).
THEOREM ServiceStaysSound == Unobserved => (ServiceSpec => []ServiceIsSound)
<1> SUFFICES ASSUME Unobserved PROVE ServiceSpec => []ServiceIsSound
  OBVIOUS
<1>1. Spec => []SoundWhileOpen
  BY SoundUntilRollback
<1>2. Spec => []DegradedHasRetry
  BY NoModuleForgotten
<1>3. SoundWhileOpen /\ DegradedHasRetry => ServiceIsSound
  BY DEF ServiceIsSound
<1> QED
  BY <1>1, <1>2, <1>3, ServiceImplementsRegistry, PTL

-----------------------------------------------------------------------------
(* The shared connection.                                                  *)

\* The client is closed by the last step of the lifespan, and requests are served while
\* the lifespan has not begun to shut down.
ConnectionInv ==
  /\ client = "closed" => pc["main"] = "stopped"
  /\ view.at # NoView => pc["main"] = "serving"

\* The lifespan by itself leaves neither.
LEMMA LifespanWaits == MainStep => pc["main"] \notin {"serving", "stopped"}
BY DEF MainStep, Boot, StartOk, StartUnavailable, StartFails, HealthEnded, RetriesEnded,
       ModuleStopped, CloseBackend, Degrading, DegradeShutdown, DegradePublished

\* Only a request to stop ends serving, and the end is the end.
LEMMA ServingEnds ==
  ASSUME TypeOK, RegistryGoesOn
  PROVE  /\ pc["main"] = "stopped" => pc'["main"] = "stopped"
         /\ pc["main"] = "serving" => pc'["main"] = "serving" \/ view.at = NoView
<1>1. CASE MainGoesOn
  <2>1. MainStep
    BY <1>1 DEF MainGoesOn, MainStep, DegradeGoesOn, Degrading
  <2> QED
    BY <2>1, LifespanWaits
<1>2. CASE StopRequested
  BY <1>2 DEF StopRequested, ShutdownRequested, NoView
<1>3. CASE HealthGoesOn
  <2>1. HealthStep
    BY <1>3 DEF HealthGoesOn, HealthStep, DegradeGoesOn, Degrading
  <2> QED
    BY <2>1, OthersLeaveMain
<1>4. ASSUME NEW r \in Reporters, ReporterGoesOn(r) PROVE pc'["main"] = pc["main"]
  <2>1. Report(r) \/ Degrading(r)
    BY <1>4 DEF ReporterGoesOn, DegradeGoesOn, Degrading
  <2> QED
    BY <2>1, OthersLeaveMain
<1>5. ASSUME NEW t \in RetryTasks, RetryGoesOn(t) PROVE pc'["main"] = pc["main"]
  <2>1. RetryStep(t)
    BY <1>5 DEF RetryGoesOn, RetryStep
  <2> QED
    BY <2>1, OthersLeaveMain
<1> QED
  BY <1>1, <1>2, <1>3, <1>4, <1>5 DEF RegistryGoesOn

LEMMA ConnectionStep ==
  ASSUME TypeOK, ConnectionInv, [ServiceNext]_serviceVars
  PROVE  ConnectionInv'
<1> USE DEF ConnectionInv
<1>1. CASE RegistryStepWith(RegistryGoesOn)
  <2>1. RegistryGoesOn /\ ClientFollows /\ view' = view
    BY <1>1 DEF RegistryStepWith, Step
  <2> QED
    BY <2>1, ServingEnds DEF ClientFollows
<1>2. CASE Step(ViewGoesOn)
  <2>1. /\ client' = client /\ pc' = pc
        /\ ViewBegins \/ ViewHealthy \/ ViewUnhealthy \/ ViewRaises \/ ViewEnds
    BY <1>2 DEF Step, ViewGoesOn, regVars
  <2>2. view.at # NoView \/ pc["main"] = "serving"
    BY <2>1, RegistryAssumption DEF ViewBegins, ViewHealthy, ViewUnhealthy, ViewRaises,
       ViewEnds, NoView, Modules, Replied
  <2> QED
    BY <2>1, <2>2
<1>3. ASSUME NEW d \in deliveries, Step(HandlerEnds(d)) PROVE ConnectionInv'
  BY <1>3 DEF Step, HandlerEnds, regVars
<1>4. ASSUME NEW s \in Subscriptions \ Early, Step(SubscriberGoesOn(s)) PROVE ConnectionInv'
  BY <1>4 DEF Step, SubscriberGoesOn, regVars, viewVars
<1>5. CASE ServerGoesOn /\ Witnessed
  BY <1>5 DEF ServerGoesOn, ServerChanges, regVars
<1>6. ASSUME NEW u \in LlmAskers, Answered(u) PROVE ConnectionInv'
  BY <1>6 DEF Answered, Answer, regVars
<1>7. CASE UNCHANGED serviceVars
  BY <1>7 DEF serviceVars, regVars, llmVars, viewVars
<1> QED
  BY <1>1, <1>2, <1>3, <1>4, <1>5, <1>6, <1>7 DEF ServiceNext

\* The lifespan closes the connection "once, after nothing can still be using it", if
\* modules do not report themselves: the roll-back has then left no task of the registry
\* (StagesOfRollback), and the server drained its requests before (lifespan, _rollback).
THEOREM NothingUsesClosed == Unreported => (ServiceSpec => []ClosedUnused)
<1> SUFFICES ASSUME Unreported PROVE ServiceSpec => []ClosedUnused
  OBVIOUS
<1>1. ServiceInit => ConnectionInv
  BY DEF ServiceInit, LlmInit, Idle, ConnectionInv
<1>2. TypeOK /\ ConnectionInv /\ [ServiceNext]_serviceVars => ConnectionInv'
  BY ConnectionStep
<1>3. ServiceSpec => []TypeOK /\ []ShutdownStrong
  BY ServiceImplementsRegistry, TypeCorrect, ShutdownAlways, PTL
<1>4. ConnectionInv /\ ShutdownStrong => ClosedUnused
  <2> SUFFICES ASSUME ConnectionInv, ShutdownStrong, client = "closed",
                      NEW u \in Probing
               PROVE  FALSE
    BY DEF ClosedUnused
  <2>1. pc["main"] = "stopped" /\ view.at = NoView
    BY DEF ConnectionInv
  <2>2. pc["health"] # "probing" /\ \A t \in RetryTasks : rpc[t] # "starting"
    BY <2>1 DEF ShutdownStrong, ShutdownInv, StagesOfRollback, RollingBack, Closed, Over
  <2>3. Llm # NoView
    BY ServiceAssumption, RegistryAssumption DEF NoView, Modules
  <2> QED
    BY <2>1, <2>2, <2>3 DEF Probing
<1> QED
  BY <1>1, <1>2, <1>3, <1>4, PTL DEF ServiceSpec

-----------------------------------------------------------------------------
(* GET /health.                                                            *)

\* What a request for /health may rely on in its walk: the modules it has passed and does
\* not list were up at some time since it came, the one it awaits too; and module Llm was
\* passed on an answer that the server gave since.
ViewInv ==
  /\ view \in [at : 0..Replied, listed : SUBSET Modules]
  /\ vllm \in ServerStates /\ client \in {"open", "closed"}
  /\ DOMAIN asking = LlmAskers
  /\ view.at # NoView =>
       /\ \A m \in downSince : m \in Modules /\ m # view.at /\ (m < view.at => m \in view.listed)
       /\ Llm < view.at /\ Llm \notin view.listed => servedIn
       /\ view.at = Llm /\ asking[View] = "ok" => servedIn

\* The request asks the server exactly while it awaits module Llm.
LEMMA ViewAsks == View \in LlmAskers /\ (View \in Probing <=> view.at = Llm)
BY DEF View, Main, Health, LlmAskers, Probing, RetryTasks

\* What a step that takes part in the asking does to the request's answer.
LEMMA AskingView ==
  ASSUME Asks, DOMAIN asking = LlmAskers
  PROVE  /\ DOMAIN asking' = LlmAskers
         /\ asking'[View] = "ok" => view.at = Llm /\ view'.at = Llm /\ asking[View] = "ok"
<1>1. View \in Probing' <=> view'.at = Llm
  BY DEF View, Main, Health, LlmAskers, Probing, RetryTasks
<1> QED
  BY <1>1, ViewAsks DEF Asks, Asking

\* The walk goes on from entry i: what it passes by is listed, what it awaits is up.
LEMMA ViewFromEffect ==
  ASSUME NEW i \in 1..(N + 1), NEW listed \in SUBSET Modules, ViewFrom(i, listed)
  PROVE  /\ view' \in [at : 0..Replied, listed : SUBSET Modules]
         /\ view'.at \in i..Replied /\ view'.listed = listed \cup (i..(view'.at - 1))
         /\ view'.at \in Modules => status[view'.at] = "running"
<1> USE RegistryAssumption DEF Modules, Replied
<1>1. ASSUME NEW j \in i..N, status[j] = "running",
             view' = [at |-> j, listed |-> listed \cup i..(j - 1)]
      PROVE  /\ view' \in [at : 0..Replied, listed : SUBSET Modules]
             /\ view'.at \in i..Replied /\ view'.listed = listed \cup (i..(view'.at - 1))
             /\ view'.at \in Modules => status[view'.at] = "running"
  <2>1. j \in 0..Replied /\ j \in i..Replied /\ listed \cup i..(j - 1) \in SUBSET Modules
    OBVIOUS
  <2> QED
    BY <1>1, <2>1
<1>2. ASSUME view' = [at |-> Replied, listed |-> listed \cup i..N]
      PROVE  /\ view' \in [at : 0..Replied, listed : SUBSET Modules]
             /\ view'.at \in i..Replied /\ view'.listed = listed \cup (i..(view'.at - 1))
             /\ view'.at \in Modules => status[view'.at] = "running"
  <2>1. /\ Replied \in 0..Replied /\ Replied \in i..Replied /\ Replied \notin Modules
        /\ listed \cup i..N \in SUBSET Modules /\ Replied - 1 = N
    OBVIOUS
  <2> QED
    BY <1>2, <2>1
<1> QED
  BY <1>1, <1>2 DEF ViewFrom

\* Steps of the others keep it: whoever is down may come up, and nothing else changes.
LEMMA ViewUndisturbed ==
  ASSUME ViewInv, Witnessed, view' = view, vllm' \in ServerStates,
         client' \in {"open", "closed"}, DOMAIN asking' = LlmAskers,
         asking'[View] = "ok" => asking[View] = "ok" \/ vllm = "serving"
  PROVE  ViewInv'
<1>1. view.at # NoView => downSince' \subseteq downSince /\ (servedIn => servedIn')
  BY DEF Witnessed
<1>2. view.at # NoView /\ vllm = "serving" => servedIn'
  BY DEF Witnessed
<1> QED
  BY <1>1, <1>2 DEF ViewInv

\* A step of the walk keeps it, when listed is what the request lists of the entries
\* before i, and module Llm was not passed over without an answer of the server.
LEMMA WalkKeeps ==
  ASSUME ViewInv, Witnessed, Asks, UNCHANGED <<status, vllm, client>>,
         NEW i \in 1..(N + 1), NEW listed \in SUBSET Modules, ViewFrom(i, listed),
         view.at # i, view.at < i,
         \A m \in downSince' : m < i => m \in listed,
         Llm < i /\ Llm \notin listed => servedIn'
  PROVE  ViewInv'
<1> USE RegistryAssumption
<1>1. /\ view' \in [at : 0..Replied, listed : SUBSET Modules]
      /\ view'.at \in i..Replied /\ view'.listed = listed \cup (i..(view'.at - 1))
      /\ view'.at \in Modules => status[view'.at] = "running"
  BY ViewFromEffect
<1>2. DOMAIN asking' = LlmAskers
      /\ (asking'[View] = "ok" => view.at = Llm /\ view'.at = Llm)
  BY AskingView DEF ViewInv
<1>3. /\ i \in Nat /\ view.at \in Nat /\ view'.at \in Nat /\ Llm \in Nat /\ N \in Nat
      /\ view.at # view'.at
  BY <1>1, ServiceAssumption DEF ViewInv, Modules, Replied
<1>4. ASSUME NEW m \in downSince'
      PROVE  m \in Modules /\ m # view'.at /\ (m < view'.at => m \in view'.listed)
  <2>1. m \in Modules /\ status[m] # "running"
    BY <1>4 DEF Witnessed, ViewInv
  <2>2. m # view'.at
    BY <1>1, <2>1
  <2>3. m < view'.at => m < i \/ m \in i..(view'.at - 1)
    BY <1>3, <2>1 DEF Modules
  <2> QED
    BY <1>1, <1>4, <2>1, <2>2, <2>3
<1>5. Llm < view'.at /\ Llm \notin view'.listed => servedIn'
  <2>1. Llm < view'.at => Llm < i \/ Llm \in i..(view'.at - 1)
    BY <1>3
  <2> QED
    BY <1>1, <2>1
<1> QED
  BY <1>1, <1>2, <1>3, <1>4, <1>5 DEF ViewInv

\* The request ends; the next one begins from nothing.
LEMMA EndKeeps ==
  ASSUME ViewInv, Asks, UNCHANGED <<vllm, client>>, view' = Idle
  PROVE  ViewInv'
<1>1. DOMAIN asking' = LlmAskers
  BY AskingView DEF ViewInv
<1> QED
  BY <1>1, RegistryAssumption DEF ViewInv, Idle, NoView, Replied

LEMMA ViewKeeps ==
  ASSUME ViewInv, Step(ViewGoesOn)
  PROVE  ViewInv'
<1> USE RegistryAssumption
<1>1. /\ Witnessed /\ Asks /\ UNCHANGED <<status, vllm, client>>
      /\ ViewBegins \/ ViewHealthy \/ ViewUnhealthy \/ ViewRaises \/ ViewEnds
  BY DEF Step, ViewGoesOn, regVars
<1>2. /\ Llm \in Nat /\ Llm >= 1 /\ N \in Nat /\ view.at \in Nat
      /\ view.listed \in SUBSET Modules
  BY ServiceAssumption DEF ViewInv, Modules, Replied
<1>3. CASE ViewBegins
  <2>1. view.at = 0 /\ ViewFrom(1, {}) /\ 1 \in 1..(N + 1) /\ {} \in SUBSET Modules
    BY <1>2, <1>3 DEF ViewBegins, NoView
  <2>2. \A m \in downSince' : ~(m < 1)
    BY <1>1, <2>1 DEF Witnessed, NoView, Modules
  <2> QED
    BY <1>1, <1>2, <2>1, <2>2, WalkKeeps
<1>4. ASSUME NEW listed \in SUBSET Modules, view.at \in Modules, view.listed \subseteq listed,
             ViewFrom(view.at + 1, listed),
             view.at # Llm \/ Llm \in listed \/ asking[View] = "ok"
      PROVE  ViewInv'
  <2>1. view.at \in Nat /\ view.at + 1 \in 1..(N + 1) /\ view.at # NoView
    BY <1>2, <1>4 DEF Modules, NoView
  <2>2. view'.at # NoView
    BY <1>4, <2>1, ViewFromEffect DEF NoView, Replied
  <2>3. downSince' \subseteq downSince /\ (servedIn => servedIn')
    BY <1>1, <2>1, <2>2 DEF Witnessed
  <2>4. \A m \in downSince' : m < view.at + 1 => m \in listed
    BY <1>4, <2>1, <2>3 DEF ViewInv, Modules
  <2>5. Llm < view.at + 1 /\ Llm \notin listed => servedIn'
    BY <1>2, <1>4, <2>1, <2>3 DEF ViewInv
  <2>6. view.at # view.at + 1 /\ view.at < view.at + 1
    BY <2>1
  <2> QED
    BY <1>1, <1>4, <2>1, <2>4, <2>5, <2>6, WalkKeeps
<1>5. CASE ViewHealthy
  <2>1. view.at = Llm => asking[View] = "ok"
    BY <1>5, ViewAsks DEF ViewHealthy, Reports, Given
  <2> QED
    BY <1>2, <1>4, <1>5, <2>1 DEF ViewHealthy
<1>6. CASE ViewUnhealthy
  <2>1. view.listed \cup {view.at} \in SUBSET Modules
    BY <1>2, <1>6 DEF ViewUnhealthy
  <2> QED
    BY <1>2, <1>4, <1>6, <2>1 DEF ViewUnhealthy
<1>7. CASE ViewRaises \/ ViewEnds
  BY <1>1, <1>7, EndKeeps DEF ViewRaises, ViewEnds
<1> QED
  BY <1>1, <1>3, <1>5, <1>6, <1>7

LEMMA ViewStep ==
  ASSUME ViewInv, [ServiceNext]_serviceVars
  PROVE  ViewInv'
<1>1. CASE RegistryStepWith(RegistryGoesOn)
  <2>1. Witnessed /\ Asks /\ view' = view /\ vllm' = vllm /\ ClientFollows
    BY <1>1 DEF RegistryStepWith, Step
  <2>2. client' \in {"open", "closed"}
    BY <2>1 DEF ClientFollows, ViewInv
  <2> QED
    BY <2>1, <2>2, AskingView, ViewUndisturbed DEF ViewInv
<1>2. CASE Step(ViewGoesOn)
  BY <1>2, ViewKeeps
<1>3. ASSUME NEW d \in deliveries, Step(HandlerEnds(d)) PROVE ViewInv'
  <2>1. Witnessed /\ Asks /\ view' = view /\ vllm' = vllm /\ client' = client
    BY <1>3 DEF Step, HandlerEnds
  <2> QED
    BY <2>1, AskingView, ViewUndisturbed DEF ViewInv
<1>4. ASSUME NEW s \in Subscriptions \ Early, Step(SubscriberGoesOn(s)) PROVE ViewInv'
  <2>1. Witnessed /\ Asks /\ view' = view /\ vllm' = vllm /\ client' = client
    BY <1>4 DEF Step, SubscriberGoesOn, viewVars
  <2> QED
    BY <2>1, AskingView, ViewUndisturbed DEF ViewInv
<1>5. CASE ServerGoesOn /\ Witnessed
  <2>1. /\ Witnessed /\ view' = view /\ vllm' \in ServerStates /\ client' = client
        /\ asking' = asking
    BY <1>5 DEF ServerGoesOn, ServerChanges
  <2> QED
    BY <2>1, ViewUndisturbed DEF ViewInv
<1>6. ASSUME NEW u \in LlmAskers, Answered(u), Witnessed PROVE ViewInv'
  <2>1. /\ view' = view /\ vllm' = vllm /\ client' = client
        /\ asking' = [asking EXCEPT ![u] = ProbeAnswer]
    BY <1>6 DEF Answered, Answer
  <2>2. ProbeAnswer = "ok" => vllm = "serving"
    BY DEF ProbeAnswer, ViewInv, ServerStates
  <2>3. DOMAIN asking' = LlmAskers
        /\ (asking'[View] = "ok" => asking[View] = "ok" \/ vllm = "serving")
    BY <2>1, <2>2, ViewAsks DEF ViewInv
  <2> QED
    BY <1>6, <2>1, <2>3, ViewUndisturbed DEF ViewInv
<1>7. CASE UNCHANGED serviceVars
  BY <1>7 DEF serviceVars, llmVars, viewVars, ViewInv
<1>8. CASE Ended /\ UNCHANGED serviceVars
  BY <1>7, <1>8
<1> QED
  BY <1>1, <1>2, <1>3, <1>4, <1>5, <1>6, <1>7, <1>8 DEF ServiceNext

LEMMA ViewAlways == ServiceSpec => []ViewInv
<1>1. ServiceInit => ViewInv
  <2> SUFFICES ASSUME ServiceInit PROVE ViewInv
    OBVIOUS
  <2>1. view = Idle /\ vllm \in ServerStates /\ client = "open" /\ DOMAIN asking = LlmAskers
    BY DEF ServiceInit, LlmInit
  <2> QED
    BY <2>1, RegistryAssumption DEF ViewInv, Idle, NoView, Replied
<1>2. ViewInv /\ [ServiceNext]_serviceVars => ViewInv'
  BY ViewStep
<1> QED
  BY <1>1, <1>2, PTL DEF ServiceSpec

\* GET /health hides no trouble: whatever degrades, recovers and fails while it walks the
\* modules, and however vLLM comes and goes (ModuleRegistry.health, LlmModule.health).
THEOREM HealthIsHonest == ServiceSpec => []ViewIsHonest
<1>1. ViewInv => ViewIsHonest
  <2> SUFFICES ASSUME ViewInv, view.at = Replied PROVE ViewIsHonest
    BY DEF ViewIsHonest
  <2>1. /\ N \in Nat /\ view.at # NoView /\ \A m \in Modules : m < view.at
        /\ Llm \in Modules
    BY RegistryAssumption, ServiceAssumption DEF Replied, NoView, Modules
  <2> QED
    BY <2>1 DEF ViewInv, ViewIsHonest
<1> QED
  BY <1>1, ViewAlways, PTL

\* No two modules that serve offer one tool, whatever the rest of the service does
\* (_register and the tools of an entry, ModuleRegistry).
THEOREM ServiceToolsHaveOneOwner == ServiceSpec => []OneOwnerPerTool
  BY ToolsHaveOneOwner, ServiceImplementsRegistry, PTL

-----------------------------------------------------------------------------
(* The event bus.                                                          *)

\* Min of the library has a value on a non-empty set of numbers.
LEMMA LeastNumber ==
  ASSUME NEW S \in SUBSET Nat, S # {}
  PROVE  Min(S) \in S /\ \A i \in S : Min(S) <= i
<1>1. PICK x \in S : \A y \in S : <<y, x>> \notin OpToRel(<, Nat)
  <2>1. IsWellFoundedOn(OpToRel(<, Nat), Nat)
    BY NatLessThanWellFounded
  <2> QED
    BY <2>1, WFMin
<1>2. \A y \in S : x <= y
  <2> TAKE y \in S
  <2>1. x \in Nat /\ y \in Nat
    OBVIOUS
  <2>2. <<y, x>> \notin OpToRel(<, Nat)
    BY <1>1
  <2>3. ~(y < x)
    BY <2>1, <2>2 DEF OpToRel
  <2> QED
    BY <2>1, <2>3
<1> QED
  BY <1>2 DEF Min

\* list.remove takes one element away, and no other.
LEMMA RemoveFirstEffect ==
  ASSUME NEW S, NEW seq \in Seq(S), NEW e
  PROVE  /\ RemoveFirst(seq, e) \in Seq(S)
         /\ \A x \in Range(seq) : x # e => x \in Range(RemoveFirst(seq, e))
<1>1. CASE \E i \in 1..Len(seq) : seq[i] = e
  <2> DEFINE I == {i \in 1..Len(seq) : seq[i] = e}
  <2>1. PICK k \in 1..Len(seq) :
          /\ seq[k] = e
          /\ RemoveFirst(seq, e) = SubSeq(seq, 1, k - 1) \o SubSeq(seq, k + 1, Len(seq))
    <3>1. SelectInSeq(seq, LAMBDA v : v = e) = Min(I)
      BY <1>1 DEF SelectInSeq
    <3>2. Min(I) \in I
      <4>1. I \in SUBSET Nat /\ I # {}
        BY <1>1, LenProperties
      <4> HIDE DEF I
      <4> QED
        BY <4>1, LeastNumber
    <3> QED
      BY <1>1, <3>1, <3>2 DEF RemoveFirst, RemoveAt
  <2> DEFINE l == SubSeq(seq, 1, k - 1)
             r == SubSeq(seq, k + 1, Len(seq))
  <2>2. Len(seq) \in Nat /\ k \in Nat /\ k >= 1 /\ k <= Len(seq)
    BY LenProperties
  <2>3. \A i \in 1..Len(seq) : seq[i] \in S
    BY ElementOfSeq
  <2>4. /\ l \in Seq(S) /\ Len(l) = k - 1
        /\ \A i \in 1..(k - 1) : l[i] = seq[i]
    <3>1. \A i \in 1..(k - 1) : seq[i] \in S
      BY <2>2, <2>3
    <3> QED
      BY <2>2, <3>1, SubSeqProperties
  <2>5. /\ r \in Seq(S) /\ Len(r) = Len(seq) - k
        /\ \A i \in 1..(Len(seq) - k) : r[i] = seq[k + i]
    <3>1. \A i \in (k + 1)..Len(seq) : seq[i] \in S
      BY <2>2, <2>3
    <3> QED
      BY <2>2, <3>1, SubSeqProperties
  <2> HIDE DEF l, r
  <2>6. l \o r \in Seq(S) /\ Range(l \o r) = Range(l) \cup Range(r)
    BY <2>4, <2>5, ConcatProperties, RangeConcatenation
  <2>7. ASSUME NEW x \in Range(seq), x # e PROVE x \in Range(l) \cup Range(r)
    <3>1. PICK i \in 1..Len(seq) : x = seq[i]
      BY LenProperties DEF Range
    <3>2. CASE i < k
      <4>1. i \in 1..(k - 1) /\ DOMAIN l = 1..(k - 1)
        BY <2>2, <2>4, <3>2, LenProperties
      <4> QED
        BY <2>4, <3>1, <4>1 DEF Range
    <3>3. CASE i > k
      <4>1. i - k \in 1..(Len(seq) - k) /\ k + (i - k) = i /\ DOMAIN r = 1..(Len(seq) - k)
        BY <2>2, <2>5, <3>3, LenProperties
      <4>2. r[i - k] = seq[i]
        BY <2>5, <4>1
      <4> QED
        BY <3>1, <4>1, <4>2 DEF Range
    <3>4. i # k
      BY <2>1, <2>7, <3>1
    <3> QED
      BY <2>2, <3>2, <3>3, <3>4
  <2> QED
    BY <2>1, <2>6, <2>7 DEF l, r
<1>2. CASE ~\E i \in 1..Len(seq) : seq[i] = e
  BY <1>2 DEF RemoveFirst
<1> QED
  BY <1>1, <1>2

\* No handler is subscribed twice to one topic.  unsubscribe removes by equality: called
\* twice, it takes the other subscription of that handler away (MCServiceShared.cfg).
OwnHandlers ==
  \A r, s \in Subscriptions :
    TopicOf[r] = TopicOf[s] /\ HandlerOf[r] = HandlerOf[s] => r = s

\* The observer does not unsubscribe.
EarlyStay == \A s \in Early : sub[s] = "live"
\* Only the registry publishes.
TopicsAreKnown == \A d \in deliveries : d.topic \in Topics

\* What publish starts.
LEMMA PublishEffect ==
  ASSUME BusTypeOK, NEW by, NEW topic, NEW about, Publish(by, topic, about)
  PROVE  /\ deliveries \subseteq deliveries' /\ UNCHANGED <<handlers, sub>>
         /\ \A d \in deliveries' \ deliveries :
              /\ topic \in BusTopics /\ d.handler \in Handlers
              /\ d.by = by /\ d.topic = topic /\ d.about = about
         /\ topic \in BusTopics => \A h \in Range(handlers[topic]) :
              \E d \in deliveries' : d.handler = h /\ d.topic = topic /\ d.about = about
<1>1. /\ deliveries' = deliveries \cup
           {Delivery(by, topic, about, slot) : slot \in DOMAIN HandlersOf(topic)}
      /\ UNCHANGED <<handlers, sub>>
  BY DEF Publish
<1>2. ASSUME NEW slot \in DOMAIN HandlersOf(topic)
      PROVE  /\ topic \in BusTopics /\ Delivery(by, topic, about, slot).handler \in Handlers
             /\ Delivery(by, topic, about, slot).by = by
             /\ Delivery(by, topic, about, slot).topic = topic
             /\ Delivery(by, topic, about, slot).about = about
  <2>1. topic \in BusTopics
    BY <1>2 DEF HandlersOf
  <2>2. handlers[topic] \in Seq(Handlers) /\ HandlersOf(topic) = handlers[topic]
    BY <2>1 DEF BusTypeOK, HandlersOf
  <2>3. slot \in 1..Len(handlers[topic])
    BY <1>2, <2>2, LenProperties
  <2>4. handlers[topic][slot] \in Handlers
    BY <2>2, <2>3, ElementOfSeq
  <2> QED
    BY <2>1, <2>4 DEF Delivery
<1>3. ASSUME topic \in BusTopics, NEW h \in Range(handlers[topic])
      PROVE  \E d \in deliveries' : d.handler = h /\ d.topic = topic /\ d.about = about
  <2>1. PICK slot \in DOMAIN HandlersOf(topic) : handlers[topic][slot] = h
    BY <1>3 DEF Range, HandlersOf
  <2>2. Delivery(by, topic, about, slot) \in deliveries'
    BY <1>1
  <2> QED
    BY <2>1, <2>2 DEF Delivery
<1> QED
  BY <1>1, <1>2, <1>3

\* What the service does to the bus.
LEMMA BusMoves ==
  ASSUME [ServiceNext]_serviceVars
  PROVE  \/ UNCHANGED busVars
         \/ \E by \in {<<c>> : c \in Callers} \cup RetryTasks, topic \in Topics : \E about :
              Publish(by, topic, about)
         \/ \E by : Abandon(by)
         \/ \E d \in deliveries : Handled(d)
         \/ \E s \in Subscriptions \ Early : Subscribe(s) \/ Unsubscribe(s)
<1> DEFINE Goal == \/ UNCHANGED busVars
                   \/ \E by \in {<<c>> : c \in Callers} \cup RetryTasks, topic \in Topics : \E about :
                        Publish(by, topic, about)
                   \/ \E by : Abandon(by)
<1>1. ASSUME NEW c \in Callers, DegradeGoesOn(c) PROVE Goal
  BY <1>1 DEF DegradeGoesOn, Silent, Topics
<1>2. ASSUME NEW t \in RetryTasks, RetryGoesOn(t) PROVE Goal
  BY <1>2 DEF RetryGoesOn, Silent, Topics
<1>3. RegistryGoesOn => Goal
  <2>1. MainGoesOn => Goal
    BY <1>1, CallerNames DEF MainGoesOn, Silent
  <2>2. HealthGoesOn => Goal
    BY <1>1, CallerNames DEF HealthGoesOn, Silent
  <2>3. StopRequested => Goal
    BY DEF StopRequested, Silent
  <2>4. ASSUME NEW r \in Reporters, ReporterGoesOn(r) PROVE Goal
    BY <1>1, <2>4, CallerNames DEF ReporterGoesOn, Silent
  <2> QED
    BY <1>2, <2>1, <2>2, <2>3, <2>4 DEF RegistryGoesOn
<1>4. RegistryStepWith(RegistryGoesOn) => Goal
  BY <1>3 DEF RegistryStepWith, Step
<1>5. Step(ViewGoesOn) \/ ServerGoesOn \/ UNCHANGED serviceVars => UNCHANGED busVars
  BY DEF Step, ViewGoesOn, ServerGoesOn, serviceVars
<1>6. ASSUME NEW u \in LlmAskers, Answered(u) PROVE UNCHANGED busVars
  BY <1>6 DEF Answered
<1>7. ASSUME NEW d \in deliveries, Step(HandlerEnds(d)) PROVE Handled(d)
  BY <1>7 DEF Step, HandlerEnds
<1>8. ASSUME NEW s \in Subscriptions \ Early, Step(SubscriberGoesOn(s))
      PROVE  Subscribe(s) \/ Unsubscribe(s)
  BY <1>8 DEF Step, SubscriberGoesOn
<1> QED
  BY <1>4, <1>5, <1>6, <1>7, <1>8 DEF ServiceNext

\* Neither subscriptions nor the deliveries of a publish take the others' away.
LEMMA BusStep ==
  ASSUME BusTypeOK, TopicsAreKnown, [ServiceNext]_serviceVars
  PROVE  /\ BusTypeOK' /\ TopicsAreKnown'
         /\ EarlyStay => EarlyStay'
         /\ OwnHandlers /\ SubscriptionHolds => SubscriptionHolds'
<1>1. CASE UNCHANGED busVars
  BY <1>1 DEF busVars, BusTypeOK, TopicsAreKnown, EarlyStay, SubscriptionHolds
<1>2. ASSUME NEW by, NEW topic \in Topics, NEW about, Publish(by, topic, about)
      PROVE  /\ BusTypeOK' /\ TopicsAreKnown' /\ UNCHANGED <<handlers, sub>>
  <2>1. /\ deliveries \subseteq deliveries' /\ UNCHANGED <<handlers, sub>>
        /\ \A d \in deliveries' \ deliveries :
              /\ topic \in BusTopics /\ d.handler \in Handlers
              /\ d.by = by /\ d.topic = topic /\ d.about = about
    BY <1>2, PublishEffect
  <2> QED
    BY <2>1 DEF BusTypeOK, TopicsAreKnown
<1>3. ASSUME (\E by : Abandon(by)) \/ (\E d \in deliveries : Handled(d))
      PROVE  /\ BusTypeOK' /\ TopicsAreKnown' /\ UNCHANGED <<handlers, sub>>
  <2>1. deliveries' \subseteq deliveries /\ UNCHANGED <<handlers, sub>>
    BY <1>3 DEF Abandon, Handled
  <2> QED
    BY <2>1 DEF BusTypeOK, TopicsAreKnown
<1>4. ASSUME UNCHANGED <<handlers, sub>>
      PROVE  (EarlyStay => EarlyStay') /\ (SubscriptionHolds => SubscriptionHolds')
  BY <1>4 DEF EarlyStay, SubscriptionHolds
<1>5. ASSUME NEW s \in Subscriptions \ Early, NEW list \in Seq(Handlers),
             NEW state \in {"live", "ended"},
             handlers' = [handlers EXCEPT ![TopicOf[s]] = list],
             sub' = [sub EXCEPT ![s] = state],
             UNCHANGED deliveries,
             state = "live" => HandlerOf[s] \in Range(list),
             \A h \in Range(handlers[TopicOf[s]]) :
               h # HandlerOf[s] \/ state = "live" => h \in Range(list)
      PROVE  /\ BusTypeOK' /\ TopicsAreKnown'
             /\ EarlyStay => EarlyStay'
             /\ OwnHandlers /\ SubscriptionHolds => SubscriptionHolds'
  <2>1. TopicOf[s] \in BusTopics
    BY DEF BusTopics
  <2>2. BusTypeOK' /\ TopicsAreKnown'
    BY <1>5 DEF BusTypeOK, TopicsAreKnown
  <2>3. EarlyStay => EarlyStay'
    BY <1>5, ServiceAssumption DEF EarlyStay, BusTypeOK
  <2>4. ASSUME OwnHandlers, SubscriptionHolds, NEW r \in Subscriptions, sub'[r] = "live"
        PROVE  HandlerOf[r] \in Range(handlers'[TopicOf[r]])
    <3>1. TopicOf[r] \in BusTopics
      BY DEF BusTopics
    <3>2. CASE TopicOf[r] # TopicOf[s]
      <4>1. sub[r] = "live" /\ handlers'[TopicOf[r]] = handlers[TopicOf[r]]
        BY <1>5, <2>4, <3>1, <3>2 DEF BusTypeOK
      <4> QED
        BY <2>4, <4>1 DEF SubscriptionHolds
    <3>3. CASE TopicOf[r] = TopicOf[s]
      <4>1. handlers'[TopicOf[r]] = list
        BY <1>5, <2>1, <3>3 DEF BusTypeOK
      <4>2. CASE r = s
        <5>1. state = "live"
          BY <1>5, <2>4, <4>2 DEF BusTypeOK
        <5> QED
          BY <1>5, <4>1, <4>2, <5>1
      <4>3. CASE r # s
        <5>1. HandlerOf[r] # HandlerOf[s]
          BY <2>4, <3>3, <4>3 DEF OwnHandlers
        <5>2. sub[r] = "live"
          BY <1>5, <2>4, <4>3 DEF BusTypeOK
        <5>3. HandlerOf[r] \in Range(handlers[TopicOf[s]])
          BY <2>4, <3>3, <5>2 DEF SubscriptionHolds
        <5> QED
          BY <1>5, <4>1, <5>1, <5>3
      <4> QED
        BY <4>2, <4>3
    <3> QED
      BY <3>2, <3>3
  <2> QED
    BY <2>2, <2>3, <2>4 DEF SubscriptionHolds
<1>6. ASSUME NEW s \in Subscriptions \ Early
      PROVE  /\ handlers[TopicOf[s]] \in Seq(Handlers) /\ HandlerOf[s] \in Handlers
             /\ TopicOf[s] \in BusTopics
  BY DEF BusTypeOK, BusTopics, Handlers
<1>7. ASSUME NEW s \in Subscriptions \ Early, Subscribe(s)
      PROVE  /\ BusTypeOK' /\ TopicsAreKnown'
             /\ EarlyStay => EarlyStay'
             /\ OwnHandlers /\ SubscriptionHolds => SubscriptionHolds'
  <2> DEFINE list == Append(handlers[TopicOf[s]], HandlerOf[s])
  <2>1. list \in Seq(Handlers)
    BY <1>6, AppendProperties
  <2>2. HandlerOf[s] \in Range(list) /\ \A h \in Range(handlers[TopicOf[s]]) : h \in Range(list)
    <3>1. list = handlers[TopicOf[s]] \o <<HandlerOf[s]>>
      BY <1>6, AppendIsConcat
    <3>2. <<HandlerOf[s]>> \in Seq(Handlers) /\ Range(<<HandlerOf[s]>>) = {HandlerOf[s]}
      BY <1>6 DEF Range
    <3>3. Range(handlers[TopicOf[s]] \o <<HandlerOf[s]>>)
            = Range(handlers[TopicOf[s]]) \cup Range(<<HandlerOf[s]>>)
      BY <1>6, <3>2, RangeConcatenation
    <3> QED
      BY <3>1, <3>2, <3>3
  <2>3. /\ handlers' = [handlers EXCEPT ![TopicOf[s]] = list]
        /\ sub' = [sub EXCEPT ![s] = "live"] /\ UNCHANGED deliveries
    BY <1>6, <1>7 DEF Subscribe, BusTypeOK
  <2> HIDE DEF list
  <2> QED
    BY <1>5, <2>1, <2>2, <2>3
<1>8. ASSUME NEW s \in Subscriptions \ Early, Unsubscribe(s)
      PROVE  /\ BusTypeOK' /\ TopicsAreKnown'
             /\ EarlyStay => EarlyStay'
             /\ OwnHandlers /\ SubscriptionHolds => SubscriptionHolds'
  <2> DEFINE list == RemoveFirst(handlers[TopicOf[s]], HandlerOf[s])
  <2>1. /\ list \in Seq(Handlers)
        /\ \A h \in Range(handlers[TopicOf[s]]) : h # HandlerOf[s] => h \in Range(list)
    BY <1>6, RemoveFirstEffect
  <2>2. /\ handlers' = [handlers EXCEPT ![TopicOf[s]] = list]
        /\ sub' = [sub EXCEPT ![s] = "ended"] /\ UNCHANGED deliveries
    BY <1>6, <1>8 DEF Unsubscribe, BusTypeOK
  <2> HIDE DEF list
  <2> QED
    BY <1>5, <2>1, <2>2
<1> QED
  BY <1>1, <1>2, <1>3, <1>4, <1>7, <1>8, BusMoves

\* The early handlers are all the observer.
LEMMA BusBegins == ServiceInit => BusTypeOK /\ TopicsAreKnown /\ EarlyStay /\ SubscriptionHolds
<1> SUFFICES ASSUME ServiceInit PROVE BusTypeOK /\ TopicsAreKnown /\ EarlyStay /\ SubscriptionHolds
  OBVIOUS
<1> DEFINE At(topic) == {HandlerOf[s] : s \in {r \in Early : TopicOf[r] = topic}}
<1>1. /\ handlers = [topic \in BusTopics |-> SetToSeq(At(topic))] /\ deliveries = {}
      /\ sub = [s \in Subscriptions |-> IF s \in Early THEN "live" ELSE "none"]
  BY DEF ServiceInit, BusInit
<1>2. ASSUME NEW topic
      PROVE  /\ SetToSeq(At(topic)) \in Seq(Handlers)
             /\ \A h \in At(topic) : h \in Range(SetToSeq(At(topic)))
  <2> DEFINE S == At(topic)
  <2>1. \A h \in S : h = Observer
    BY ServiceAssumption
  <2>2. S \subseteq Handlers
    BY ServiceAssumption DEF Handlers
  <2>3. S = {} \/ S = {Observer}
    BY <2>1
  <2> HIDE DEF S
  <2>4. ASSUME S = {}
        PROVE  SetToSeq(S) \in Seq(Handlers) /\ \A h \in S : h \in Range(SetToSeq(S))
    <3>1. Cardinality(S) = 0
      BY <2>4, FS_EmptySet
    <3>2. \E f \in [1..Cardinality(S) -> S] : IsInjective(f)
      <4>1. [i \in 1..0 |-> i] \in [1..0 -> {}] /\ IsInjective([i \in 1..0 |-> i])
        BY DEF IsInjective
      <4> QED
        BY <2>4, <3>1, <4>1
    <3>3. SetToSeq(S) \in [1..Cardinality(S) -> S]
      BY <3>2 DEF SetToSeq
    <3>4. SetToSeq(S) \in Seq(Handlers)
      BY <2>4, <3>1, <3>3
    <3> QED
      BY <2>4, <3>4
  <2>5. ASSUME S = {Observer}
        PROVE  SetToSeq(S) \in Seq(Handlers) /\ \A h \in S : h \in Range(SetToSeq(S))
    <3>1. Cardinality(S) = 1
      BY <2>5, FS_Singleton
    <3>2. \E f \in [1..Cardinality(S) -> S] : IsInjective(f)
      <4>1. /\ [i \in 1..1 |-> Observer] \in [1..1 -> {Observer}]
            /\ IsInjective([i \in 1..1 |-> Observer])
        BY DEF IsInjective
      <4> QED
        BY <2>5, <3>1, <4>1
    <3>3. SetToSeq(S) \in [1..1 -> {Observer}]
      BY <2>5, <3>1, <3>2 DEF SetToSeq
    <3>4. SetToSeq(S) \in Seq(Handlers)
      <4>1. SetToSeq(S) \in [1..1 -> Handlers]
        BY <2>2, <2>5, <3>3
      <4> QED
        BY <4>1, SeqDef
    <3>5. Observer \in Range(SetToSeq(S))
      BY <3>3 DEF Range
    <3> QED
      BY <2>5, <3>4, <3>5
  <2> QED
    BY <2>3, <2>4, <2>5 DEF S
<1> HIDE DEF At
<1>3. BusTypeOK
  BY <1>1, <1>2 DEF BusTypeOK
<1>4. TopicsAreKnown /\ EarlyStay
  BY <1>1, ServiceAssumption DEF TopicsAreKnown, EarlyStay
<1>5. ASSUME NEW s \in Subscriptions, sub[s] = "live"
      PROVE  HandlerOf[s] \in Range(handlers[TopicOf[s]])
  <2>1. s \in Early /\ TopicOf[s] \in BusTopics
    BY <1>1, <1>5 DEF BusTopics
  <2>2. HandlerOf[s] \in At(TopicOf[s])
    BY <2>1 DEF At
  <2> QED
    BY <1>1, <1>2, <2>1, <2>2
<1> QED
  BY <1>3, <1>4, <1>5 DEF SubscriptionHolds

\* The bus keeps its types, and the observer its subscriptions.
LEMMA BusAlways == ServiceSpec => [](BusTypeOK /\ TopicsAreKnown /\ EarlyStay)
<1>1. BusTypeOK /\ TopicsAreKnown /\ EarlyStay /\ [ServiceNext]_serviceVars
        => BusTypeOK' /\ TopicsAreKnown' /\ EarlyStay'
  BY BusStep
<1> QED
  BY <1>1, BusBegins, PTL DEF ServiceSpec

\* No subscriber is lost, for any number of topics, handlers and subscriptions that come and
\* go in any order, each unsubscribed as often as one likes, if no handler is subscribed
\* twice to one topic (EventBus.subscribe and the function it returns).
THEOREM SubscriptionsHold == OwnHandlers => (ServiceSpec => []SubscriptionHolds)
<1> SUFFICES ASSUME OwnHandlers PROVE ServiceSpec => []SubscriptionHolds
  OBVIOUS
<1>1. BusTypeOK /\ TopicsAreKnown /\ EarlyStay /\ SubscriptionHolds /\ [ServiceNext]_serviceVars
        => SubscriptionHolds'
  BY BusStep
<1> QED
  BY <1>1, BusBegins, BusAlways, PTL DEF ServiceSpec

-----------------------------------------------------------------------------
(* The types of the surroundings.                                         *)

\* Those of the server, the answers, the observer and the history of a request.
SurroundingsTypeOK ==
  /\ LlmTypeOK
  /\ heard \in [Modules -> {"nothing"} \cup Topics]
  /\ downSince \in SUBSET Modules
  /\ servedIn \in BOOLEAN

\* Every step keeps them.
LEMMA SurroundingsStep ==
  ASSUME TopicsAreKnown, SurroundingsTypeOK, [ServiceNext]_serviceVars
  PROVE  SurroundingsTypeOK'
<1>1. Asks => \A u \in DOMAIN asking' : asking'[u] \in {"idle", "waiting"} \cup Answers
  BY DEF Asks, Asking, SurroundingsTypeOK, LlmTypeOK
<1>2. Witnessed => downSince' \in SUBSET Modules /\ servedIn' \in BOOLEAN
  BY DEF Witnessed, SurroundingsTypeOK
<1>3. CASE RegistryStepWith(RegistryGoesOn)
  <2>1. /\ Asks /\ Witnessed /\ ClientFollows /\ UNCHANGED <<heard, vllm>>
    BY <1>3 DEF RegistryStepWith, Step
  <2> QED
    BY <1>1, <1>2, <2>1 DEF ClientFollows, SurroundingsTypeOK, LlmTypeOK
<1>4. CASE Step(ViewGoesOn)
  BY <1>1, <1>2, <1>4 DEF Step, ViewGoesOn, SurroundingsTypeOK, LlmTypeOK
<1>5. ASSUME NEW d \in deliveries, Step(HandlerEnds(d)) PROVE SurroundingsTypeOK'
  <2>1. heard' \in [Modules -> {"nothing"} \cup Topics]
    BY <1>5 DEF Step, HandlerEnds, TopicsAreKnown, SurroundingsTypeOK
  <2> QED
    BY <1>1, <1>2, <1>5, <2>1 DEF Step, HandlerEnds, SurroundingsTypeOK, LlmTypeOK
<1>6. ASSUME NEW s \in Subscriptions \ Early, Step(SubscriberGoesOn(s)) PROVE SurroundingsTypeOK'
  BY <1>1, <1>2, <1>6 DEF Step, SubscriberGoesOn, SurroundingsTypeOK, LlmTypeOK
<1>7. CASE ServerGoesOn /\ Witnessed
  BY <1>2, <1>7 DEF ServerGoesOn, ServerChanges, SurroundingsTypeOK, LlmTypeOK
<1>8. ASSUME NEW u \in LlmAskers, Answered(u), Witnessed PROVE SurroundingsTypeOK'
  <2>1. ProbeAnswer \in Answers
    BY DEF ProbeAnswer, Answers, SurroundingsTypeOK, LlmTypeOK, ServerStates
  <2>2. \A v \in DOMAIN asking' : asking'[v] \in {"idle", "waiting"} \cup Answers
    BY <1>8, <2>1 DEF Answered, Answer, SurroundingsTypeOK, LlmTypeOK
  <2> QED
    BY <1>2, <1>8, <2>2 DEF Answered, Answer, SurroundingsTypeOK, LlmTypeOK
<1>9. CASE UNCHANGED serviceVars
  BY <1>9 DEF serviceVars, llmVars, viewVars, SurroundingsTypeOK, LlmTypeOK
<1> QED
  BY <1>3, <1>4, <1>5, <1>6, <1>7, <1>8, <1>9 DEF ServiceNext

\* They begin with their types.
LEMMA SurroundingsBegin == ServiceInit => SurroundingsTypeOK
BY DEF ServiceInit, LlmInit, SurroundingsTypeOK, LlmTypeOK

LEMMA SurroundingsAlways == ServiceSpec => []SurroundingsTypeOK
<1>1. TopicsAreKnown /\ SurroundingsTypeOK /\ [ServiceNext]_serviceVars => SurroundingsTypeOK'
  BY SurroundingsStep
<1> QED
  BY <1>1, SurroundingsBegin, BusAlways, PTL DEF ServiceSpec

\* Every part of the service keeps its type, whatever the others do: registry, bus, server,
\* answers, observer and request, for any number of modules, handlers and subscriptions.
THEOREM ServiceTypeCorrect == ServiceSpec => []ServiceTypeOK
<1>1. TypeOK /\ BusTypeOK /\ SurroundingsTypeOK /\ ViewInv => ServiceTypeOK
  BY DEF SurroundingsTypeOK, ServiceTypeOK, ViewInv
<1> QED
  BY <1>1, ServiceImplementsRegistry, TypeCorrect, BusAlways, SurroundingsAlways, ViewAlways, PTL

-----------------------------------------------------------------------------
(* What the observer is told.                                              *)

\* The observer is told of both troubles, and nobody of recoveries.  With a subscriber to
\* module.recovered a module may degrade again while that event is still being delivered,
\* and the observer, which has it too, hears it last (MCServiceOrder.cfg).
Attended ==
  /\ OwnHandlers
  /\ {"module.degraded", "module.failed"} \subseteq Subscribed
  /\ "module.recovered" \notin Subscribed

\* Whoever publishes is still where it published, for the module it published about.
Tells(d) ==
  \/ /\ d.topic = "module.degraded"
     /\ \E c \in Callers : d.by = <<c>> /\ pc[c] = "degPublish" /\ on[c] = d.about
  \/ /\ d.topic = "module.failed"
     /\ d.by \in RetryTasks /\ rpc[d.by] = "failPublish" /\ d.by[1] = d.about

\* The observer is being told of m under this topic, or this is what it heard last.
Telling(m, topic) ==
  \/ \E d \in deliveries : d.handler = Observer /\ d.about = m /\ d.topic = topic
  \/ heard[m] = topic

\* A state of m that is news is on its way to the observer, or was the last it heard.
DegradedIsTold(m) ==
  status[m] = "degraded" =>
    \/ \E c \in Callers : pc[c] = "degShutdown" /\ on[c] = m
    \/ Telling(m, "module.degraded")

FailedIsTold(m) ==
  status[m] = "failed" =>
    \/ \E t \in RetryTasks : rpc[t] = "failShutdown" /\ t[1] = m
    \/ Telling(m, "module.failed")

Told ==
  /\ \A d \in deliveries : Tells(d)
  /\ \A m \in Modules : DegradedIsTold(m) /\ FailedIsTold(m)

ToldInv == RollingBack \/ Told

\* What was proved of the registry and is needed of it here.
RegistryInv ==
  /\ TypeOK /\ PollAfterStartup /\ PendingIsUntouched /\ NamedWhileOpen /\ OpenInv
  /\ CancelledInRollback

\* The bus and the observer on it.
ListensInv ==
  /\ BusTypeOK /\ EarlyStay /\ SubscriptionHolds
  /\ DOMAIN heard = Modules

\* That holds in every execution of the registry.
LEMMA RegistryAlways == Spec => []RegistryInv
<1> DEFINE Inv == PollAfterStartup /\ PendingIsUntouched /\ NamedWhileOpen /\ OpenInv
                  /\ CancelledInRollback
<1>1. Init => Inv
  BY RecoveryInit, OpenInit DEF RecoveryInv
<1>2. TypeOK /\ Inv /\ [Next]_regVars => Inv'
  BY PollStep, PendingStep, NamedStep, OpenStep, CancelledStep
<1>3. TypeOK /\ Inv => RegistryInv
  BY DEF RegistryInv
<1> HIDE DEF Inv
<1> QED
  BY <1>1, <1>2, <1>3, TypeCorrect, PTL DEF Spec

\* The observer is in the lists, and nobody is in that of recoveries.
LEMMA ObserverListens ==
  ASSUME Attended, ListensInv
  PROVE  /\ "module.degraded" \in BusTopics /\ Observer \in Range(handlers["module.degraded"])
         /\ "module.failed" \in BusTopics /\ Observer \in Range(handlers["module.failed"])
         /\ "module.recovered" \notin BusTopics
<1>1. ASSUME NEW topic \in Subscribed
      PROVE  topic \in BusTopics /\ Observer \in Range(handlers[topic])
  <2>1. PICK s \in Early : TopicOf[s] = topic
    BY <1>1, ServiceAssumption
  <2>2. s \in Subscriptions /\ sub[s] = "live" /\ HandlerOf[s] = Observer
    BY ServiceAssumption DEF ListensInv, EarlyStay
  <2> QED
    BY <2>1, <2>2 DEF ListensInv, SubscriptionHolds, BusTopics
<1>2. "module.recovered" \notin BusTopics
  BY ServiceAssumption DEF Attended, Topics
<1> QED
  BY <1>1, <1>2 DEF Attended

\* A caller and a retry task have different names.
LEMMA NamesDiffer ==
  /\ \A c, e \in Callers : <<c>> = <<e>> => c = e
  /\ \A c \in Callers : <<c>> \notin RetryTasks
BY DEF RetryTasks

\* While nothing rolls back, the tasks other than the retries leave those alone.
LEMMA RetriesStay ==
  ASSUME TypeOK, ~RollingBack',
         \/ MainStep \/ ShutdownRequested \/ HealthStep
         \/ \E r \in Reporters : Report(r) \/ Degrading(r)
  PROVE  \A t \in RetryTasks : ~Over(t) => rpc'[t] = rpc[t]
<1>1. ASSUME NEW c \in Callers, CreateRetry(on[c]), NEW t \in RetryTasks, ~Over(t)
      PROVE  rpc'[t] = rpc[t]
  <2>1. on[c] \in Modules
    BY DEF TypeOK
  <2> QED
    BY <1>1, <2>1, CreateRetryEffect
<1> QED
  BY <1>1, CallersLeaveRetries DEF OnlyCancels

\* A step of _degrade tells what it has to.
LEMMA DegradeTells ==
  ASSUME Attended, RegistryInv, ListensInv, Told, ~RollingBack',
         NEW c \in Callers, DegradeGoesOn(c), heard' = heard
  PROVE  Told'
<1>1. /\ TypeOK /\ PollAfterStartup /\ BusTypeOK /\ Degrading(c)
      /\ pc \in [Callers -> MainLabels \cup HealthLabels \cup ReporterLabels]
  BY DEF RegistryInv, ListensInv, DegradeGoesOn, Degrading, TypeOK, PcOK
<1>2. \A e \in Callers \ {c} : InDegrade(e) => pc'[e] = pc[e] /\ on'[e] = on[e]
  BY <1>1, OthersLeaveDegrade
<1>3. \A t \in RetryTasks : ~Over(t) => rpc'[t] = rpc[t]
  <2>1. MainStep \/ HealthStep \/ \E r \in Reporters : Degrading(r)
    BY <1>1 DEF Callers, MainStep, HealthStep
  <2> QED
    BY <1>1, <2>1, RetriesStay
<1>4. status' = status
  BY <1>1 DEF Degrading, DegradeShutdown, DegradePublished
<1>5. /\ \A e \in Callers : pc[e] \in {"degShutdown", "degPublish"} => InDegrade(e)
      /\ \A t \in RetryTasks : rpc[t] \in {"failShutdown", "failPublish"} => ~Over(t)
  BY DEF InDegrade, Over
<1>6. CASE DegradeShutdown(c) /\ Publish(<<c>>, "module.degraded", on[c])
  <2>1. /\ pc[c] = "degShutdown" /\ pc'[c] = "degPublish" /\ on'[c] = on[c]
    BY <1>1, <1>6 DEF DegradeShutdown, PublishSuspends, Attended
  <2>2. /\ deliveries \subseteq deliveries'
        /\ \A d \in deliveries' \ deliveries :
             d.by = <<c>> /\ d.topic = "module.degraded" /\ d.about = on[c]
        /\ \E d \in deliveries' :
             d.handler = Observer /\ d.topic = "module.degraded" /\ d.about = on[c]
    BY <1>1, <1>6, PublishEffect, ObserverListens
  <2>3. ASSUME NEW d \in deliveries' PROVE Tells(d)'
    <3>1. CASE d \in deliveries
      BY <1>2, <1>3, <1>5, <2>1, <3>1 DEF Told, Tells
    <3>2. CASE d \notin deliveries
      BY <2>1, <2>2, <3>2 DEF Tells
    <3> QED
      BY <3>1, <3>2
  <2>4. ASSUME NEW m \in Modules PROVE DegradedIsTold(m)'
    BY <1>2, <1>4, <1>5, <2>1, <2>2 DEF Told, DegradedIsTold, Telling
  <2>5. ASSUME NEW m \in Modules PROVE FailedIsTold(m)'
    BY <1>3, <1>4, <1>5, <2>2 DEF Told, FailedIsTold, Telling
  <2> QED
    BY <2>3, <2>4, <2>5 DEF Told
<1>7. CASE DegradePublished(c) /\ Published(<<c>>) /\ Silent
  <2>1. /\ pc[c] = "degPublish" /\ deliveries' = deliveries
        /\ \A d \in deliveries : d.by # <<c>>
    BY <1>7 DEF DegradePublished, Published, Silent, busVars
  <2>2. ASSUME NEW d \in deliveries' PROVE Tells(d)'
    BY <1>2, <1>3, <1>5, <2>1, <2>2 DEF Told, Tells
  <2>3. ASSUME NEW m \in Modules PROVE DegradedIsTold(m)'
    BY <1>2, <1>4, <1>5, <2>1 DEF Told, DegradedIsTold, Telling
  <2>4. ASSUME NEW m \in Modules PROVE FailedIsTold(m)'
    BY <1>3, <1>4, <1>5, <2>1 DEF Told, FailedIsTold, Telling
  <2> QED
    BY <2>2, <2>3, <2>4 DEF Told
<1> QED
  BY <1>6, <1>7 DEF DegradeGoesOn

\* So does a step of a retry.
LEMMA RetryTells ==
  ASSUME Attended, RegistryInv, ListensInv, Told,
         NEW t \in RetryTasks, RetryGoesOn(t), rpc[t] # "cancelled", heard' = heard
  PROVE  Told'
<1>1. TypeOK /\ BusTypeOK /\ t[1] \in Modules
  BY DEF RegistryInv, ListensInv, RetryTasks
<1>2. /\ UNCHANGED <<pc, on>>
      /\ \A u \in RetryTasks \ {t} : rpc'[u] = rpc[u]
      /\ \A m \in Modules \ {t[1]} : status'[m] = status[m]
  BY <1>1 DEF RetryGoesOn, RetryWakes, RetryOk, RetryUnavailable, RetryDown, RetryFails,
              FailedDown, RetryPublished, RetryCancelled, TypeOK
<1>3. ASSUME rpc[t] \notin {"failShutdown", "failPublish"}, UNCHANGED deliveries,
             status'[t[1]] \in {status[t[1]], "running"}
      PROVE  Told'
  <2>1. ASSUME NEW d \in deliveries' PROVE Tells(d)'
    BY <1>2, <1>3, <2>1 DEF Told, Tells
  <2>2. ASSUME NEW m \in Modules PROVE DegradedIsTold(m)' /\ FailedIsTold(m)'
    BY <1>2, <1>3 DEF Told, DegradedIsTold, FailedIsTold, Telling
  <2> QED
    BY <2>1, <2>2 DEF Told
<1>4. CASE (RetryWakes(t) \/ RetryUnavailable(t) \/ RetryDown(t)) /\ Silent
  <2>1. rpc[t] \notin {"failShutdown", "failPublish"} /\ status' = status
    BY <1>4 DEF RetryWakes, RetryUnavailable, RetryDown
  <2> QED
    BY <1>3, <1>4, <2>1 DEF Silent, busVars
<1>5. CASE RetryOk(t) /\ Publish(t, "module.recovered", t[1])
  <2>1. rpc[t] = "starting" /\ status'[t[1]] = "running"
    BY <1>1, <1>5 DEF RetryOk, TypeOK
  <2>2. deliveries' = deliveries
    BY <1>5, ObserverListens DEF Publish, HandlersOf
  <2> QED
    BY <1>3, <2>1, <2>2
<1>6. CASE RetryFails(t) /\ Silent
  <2>1. /\ rpc[t] = "starting" /\ rpc'[t] = "failShutdown" /\ status'[t[1]] = "failed"
        /\ deliveries' = deliveries
    BY <1>1, <1>6 DEF RetryFails, TypeOK, Silent, busVars
  <2>2. ASSUME NEW d \in deliveries' PROVE Tells(d)'
    BY <1>2, <2>1, <2>2 DEF Told, Tells
  <2>3. ASSUME NEW m \in Modules PROVE DegradedIsTold(m)' /\ FailedIsTold(m)'
    BY <1>2, <2>1 DEF Told, DegradedIsTold, FailedIsTold, Telling
  <2> QED
    BY <2>2, <2>3 DEF Told
<1>7. CASE FailedDown(t) /\ Publish(t, "module.failed", t[1])
  <2>1. rpc[t] = "failShutdown" /\ rpc'[t] = "failPublish" /\ status' = status
    BY <1>1, <1>7 DEF FailedDown, TypeOK, PublishSuspends, Attended
  <2>2. /\ deliveries \subseteq deliveries'
        /\ \A d \in deliveries' \ deliveries :
             d.by = t /\ d.topic = "module.failed" /\ d.about = t[1]
        /\ \E d \in deliveries' :
             d.handler = Observer /\ d.topic = "module.failed" /\ d.about = t[1]
    BY <1>1, <1>7, PublishEffect, ObserverListens
  <2>3. ASSUME NEW d \in deliveries' PROVE Tells(d)'
    <3>1. CASE d \in deliveries
      BY <1>2, <2>1, <3>1 DEF Told, Tells
    <3>2. CASE d \notin deliveries
      BY <2>1, <2>2, <3>2 DEF Tells
    <3> QED
      BY <3>1, <3>2
  <2>4. ASSUME NEW m \in Modules PROVE DegradedIsTold(m)'
    BY <1>2, <2>1, <2>2 DEF Told, DegradedIsTold, Telling
  <2>5. ASSUME NEW m \in Modules PROVE FailedIsTold(m)'
    BY <1>2, <2>1, <2>2 DEF Told, FailedIsTold, Telling
  <2> QED
    BY <2>3, <2>4, <2>5 DEF Told
<1>8. CASE RetryPublished(t) /\ Published(t) /\ Silent
  <2>1. /\ rpc[t] # "failShutdown" /\ status' = status /\ deliveries' = deliveries
        /\ \A d \in deliveries : d.by # t
    BY <1>8 DEF RetryPublished, Published, Silent, busVars
  <2>2. ASSUME NEW d \in deliveries' PROVE Tells(d)'
    BY <1>2, <2>1, <2>2 DEF Told, Tells
  <2>3. ASSUME NEW m \in Modules PROVE DegradedIsTold(m)' /\ FailedIsTold(m)'
    BY <1>2, <2>1 DEF Told, DegradedIsTold, FailedIsTold, Telling
  <2> QED
    BY <2>2, <2>3 DEF Told
<1>9. ~RetryCancelled(t)
  BY DEF RetryCancelled
<1> QED
  BY <1>4, <1>5, <1>6, <1>7, <1>8, <1>9 DEF RetryGoesOn

\* The other steps of the registry tell nothing; what they degrade is in _degrade then.
LEMMA OthersTell ==
  ASSUME RegistryInv, Told, ~RollingBack',
         \/ MainStep /\ ~Degrading("main")
         \/ HealthStep /\ ~Degrading("health")
         \/ \E r \in Reporters : Report(r),
         UNCHANGED <<deliveries, heard>>
  PROVE  Told'
<1>1. TypeOK /\ PollAfterStartup /\ [Next]_regVars
  BY DEF RegistryInv, Next, RegistryNext
<1>2. \A e \in Callers : InDegrade(e) => pc'[e] = pc[e] /\ on'[e] = on[e]
  BY <1>1, OthersLeaveDegrade
<1>3. \A t \in RetryTasks : ~Over(t) => rpc'[t] = rpc[t]
  BY <1>1, RetriesStay
<1>4. /\ \A e \in Callers : pc[e] \in {"degShutdown", "degPublish"} => InDegrade(e)
      /\ \A t \in RetryTasks : rpc[t] \in {"failShutdown", "failPublish"} => ~Over(t)
  BY DEF InDegrade, Over
<1>5. ASSUME NEW d \in deliveries' PROVE Tells(d)'
  BY <1>2, <1>3, <1>4, <1>5 DEF Told, Tells
<1>6. ASSUME NEW m \in Modules PROVE DegradedIsTold(m)'
  <2>1. CASE status[m] = "degraded"
    BY <1>2, <1>4, <2>1 DEF Told, DegradedIsTold, Telling
  <2>2. CASE status[m] # "degraded" /\ status'[m] = "degraded"
    BY <1>1, <2>2, DegradedByCaller DEF DegradedIsTold
  <2> QED
    BY <2>1, <2>2 DEF DegradedIsTold
<1>7. ASSUME NEW m \in Modules PROVE FailedIsTold(m)'
  <2>1. CASE status[m] = "failed"
    BY <1>3, <1>4, <2>1 DEF Told, FailedIsTold, Telling
  <2>2. CASE status[m] # "failed" /\ status'[m] = "failed"
    <3>1. ASSUME StartOk \/ StartUnavailable, m = on["main"] PROVE FALSE
      BY <1>1, <2>2, <3>1 DEF StartOk, StartUnavailable, TypeOK
    <3>2. PICK t \in RetryTasks : t[1] = m /\ (RetryOk(t) \/ RetryFails(t))
      BY <1>1, <2>2, <3>1, StatusFrame
    <3>3. rpc'[t] # rpc[t] /\ ~Over(t)
      BY <1>1, <3>2 DEF RetryOk, RetryFails, TypeOK, Over
    <3> QED
      BY <1>3, <3>3
  <2> QED
    BY <2>1, <2>2 DEF FailedIsTold
<1> QED
  BY <1>5, <1>6, <1>7 DEF Told

\* The observer hears a topic: its publisher still holds the module in that state.
LEMMA HandlerTells ==
  ASSUME RegistryInv, ListensInv, Told, ~RollingBack, NEW d \in deliveries, HandlerEnds(d)
  PROVE  Told'
<1>1. /\ UNCHANGED <<status, pc, on, rpc>> /\ deliveries' = deliveries \ {d}
      /\ heard' = [heard EXCEPT ![d.about] = IF d.handler = Observer THEN d.topic ELSE @]
  BY DEF HandlerEnds, Handled, regVars
<1>2. RetryOwns /\ DegradeOwns
  BY DEF RegistryInv, OpenInv
<1>3. \/ d.topic = "module.degraded" /\ status[d.about] = "degraded"
      \/ d.topic = "module.failed" /\ status[d.about] = "failed"
  <2>1. Tells(d)
    BY DEF Told
  <2> QED
    BY <1>2, <2>1 DEF Tells, RetryOwns, DegradeOwns, InDegrade
<1>4. ASSUME NEW m \in Modules, NEW topic, Telling(m, topic), d.about = m => d.topic = topic
      PROVE  Telling(m, topic)'
  <2>1. DOMAIN heard = Modules
    BY DEF ListensInv
  <2>2. CASE d.about = m /\ d.handler = Observer
    BY <1>1, <1>4, <2>1, <2>2 DEF Telling
  <2>3. CASE ~(d.about = m /\ d.handler = Observer)
    <3>1. heard'[m] = heard[m]
      BY <1>1, <2>1, <2>3
    <3> QED
      BY <1>1, <1>4, <2>3, <3>1 DEF Telling
  <2> QED
    BY <2>2, <2>3
<1>5. ASSUME NEW e \in deliveries' PROVE Tells(e)'
  BY <1>1, <1>5 DEF Told, Tells
<1>6. ASSUME NEW m \in Modules PROVE DegradedIsTold(m)' /\ FailedIsTold(m)'
  <2>1. CASE status[m] = "degraded"
    BY <1>1, <1>3, <1>4, <2>1 DEF Told, DegradedIsTold, FailedIsTold
  <2>2. CASE status[m] = "failed"
    BY <1>1, <1>3, <1>4, <2>2 DEF Told, DegradedIsTold, FailedIsTold
  <2> QED
    BY <1>1, <2>1, <2>2 DEF DegradedIsTold, FailedIsTold
<1> QED
  BY <1>5, <1>6 DEF Told

\* While nothing rolls back, a step of the registry is one of _degrade, of a retry, or one
\* that publishes nothing.
LEMMA StepWhileOpen ==
  ASSUME RegistryInv, ~RollingBack', RegistryGoesOn
  PROVE  \/ \E c \in Callers : DegradeGoesOn(c)
         \/ \E t \in RetryTasks : RetryGoesOn(t) /\ rpc[t] # "cancelled"
         \/ /\ \/ MainStep /\ ~Degrading("main")
               \/ HealthStep /\ ~Degrading("health")
               \/ \E r \in Reporters : Report(r)
            /\ Silent
<1> USE CallerNames
<1>1. TypeOK /\ [Next]_regVars
  BY RegistryGoesOnAlone DEF RegistryInv
<1>2. ~RollingBack /\ pc["health"] # "cancelled" /\ \A t \in RetryTasks : rpc[t] # "cancelled"
  BY <1>1, MainStepLabels DEF RegistryInv, CancelledInRollback
<1>3. CASE MainGoesOn /\ ~DegradeGoesOn("main")
  <2>1. ~Degrading("main")
    BY <1>3 DEF MainGoesOn, Boot, StartOk, StartUnavailable, StartFails, HealthEnded,
                RetriesEnded, ModuleStopped, CloseBackend, Degrading, DegradeShutdown,
                DegradePublished
  <2>2. MainStep /\ Silent
    BY <1>3 DEF MainGoesOn, MainStep
  <2> QED
    BY <2>1, <2>2
<1>4. ~StopRequested
  <2>1. StopRequested => RollingBack'
    BY <1>1 DEF StopRequested, ShutdownRequested, RollingBack, TypeOK, PcOK
  <2> QED
    BY <2>1
<1>5. CASE HealthGoesOn /\ ~DegradeGoesOn("health")
  <2>1. ~HealthCancelled
    BY <1>2 DEF HealthCancelled
  <2>2. ~Degrading("health") /\ HealthStep /\ Silent
    BY <1>5, <2>1 DEF HealthGoesOn, HealthStep, PollBegins, ProbeHealthy, ProbeUnhealthy,
                      Degrading, DegradeShutdown, DegradePublished
  <2> QED
    BY <2>2
<1>6. ASSUME NEW r \in Reporters, ReporterGoesOn(r)
      PROVE  DegradeGoesOn(r) \/ (Report(r) /\ Silent)
  BY <1>6 DEF ReporterGoesOn
<1> QED
  BY <1>2, <1>3, <1>4, <1>5, <1>6 DEF RegistryGoesOn

\* A step of the service leaves nothing untold, unless it begins the rollback.
LEMMA ToldStep ==
  ASSUME Attended, RegistryInv, ListensInv, ToldInv, [ServiceNext]_serviceVars
  PROVE  ToldInv'
<1> SUFFICES ASSUME ~RollingBack' PROVE Told'
  BY DEF ToldInv
<1>1. ~RollingBack /\ Told
  <2>1. TypeOK /\ [Next]_regVars
    BY ServiceStep DEF RegistryInv
  <2> QED
    BY <2>1, MainStepLabels DEF ToldInv
<1>2. CASE RegistryStepWith(RegistryGoesOn)
  <2>1. RegistryGoesOn /\ heard' = heard
    BY <1>2 DEF RegistryStepWith, Step
  <2>2. Silent => deliveries' = deliveries
    BY DEF Silent, busVars
  <2> QED
    BY <1>1, <2>1, <2>2, StepWhileOpen, DegradeTells, RetryTells, OthersTell
<1>3. ASSUME NEW d \in deliveries, Step(HandlerEnds(d)) PROVE Told'
  BY <1>1, <1>3, HandlerTells DEF Step
<1>4. ASSUME UNCHANGED <<regVars, deliveries, heard>> PROVE Told'
  BY <1>1, <1>4 DEF regVars, Told, Tells, DegradedIsTold, FailedIsTold, Telling
<1>5. Step(ViewGoesOn) \/ ServerGoesOn \/ UNCHANGED serviceVars
        => UNCHANGED <<regVars, deliveries, heard>>
  BY DEF Step, ViewGoesOn, ServerGoesOn, serviceVars, busVars
<1>6. ASSUME NEW u \in LlmAskers, Answered(u) PROVE UNCHANGED <<regVars, deliveries, heard>>
  BY <1>6 DEF Answered, busVars
<1>7. ASSUME NEW s \in Subscriptions \ Early, Step(SubscriberGoesOn(s))
      PROVE  UNCHANGED <<regVars, deliveries, heard>>
  BY <1>7 DEF Step, SubscriberGoesOn, Subscribe, Unsubscribe
<1> QED
  BY <1>2, <1>3, <1>4, <1>5, <1>6, <1>7 DEF ServiceNext

\* The observer ends up with the truth, for any number of modules, reporters, retries and
\* handlers, though every handler is a task of its own that takes as long as it likes and a
\* module's events come from different tasks: when nothing of a module is left unsaid, the
\* last thing the observer heard of it is what the registry says (publish, _deliver,
\* _degrade, _retry_loop).
THEOREM ObserverStaysRight == Attended => (ServiceSpec => []ObserverIsRight)
<1> SUFFICES ASSUME Attended PROVE ServiceSpec => []ObserverIsRight
  OBVIOUS
<1>1. OwnHandlers
  BY DEF Attended
<1>2. ServiceInit => ToldInv
  BY DEF ServiceInit, Init, BusInit, ToldInv, Told, DegradedIsTold, FailedIsTold
<1>3. RegistryInv /\ ListensInv /\ ToldInv /\ [ServiceNext]_serviceVars => ToldInv'
  BY ToldStep
<1>4. BusTypeOK /\ EarlyStay /\ SubscriptionHolds /\ SurroundingsTypeOK => ListensInv
  BY DEF ListensInv, SurroundingsTypeOK
<1>5. ServiceSpec => []SubscriptionHolds
  BY <1>1, SubscriptionsHold
<1>6. ToldInv => ObserverIsRight
  BY DEF ToldInv, Told, DegradedIsTold, FailedIsTold, Telling, ObserverIsRight, Unsaid
<1> QED
  BY <1>2, <1>3, <1>4, <1>5, <1>6, BusAlways, SurroundingsAlways, ServiceImplementsRegistry,
     RegistryAlways, PTL DEF ServiceSpec
=============================================================================
