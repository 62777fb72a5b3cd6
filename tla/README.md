# FarmHub: models and proofs

TLA+ models of FarmHub, the local voice-assistant backend in this repository, with the
TLC instances that check them and the TLAPS proofs about them. Paths are relative to the
repository; `core/`, `api/`, `modules/` are under `src/farmhub/`.

To run: `tlc -config MCRegistry.cfg MCRegistry` for an instance,
`tlapm RegistryProofs.tla` for a proof module. `PROJECT.json` lists the runs, which lines
each definition models, the mutants and the hazards.

## The system

FarmHub is one Python process, one asyncio event loop: code runs undisturbed between two
awaits that suspend, and everything hard about it is what may happen at those awaits.
Home Assistant sends it conversation turns over HTTP; it forwards them to a language model
that vLLM serves on the local card. Beside the service stand a Home Assistant integration
(the client) and an evaluation harness that picks the model.

| Part | State it keeps | Operations | Talks to |
|---|---|---|---|
| module registry, `core/registry.py` | per module: status, attempted, tools, retry task; the health task | startup, mark_unhealthy, poll_health, retry loop, shutdown | calls the modules; publishes on the event bus; read by the gateway and the health routes |
| lifespan and composition root, `api/server.py`, `app.py` | the app's state | announce safety settings, start modules, poll, serve, roll back, close the backend | drives the registry |
| tool gateway, `core/gateway.py` | none; locals across three awaits | invoke | registry (find_tool), audit sink, the tool's handler |
| sealed handlers, contexts, errors, `core/protocols.py`, `context.py`, `errors.py` | none | types, tiers, unseal | everyone |
| event bus, `core/events.py` | handlers by topic | subscribe, unsubscribe, publish | publishers wait for all handlers |
| health routes, `api/routes_admin.py` | none; a walk over the modules across their awaits | GET /health, /healthz | registry, the modules' `health` |
| audit sink, `core/audit.py` | none (the only sink refuses every row) | write | gateway |
| session store, `core/sessions.py` | sessions, and keys from (satellite, conversation id) to them | resolve: expire, look up, mint, evict | chat endpoint via `api/identity.py` |
| identity and bearer guard, `api/identity.py` | the expected token | require_bearer_token, resolve_identity | session store, satellite registry |
| satellite registry, `core/satellites.py` | immutable after startup | load_satellites, lookup | startup, identity |
| chat endpoint, `api/openai_compat.py` | none | chat_completions | identity, LLM module |
| LLM module and client, `modules/llm/` | HTTP client, shared and closed once | chat with retries, probe, aclose; stream_chat, structured | vLLM |
| configuration and CLI, `core/config.py`, `__main__.py` | Settings | load, validate, warn | startup |
| conversation agent, `custom_components/farmhub/conversation.py` | Home Assistant's conversation id per device | async_process | chat endpoint |
| evaluation harness, `evals/` | `.env` file, container, results | expand, check pins, cycle, report | docker compose, vLLM |
| evaluation cases, `evals/cases/` | records, streams under way | the four cases' `run` | the model vLLM serves |

What makes the parts correct, and what is hard about it:

* **Registry.** A module that lost its dependency must come back by itself, never be
  started twice at once, and never outlive shutdown. Four kinds of task (lifespan, health
  poll, retries, a module that reports itself) share the entries and suspend inside
  startup, shutdown and publish of the same module; startup may fail in the middle; a
  cancellation may arrive at any await.
* **Service.** What the registry knows of the outside are answers given earlier: a probe is
  answered while vLLM serves and read when it is gone, and events of one module are
  published by several tasks to handlers that are tasks of their own. The registry must
  stay sound and its observers and `/health` must end up with the truth.
* **Gateway.** Nothing runs unaudited, only T0 tools run, every call leaves one outcome,
  although the sink may fail at either write and the module may degrade in between.
* **Sessions and chat.** A conversation continues under whatever id comes back, and is
  never another identity's, although the store expires and evicts, Home Assistant reuses
  ids, answers are lost or late, the agent leaves before the server is done, and a restart
  forgets everything.
* **Startup.** Five inputs, four layers with precedence; unsafe switches must be explicit
  and announced, unsound profiles and satellites refused.
* **Evaluation.** The report's numbers must belong to the candidate they are printed for,
  although the container is driven through docker compose without a look at its exit
  status, loads, exits or stops answering on its own. The scores must mean what the cases'
  data says, whatever a reply looks like and whichever requests fail.

## The modules

| Module | Models | Instance |
|---|---|---|
| `Registry` | `core/registry.py`, the lifespan | `MCRegistry` |
| `ModuleLifecycle` | what the registry promises about the status of its modules | implemented by `Registry` |
| `EventBus` | `core/events.py` | in `Service` |
| `LlmBackend` | `probe` and `aclose` of `modules/llm/client.py`, and the server they ask | in `Service` |
| `Service` | `Registry` over `EventBus` and `LlmBackend` (EXTENDS), with `modules/llm/module.py`, subscribers and `GET /health` | `MCService` |
| `Gateway` | `core/gateway.py`, composed with `Registry` (EXTENDS) | `MCGateway` |
| `AuditTrail` | what the gateway promises of calls and their rows | implemented by `Gateway` |
| `Sessions` | `core/sessions.py`, entered by `resolve_identity` | `MCSessions` |
| `ConversationStore` | what the session store promises of conversations | implemented by `Sessions` |
| `Chat` | agent, chat endpoint, LLM client, restarts, over `Sessions` (EXTENDS) | `MCChat` |
| `Startup` | `__main__.py`, `core/config.py`, `core/satellites.py`, `create_app` | `MCStartup` |
| `Evals` | `evals/run.py`, `backend.py`, `profile.py`, `report.py` | `MCEvals` |
| `Scoring` | `evals/cases/` and the totals of `report.py` | `MCScoring` |

Theorems are in `RegistryProofs`, `ServiceProofs`, `GatewayProofs`, `SessionsProofs`,
`ChatProofs`, `StartupProofs`, `EvalsProofs` and `ScoringProofs`, each over the module of its
name; `ServiceProofs` and `GatewayProofs` are also over `RegistryProofs`, `ChatProofs` over
`SessionsProofs`.

**Registry.** An action is a stretch of one task between two awaits that suspend. `pc[c]`
names the await in which `main` (the lifespan), `health` (the poll) or a reporter (a caller
of `mark_unhealthy`) is suspended, `on[c]` the module it works on; `rpc[<<m, k>>]` is the
same of the k-th retry task of module `m`. `status`, `attempted`, `tools` and `handle` are
the fields of `_Entry`; `phase` is the module object's side: which lifecycle call it last
received and whether that returned. `publish` of a topic with no subscriber does not
suspend (`asyncio.gather` of nothing is done at once), so the constant `Subscribed` decides how fine
the interleaving is. A cancelled task sees `CancelledError` at the await it is in; the
shutdown of its module is then cut off. `_rollback` is one loop spread over
`HealthEnded`, `RetriesEnded` and `ModuleStopped`. The reasons shown with a status, the
logging and the timing of the back-off are left out, but not that
`base_s * factor**attempt` overflows (`OverflowAt`).

**ModuleLifecycle** has `status` and `closing` only; `Registry` maps `closing` to "main is
past the wait for the health task".

**EventBus.** `handlers` is `_handlers`. A publish is a set of `deliveries`, one per handler
found in the copy of the list; a handler ends by leaving the set, and the publisher goes on
when it has none left. `_deliver` logs what a handler raises, so how it ended is not kept.
`unsubscribe` removes the first equal handler, as `list.remove` does, and may be called
twice. `sub` is history.

**LlmBackend.** A probe has three moments: asked, answered by the server of that moment,
read by its caller. `vllm` is what is at the other end: the configured model, nothing of
use, or something that does not speak the protocol and makes `probe` raise. A closed client
fails like a connection.

**Service.** `RegistryGoesOn` takes the actions of `Registry` and adds to each what `Registry`
leaves open: a publish starts deliveries and waits for them, `startup` and `health` of
module `Llm` have the outcome of their probe, the last step of the lifespan closes the
client. `view` is a request for `/health`: the entry it awaits and what it has listed; its
walk passes modules that do not run without an await. `heard` is what an observer was told
last, `downSince` and `servedIn` what was true during the request. After `MaxOutage`
failed attempts the retry of `Llm` gets its answer when the server is back
(`Answered`): the rounds in between differ in nothing but the attempt.

**Gateway.** `callAt[c]` is the await a call is in (INTENT write, handler, OUTCOME write),
`found` what `find_tool` had returned. Every registry action may come between. Payload
bounding is left out.

**AuditTrail** has the rows, the calls that acted and the calls that are over; no tiers,
modules or awaits. A call is announced, may act from then on, and concludes with what it
did, or leaves without a row. `Gateway` maps the calls past a written INTENT row that may
run to `acted` (`Acted`), and the returned and cancelled ones to `closed`.

**Sessions.** `resolve` has no await: one call, one action. Sessions are numbered in the
order they are minted, which is the order of the dict, so `min(..., key=last_seen_at)` is
"the smallest number among the oldest". `result` and `lastOf` remember answers given.

**ConversationStore** has neither time nor a dict of keys: each session held carries its
satellite and its own aliases, the sessions that stay are any, and a turn goes on with a
session its satellite may call so, or begins one when none is left. `Sessions` maps
`_by_conversation` to the aliases (`HeldSessions`) and the clock to a stutter.

**Chat.** A request is `sent`, with the `model`, or `replied`; it outlives the agent that
sent it, reaches the server late or never, and dies with the server. What the agent says is
a class per outcome (`SaidOf`). `Handle` is `resolve_identity` and the test for text, which
run without an await between them.

**Startup.** The stages run in the code's order; any error exits before a module is
started. Sizes are whole numbers and the utilization per cent, where the code has floats: what
rounding does to its sums is left out.

**Evals.** `step` is the harness's next call. The container is a process of its own: it
loads, serves or exits at any time. `unnoticed` records that a call of docker compose
failed, which the harness does not see.

**Scoring.** One candidate goes through the four cases. In the latency case streams run at
once and each has its own clock readings; in the three others each reply becomes the set of
`Marks` that its record has, and `tally` counts them as the report does. Replies are
abstracted to what the cases look at: the tool call with typed arguments, the phrases
that the answer contains, the parsed kind; `Odd` stands for what JSON may hold there and the
case does not expect, which raises outside its try. Medians and the regular expressions that
recognise reasoning or a refusal are left out. `reasoned` is history: where any reply
reasoned.

## The runs

Every property of a passing run has a mutant of the code (an operator whose comment begins
with "Bug:") under which TLC finds it violated in the same run.

| Run | Shows |
|---|---|
| `registry` | Subscribers of `module.degraded` and `module.failed`, nobody but the health poll calling `mark_unhealthy`; three modules, two with a tool of the same name, one that can raise: a degraded module has its retry (`DegradedHasRetry`), one lifecycle call at a time (`OneLifecycleCall`), status true of the module (`StatusIsTruthful`), nothing left after shutdown (`QuietWhenClosed`), one owner per tool name, startup only of a module that holds nothing (`StartsClean`), recovery (`DegradedResolves`) and progress (`LifespanProgress`), and `ModuleLifecycle` implemented. |
| `service` | Module `Llm` over a vLLM that is started and stopped at will, one that reports itself, an observer, a subscriber that comes and goes, a request for `/health`: the registry stays sound (`ServiceIsSound`), the observer ends up with the truth (`ObserverIsRight`), `/health` hides no trouble (`ViewIsHonest`), the client is closed when no probe is under way (`ClosedUnused`), a vLLM that stays away is noticed and one that comes back is found (`GoneIsNoticed`, `ComesBack`). |
| `gateway` | Two calls over two modules that contend for a tool name: `RunsOnlyRead`, `NothingRunsUnaudited`, `ExactlyOneOutcome`, and `AuditTrail` implemented. |
| `sessions` | A registered and an unregistered device sending every id they could know: the two dicts agree (`KeysResolve`), no session of another identity (`ResultIsOwn`), the session returned is held (`ResultIsHeld`), bounded, continuing, oldest evicted, and `ConversationStore` implemented. |
| `chat` | Two identities that Home Assistant gives the same id, time-outs, lost connections, model retries, a restart, expiry, a store of one session, turns with and without text: `ConversationHolds`, `ConversationsApart`, handlers end after their agent has left (`RequestsDrain`). |
| `startup` | All layers, token sources, profiles and registry files of the instance: `DryRunIsExplicit`, `NothingUnsoundServes`. |
| `evals` | Four matrices over two KV types, one with a second, unpinned revision of a repository: every pair recorded once, nothing unpinned loaded but behind a pinned candidate of its repository (`UnpinnedStandBehind`), the run ends; numbers are the candidate's own and the card is released as long as docker compose works. |
| `scoring` | Every reply of the instance, failing requests, streams that overlap and fail: a tool case is right exactly if the call conforms to its schema in JSON Schema's own reading and is the one asked for, unless the repository says otherwise of the reply (`Disputed`, see `MCScoringDisputed`), and violations are reported exactly where there are any (`ScoresAreFaithful`), the counts belong together and leave no case out (`TallyAddsUp`), a reply that reasoned shows in the run's total (`ReasoningShows`), streams are timed from their own start (`TimesAreOwn`). |
| `registry_overflow`, `startup_token`, `evals_pins`, `evals_abandoned` | violations, below |

### Bounds, and why they are enough

* `N = 3` modules: one before and one after the module something happens to, and two that
  offer the same tool. `MaxTasks = 2` retry tasks of a module at once: the guard of
  `CreateRetry` is what is tested, and one alive beside one named shows it broken.
  `MaxOutage = 2` failed attempts (1 in the composed instances): a retry goes round its loop
  and comes out of it. `OverflowAt` is 1024 in the code; 3 reaches the same branch.
* Two calls and two modules in `MCGateway`: a name changes owner, and two calls mix their
  audit rows. One call each of a T0, T1, T3 and unknown tool is possible.
* `Max = 2`, `MaxMinted = 3`, `Ttl = 1`, `MaxTime = 2` in `MCSessions`: the store fills,
  evicts, and expires with a live session beside; ties of `last_seen_at` occur. In
  `MCChat` the store holds one session, so the two devices evict each other.
* `Turns` (two for one device, one for the other), `MaxBoots`, `MaxRetries`: a late answer,
  the turn after it, a turn after a restart, a retry. `MCChatTurns` has three turns of one
  device.
* `MCService`: two modules, one over the server and one that reports itself; the observer
  has one subscription per topic, and a guest comes, goes and unsubscribes twice. One
  request for `/health` at a time: requests share nothing.
* `MCScoring`: a parameter on, within and across its bounds and of another type, one with an
  enum, one missing, one unknown; a cold and a warm stream and two at once.
  Two units of time, and streams that report two tokens or none, so that a rate exists and
  does not. No stream says that it was cut off: the mark is counted and nothing else; the
  instances beside the run have streams that do.
* `MCStartup`: layers that name at most one setting beside a token, so that any two layers
  can disagree about a setting while the process still serves; budgets on and just across
  each limit.
* `MCEvals`: two candidates are needed for one container to be taken for another's.

Deadlock is checked in the registry, service, gateway, evaluation and scoring runs, whose
modules say how the program ends (`Exit`, `Ended`, `Finished`). `Sessions`, `Chat` and
`Startup` stop at their bounds, or when the process serves or has exited; there it is off.

### Fairness

* `Registry`: weak fairness of the lifespan, the poll, each retry task and each reporter
  in `_degrade`. The event loop is fair, sleeps end, and every call of a module returns or
  raises: the one module there is calls vLLM with time-outs. Not fair: `Report` and
  `ShutdownRequested`. Which of the outcomes of a start occurs is not fair either; that a
  degraded module resolves relies on the bound `MaxOutage`, that is, on a dependency that
  answers in the end.
* `Service`: the same tasks, a request for `/health` that has begun, and the answers to
  probes, which time out; and that handlers end (`HandlerFairness`). The last is asked of
  the subscribers: publish has no time-out, and without it the poll may stand still
  (`MCServiceHang`). Not fair: the server, reports, subscribers, new requests, shutdown.
* `Chat`: a request that is past `sent` takes its next step, because the SDK's attempts
  time out and are bounded. Nothing makes an agent ask, or the server run.
* `Evals`: the harness goes on; its calls have time-outs or end by themselves. vLLM need
  not do anything.

## What is proved

Checked by TLAPS for every value of the constants, from the `...Assumption` of each module
and what is named below. Every invariant and every action property of the passing runs is
stated by a theorem; what is left to TLC alone is liveness.

**Registry, until the roll-back** (`RegistryProofs`).

* `TypeCorrect`, `ToolsHaveOneOwner`: from `RegistryAssumption` alone. The second is
  inductive with `TypeOK`: only `StartOk` and the retry's `RetryOk` write `tools`, after
  `_check_tool_names` in the same stretch without an await.
* `NoModuleForgotten`: `Unobserved => (Spec => []DegradedHasRetry)`, for any number of
  modules and reporters. `Unobserved` says that nobody subscribes to `module.recovered` and
  that no outage lasts until the back-off overflows; without either the property is false
  (`registry_overflow`, `MCRegistryLostRetry`).
  `DegradedHasRetry` is not inductive: that the entry's live task is going to start the
  module needs that the task has not passed its last use (`RetriesGoOn`), that tasks are
  cancelled only in `_rollback` (`CancelledInRollback`), that a live task is the one its
  entry names (`NamedWhileOpen`), that startup does not overwrite an entry somebody works
  on (`PendingIsUntouched`) and that a task that gives up has set FAILED
  (`GivenUpIsFailed`). `RecoveryInv` is their conjunction; the proof has a lemma per
  conjunct, with frame lemmas for what each task may change.
* `SoundUntilRollback`: `Spec => []SoundWhileOpen`, with reporters and subscribers. Status
  and the module's own phase agree because a module that somebody works on has one owner:
  its retry (`RetryOwns`), or the caller that is degrading it (`DegradeOwns`).

**Registry, to the end** (`RegistryProofs`). All but the last under
`Unreported == Reporters = {}`: a `mark_unhealthy` of somebody else that is suspended while
`_rollback` runs goes on beside it (`MCRegistryEscape`).

* `NothingIsLeft`, `StatusIsTrue`, `OneCallAtATime`: over `ShutdownInv`, whose part
  `StagesOfRollback` says what each stage of `_rollback` has established: the poll is over,
  then every retry is over or cancelled, then all are over, then the modules above the
  current one are swept.
* `StopsInReverse` (`[]ReverseStop`): the same inductive invariant, read for the order in
  which modules are shut down.
* `ImplementsModuleLifecycle`: initial states map to initial states, every step to a step
  or a stutter of `ModuleLifecycle` (a lemma per task).
* `StartsAreClean`: a module is started by startup or by its retry only in a phase in which
  it holds nothing; `CleanInv` follows the phase through each task.
* `RollbackIsBounded` (`RollbackAdvances`), with reporters too: `RollbackLeft` is a natural
  number that every step of main in the roll-back makes smaller, so that there are at most
  `N + 3`. That each of them is taken is `LifespanProgress`, which TLC checks.

**Service** (`ServiceProofs`). `ServiceImplementsRegistry`: bus, server, requests and
subscribers add no behaviour to the registry, so `SoundWhileOpen`, `DegradedHasRetry` and
`OneOwnerPerTool` carry over (`ServiceStaysSound` under `Unobserved`,
`ServiceToolsHaveOneOwner`). `NothingUsesClosed` (`[]ClosedUnused`, under `Unreported`) adds to
`StagesOfRollback` that the client is closed by the lifespan's last step, and that requests
are drained before it shuts down (`ConnectionInv`). `HealthIsHonest` (`[]ViewIsHonest`) needs
no assumption: what the walk of `/health` has passed and not listed was up since the request
came, and a good answer that the request reads was given since it came (`ViewInv`).
`ServiceTypeCorrect` is the type of all parts together.

The event bus and its observer:

* `SubscriptionsHold`: `OwnHandlers => (ServiceSpec => []SubscriptionHolds)`. `OwnHandlers`
  says that no handler is subscribed twice to one topic; without it an `unsubscribe` called
  twice takes another's subscription (`MCServiceShared`). `SubscriptionHolds` is inductive
  with the type of the bus; `RemoveFirstEffect` says what `list.remove` leaves.
* `ObserverStaysRight`: `Attended => (ServiceSpec => []ObserverIsRight)`. `Attended` adds to
  `OwnHandlers` that there is an observer of degradation and failure, as in the run, and that
  nobody subscribes to `module.recovered`; with such a subscriber it is false
  (`MCServiceOrder`). The inductive invariant `ToldInv` says that whoever publishes is still
  where it published for as long as a delivery of it is left (`Tells`), so that no delivery
  of an earlier trouble outlives the next one, and that of a module in trouble the observer
  has heard last, is being told, or is about to be (`DegradedIsTold`, `FailedIsTold`). It
  holds until the roll-back, which cancels tasks that publish. It rests on what
  `RegistryProofs` proves of retries and callers (`RegistryInv`) and on `SubscriptionsHold`.

**Gateway** (`GatewayProofs`), for any number of calls over any registry.
`GatewayOnlyReads` shows that the gateway changes nothing of the registry, so its theorems
hold there. `OnlyReadRuns` needs that a call past its checks has found a T0 tool, owned
by the module it was looked up in (`FoundIsOwned`); `NothingUnaudited` and `OutcomeIsOne`
follow from `AuditOf(c)`, which says what rows a call has at each of its awaits.
`GatewayImplementsAuditTrail`: a step of a call is an `Announce`, a `Conclude` or a `Leave` of
`AuditTrail`, or changes nothing of it, and so do the registry's. That an OUTCOME row says
what the call did needs `VerdictInv`: a call's decision is that of the denial check of what it
had found.

**Sessions** (`SessionsProofs`), for any devices, names, TTL and maximum.

* `KeysAlwaysResolve`, `SessionsAreOwn`, `SessionsTypeCorrect`, also when the clock is set
  back. `ResultIsOwn` is not inductive: a session id a caller sends is honoured when the
  session's satellite is the caller's, so the proof needs that every session held is bound
  to the satellite of the device it was minted for (`HeldIsBound`), and a key is honoured
  because it leads to a session of its own satellite (`KeysResolve`). `StoreInv` is their
  conjunction; a lemma each says that expiry, a refresh and a mint with its evictions keep
  it.
* `StoreIsBounded`, also when the clock is set back: `Survivors` is written as the sessions
  with fewer than `Max` younger ones, and numbering them by how many are younger is an
  injection into `0..(Max - 1)`.
* `ReturnedIsHeld` under `~Backwards` (false otherwise, `MCSessionsBackwards`), and
  `EvictionsAreFair` either way: an evicted session has `Max` younger ones.
* `ConversationsContinue` under `~Backwards`, over `ContinuesInv`: what a caller was last
  given for an id stays its own, leads back to the same session while that is held, and is
  held while it is within its time to live and no more than `Max` were minted
  (`AnswerHolds`). No mint or eviction for another caller puts a key in its way
  (`KeysApart`, `Leads`), because names Home Assistant makes up are never session ids, an
  assumption of `Sessions`: the latter are fresh `uuid4`s.
* `StoreImplementsConversations`, also when the clock is set back: over `StoreInv`, a refresh
  is a `Continue` and a mint a `Begin` of `ConversationStore`. What needs the invariant is
  that a mint takes its key from nobody: a key that was there would have led to a session
  of the caller's own, which `resolve` would have found.

**Chat** (`ChatProofs`), for any turns, texts and restarts, over `StoreInv`.

* `ConversationsStayApart`: every id an agent holds, or a request carries, is a name or a
  session minted for the agent's own identity (`DeviceOK`, `RequestOK` in `ChatInv`).
* `ConversationIsHeld`: an awaited turn is served in the session of its conversation while
  that is held and not expired. The id of an agent's current conversation leads to its session as
  long as that is held (`Leads`), by the same lemma as above (`ResolveEffect`).
* `RequestsAreBounded` (`RequestsAdvance`): a request makes at most `MaxRetries + 3` steps,
  because each step leaves fewer (`StepsLeft`), whether its agent still waits or not.

**Startup** (`StartupProofs`). `ServesSoundly` over `StartupInv` (what was checked stays
checked), `DryRunStaysOn` over `SettingsInv` (settings are what the layers say, warnings
what the settings say), assuming that `Unset` is neither "on" nor "off";
`StartupTypeCorrect`, assuming that it is not the text of the token file.
`SumCheckIsRedundant` says that of the three budget checks the first never decides, in exact
arithmetic.

**Evaluation** (`EvalsProofs`), for any matrix and list of KV types. `NumbersStayOwn` and
`CardIsReleased` over `DockerInv`: until a failure of docker compose goes unnoticed, the
container waited for and its log are those of the pair at hand, and none is left in the
end. `PairsAreRecorded` over `RunInv`, with the arithmetic of `Matrix.expand` (`Origin`,
lemmas on quotients). `UnpinnedStayBehind`: what is loaded without a pin stands behind a
pinned candidate of its repository in the matrix, which is as much as `check_pins` ensures;
that nothing unpinned is loaded is false (`evals_pins`). `RunIsBounded`
(`RunAdvances`): the run makes at most eight steps for a pair and two more, whatever vLLM does.

**Scoring** (`ScoringProofs`), for any cases, schemas, replies and streams.

* `ScoresStayFaithful`, by the schema check alone: the code marks a call right exactly if it
  is what the case asks and conforms (`Problems`, `CallIsRight`). Of the replies in
  `Disputed` it claims only the violations: the repository's own words on them contradict
  the code.
* `TallyStaysTogether` under `EveryToolRequires` (every tool has a parameter that must be
  given, as in `evals/data/tools.json`): `CountInv` compares the counters with the records
  made so far. Without it a call of a tool that requires nothing, whose arguments cannot be
  parsed, is correct and unparseable at once (`evals/cases/tools.py`), and the counters no
  longer add up.
* `ReasoningIsShown`, `TimesStayOwn`, `ScoringTypeCorrect`: over what is known of each stream
  and of the counters at each stage.

Only model-checked: liveness (`DegradedResolves`, `LifespanProgress`, `ComesBack`,
`GoneIsNoticed`, `RequestsDrain`, `RunEnds`), which is out of the prover's reach.
`RollbackIsBounded`, `RequestsAreBounded` and `RunIsBounded` prove of three of them, for any
size, that there are finitely many steps to take; that they are taken rests on fairness.

## Where code and documents disagree

The first four are runs of the project.

1. `registry_overflow`: `factor**attempt` raises `OverflowError` at attempt 1024 (about 17
   hours at the default cap), outside the try of `_retry_loop` (`core/registry.py:229`);
   the task dies and the module stays DEGRADED.
2. `startup_token`: an empty `FARMHUB_API__TOKEN` or `token = ""` counts as a token
   (`api/server.py:53`), against `docs/RUNBOOK.md:146`. An empty token file is refused.
3. `evals_pins`: `check_pins` validates one candidate per repository
   (`evals/run.py:87`); a second one with an unpinned revision is loaded.
4. `evals_abandoned`: `served_models` is called outside any try (`evals/run.py:153`); vLLM
   exiting then loses all results and leaves the container unattended.

Further instances, kept beside the runs and each violated by design of the experiment:

| Config | Module | Property | What it shows |
|---|---|---|---|
| `MCRegistryLostRetry` | `MCRegistry` | `DegradedHasRetry` | degraded again while the retry task still publishes `module.recovered`: no new retry (`core/registry.py:221`). Needs a subscriber that suspends. |
| `MCRegistryEscape` | `MCRegistry` | `QuietWhenClosed` | a reporter inside `_degrade` during the roll-back creates a task nobody cancels. Needs a module that reports itself. |
| `MCGatewayStale` | `MCGateway` | `RunsOnlyAvailable` | availability is read before the INTENT write is awaited (`core/gateway.py:72`). |
| `MCGatewayCancel` | `MCGateway` | `EveryIntentHasOutcome` | a cancelled call leaves no OUTCOME row, against `core/gateway.py:10`. |
| `MCServiceView` | `MCService` | `ViewAlwaysReplies` | a module whose `health()` raises makes `GET /health` a 500, and nothing is told of the others (`core/registry.py:139`). |
| `MCServiceHang` | `MCService` | `GoneIsNoticed` | publish has no time-out: with a handler that hangs the poll stands still, and vLLM going away is not noticed. |
| `MCServiceShared` | `MCService` | `ObserverIsRight` | two subscriptions of one handler: `unsubscribe` of the one, called twice, ends the other (`core/events.py:37`). |
| `MCServiceOrder` | `MCService` | `ObserverIsRight` | an observer of `module.recovered` too: degraded again while that event is being delivered, it hears the recovery last. |
| `MCChatBlank` | `MCChat` | `UnreachableMeansSilence` | a turn with no text gets a 400, and the user hears that FarmHub is not responding. |
| `MCEvalsDtype` | `MCEvals` | `DeliberateDtypeKept` | `Matrix.expand` replaces the KV type a candidate names, against its docstring. |
| `MCEvalsForeign` | `MCEvals` | `NumbersAlwaysOwn` | docker compose down and up both fail unnoticed: one candidate's numbers are reported as another's. |
| `MCScoringDisputed` | `MCScoring` | `AskingIsAcceptable`, `CutOffIsFailure` | `evals/data/tools.json:107` calls asking back acceptable where bounds are tested, the case counts it as wrong; `evals/cases/common.py:68` says "a truncated reply is scored as a failure either way", and no case looks at that mark when it scores (`tlc -continue` shows both). |
| `MCScoringField` | `MCScoring` | `ReasoningAlwaysShows` | a stream's `reasoning_content` is never read, and a stream that failed is not looked at: a run that reasoned shows none. |
| `MCScoringList` | `MCScoring` | `RepliesEndNothing` | a `kind` that is a list raises outside the try (`evals/cases/classifier.py:71`), a tool call without a function too (`evals/cases/tools.py:104`), and all four cases' scores are lost. |

Others that hold: `MCRegistryObserved` (all topics subscribed, without `DegradedHasRetry`;
also `TypeOK`, `RetryIsNamed`, `ReverseStop` and `RollbackAdvances`), `MCSessionsBackwards`
(the wall clock is set back, without `ResultIsHeld`: the session just minted may be the
oldest; also `ImplementsConversations`) and `MCChatTurns` (three turns of one device; also
`RequestsAdvance`).

Met while modelling, without an instance:

* `SPEC.md:400` calls the satellite registry required; the server starts without one, and
  warns.
* `LlmClient.structured` does not validate what it parses against the schema
  (`modules/llm/client.py`), which `core/protocols.py` promises.
* `evals/cases/tools.py` looks at the first tool call of a reply only.
* `evals/cases/latency.py` drops concurrent streams that failed from its figures, and still
  reports how many were meant to run.

## What is not modelled

* The Home Assistant config flow and logging: no state others depend on.
* Deployment scripts: what the harness relies on of docker compose is in `Evals`.
* That a module offers one name twice, which `_check_tool_names` refuses too
  (`core/registry.py:208`): a module's tools are a set of names here.
* Of the LLM client `stream_chat` and `structured`, which have no caller, and the
  translation of messages, which is text.
* Of the evaluation's cases medians, regular expressions and notes. Of the harness the
  exceptions that are not vLLM's doing: a `.env`, a log or a report file that cannot be
  written, a docker that cannot be started.
* `unseal` and handler seals: an object-identity check without interleaving;
  `PendingAction` is declared and not used.

## Plan

Done: all modules above, their instances, and the proof modules. Next, in this order:

1. The shutdown theorems for registries whose modules report themselves, for as long as no
   report is under way when the roll-back begins.
2. When tools exist: cancellation of calls in `Gateway`, and the two-step confirmation of
   T2 tools that `PendingAction` prepares.
