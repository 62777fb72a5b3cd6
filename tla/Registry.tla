------------------------------ MODULE Registry ------------------------------
(***************************************************************************)
(* The module registry of farmhub/core/registry.py together with the       *)
(* server lifespan that drives it (farmhub/api/server.py, farmhub/app.py). *)
(*                                                                         *)
(* The program is one asyncio event loop: code runs without interruption   *)
(* between two awaits that suspend, so one action of this module is one    *)
(* such stretch of code, of one task.  The tasks are                       *)
(*   "main"     the lifespan: start the modules, serve, shut down;         *)
(*   "health"   the health poll that startup creates;                      *)
(*   Reporters  callers of mark_unhealthy other than the health poll;      *)
(*   <<m, k>>   the k-th retry task of module m.                           *)
(* "main", "health" and the reporters share _degrade, so they share the    *)
(* program counter pc and the argument on; a retry task has rpc.           *)
(***************************************************************************)
EXTENDS Naturals, FiniteSets

CONSTANTS
  N,           \* how many modules; they are numbered in start order
  Reporters,   \* tasks that call mark_unhealthy ({} as the program is wired)
  Subscribed,  \* topics of the event bus that have a subscriber
  ToolNames,   \* the names of tools
  Offers,      \* what tools() of each module returns
  Crashy,      \* modules whose startup can raise other than DependencyUnavailable
  OverflowAt,  \* the first attempt whose factor**attempt overflows a float
  MaxOutage,   \* bound: failed attempts of one retry task before it gets an answer
  MaxTasks     \* bound: retry tasks of one module alive at once

Modules == 1..N
RetryTasks == Modules \X (1..MaxTasks)
Callers == {"main", "health"} \cup Reporters
Topics == {"module.degraded", "module.recovered", "module.failed"}

ASSUME RegistryAssumption ==
  /\ N \in Nat \ {0}
  /\ {"main", "health"} \cap Reporters = {}
  /\ Subscribed \subseteq Topics
  /\ Offers \in [Modules -> SUBSET ToolNames]
  /\ Crashy \subseteq Modules
  /\ OverflowAt \in Nat \ {0}
  /\ MaxOutage \in Nat
  /\ MaxTasks \in Nat \ {0}

VARIABLES
  status,     \* entry.status
  attempted,  \* entry.attempted: startup was called, so shutdown is owed
  tools,      \* entry.tools, as the set of their names
  handle,     \* entry.retry: the slot of its task, or NoTask
  phase,      \* of the module object: which lifecycle call it last received
  pc, on,     \* where each caller is suspended, and the module it works on
  rpc,        \* where each retry task is suspended
  attempt,    \* the local variable attempt of each retry task
  failed      \* registry.startup raised

regVars == <<status, attempted, tools, handle, phase, pc, on, rpc, attempt, failed>>

NoTask == 0

Statuses == {"pending", "running", "degraded", "failed", "stopped"}

\* "clean": nothing held; "starting", "stopping": startup or shutdown was called and
\* has not returned (it is running, it raised, or its task was cancelled in it);
\* "up": startup returned.
Phases == {"clean", "starting", "up", "stopping"}

MainLabels == {"boot", "starting", "degShutdown", "degPublish", "serving",
               "awaitHealth", "awaitRetries", "stopping", "closing", "stopped", "raised"}
HealthLabels == {"none", "sleep", "probing", "degShutdown", "degPublish",
                 "cancelled", "done"}
ReporterLabels == {"idle", "degShutdown", "degPublish"}
RetryLabels == {"none", "sleep", "starting", "retryShutdown", "recPublish",
                "failShutdown", "failPublish", "cancelled", "done"}

-----------------------------------------------------------------------------
(* What other components read: find_tool and available_tools.              *)

AvailableTools == UNION {tools[m] : m \in {k \in Modules : status[k] = "running"}}

\* The entries whose registered tools hold this name; find_tool takes the first.
Owners(name) == {m \in Modules : name \in tools[m]}
FindTool(name) == CHOOSE m \in Owners(name) : \A k \in Owners(name) : m <= k

-----------------------------------------------------------------------------
(* Shared pieces of code.                                                  *)

\* publish waits for its subscribers; gather of no subscribers is done at once.
PublishSuspends(topic) == topic \in Subscribed

\* Task.done(): never created, or run to its end.
Over(t) == rpc[t] \in {"none", "done"}


\* Bug: tools of modules that are not running do not count as taken.
NameTaken_OnlyRunning(m) ==
  \E k \in Modules \ {m} : status[k] = "running" /\ Offers[m] \cap tools[k] # {}

\* _check_tool_names: a name the module offers is registered by another entry.
NameTaken(m) == \E k \in Modules \ {m} : Offers[m] \cap tools[k] # {}

\* startup or tools() raises something other than DependencyUnavailable, or
\* _check_tool_names does; the module is left in phase p.
StartupRaises(m, p) ==
  \/ m \in Crashy /\ p \in {"starting", "up"}
  \/ NameTaken(m) /\ p = "up"


\* Bug: the entry's retry is tested for None, not for done().
CreateRetry_NoneOnly(m) ==
  IF handle[m] = NoTask
  THEN /\ rpc' = [rpc EXCEPT ![<<m, 1>>] = "sleep"]
       /\ attempt' = [attempt EXCEPT ![<<m, 1>>] = 0]
       /\ handle' = [handle EXCEPT ![m] = 1]
  ELSE UNCHANGED <<rpc, attempt, handle>>

\* The last lines of _degrade: a new retry task unless the entry's is alive.
CreateRetry(m) ==
  IF handle[m] = NoTask \/ Over(<<m, handle[m]>>)
  THEN \E k \in 1..MaxTasks :
         /\ Over(<<m, k>>)
         /\ \A j \in 1..(k - 1) : ~Over(<<m, j>>)
         /\ rpc' = [rpc EXCEPT ![<<m, k>>] = "sleep"]
         /\ attempt' = [attempt EXCEPT ![<<m, k>>] = 0]
         /\ handle' = [handle EXCEPT ![m] = k]
  ELSE UNCHANGED <<rpc, attempt, handle>>


\* Bug: the loop runs one entry too far.
StartFrom_OneMore(i, ph) ==
  IF i <= N + 1
  THEN /\ pc' = [pc EXCEPT !["main"] = "starting"]
       /\ on' = [on EXCEPT !["main"] = i]
       /\ attempted' = [attempted EXCEPT ![i] = TRUE]
       /\ phase' = [ph EXCEPT ![i] = "starting"]
  ELSE /\ pc' = [pc EXCEPT !["main"] = "serving", !["health"] = "sleep"]
       /\ phase' = ph
       /\ UNCHANGED <<on, attempted>>

\* Bug: the entry is not marked attempted when its startup is called.
StartFrom_NotAttempted(i, ph) ==
  IF i <= N
  THEN /\ pc' = [pc EXCEPT !["main"] = "starting"]
       /\ on' = [on EXCEPT !["main"] = i]
       /\ phase' = [ph EXCEPT ![i] = "starting"]
       /\ UNCHANGED attempted
  ELSE /\ pc' = [pc EXCEPT !["main"] = "serving", !["health"] = "sleep"]
       /\ phase' = ph
       /\ UNCHANGED <<on, attempted>>

\* The head of the loop in startup: call the next entry's startup, or leave the
\* loop, create the health task and serve.
StartFrom(i, ph) ==
  IF i <= N
  THEN /\ pc' = [pc EXCEPT !["main"] = "starting"]
       /\ on' = [on EXCEPT !["main"] = i]
       /\ attempted' = [attempted EXCEPT ![i] = TRUE]
       /\ phase' = [ph EXCEPT ![i] = "starting"]
  ELSE /\ pc' = [pc EXCEPT !["main"] = "serving", !["health"] = "sleep"]
       /\ phase' = ph
       /\ UNCHANGED <<on, attempted>>

\* The head of the loop in poll_health: probe the next entry that is running now,
\* or end the pass.
ProbeFrom(i) ==
  \/ \E j \in i..N :
       /\ status[j] = "running"
       /\ \A k \in i..(j - 1) : status[k] # "running"
       /\ pc' = [pc EXCEPT !["health"] = "probing"]
       /\ on' = [on EXCEPT !["health"] = j]
  \/ /\ \A k \in i..N : status[k] # "running"
     /\ pc' = [pc EXCEPT !["health"] = "sleep"]
     /\ UNCHANGED on


\* Bug: entries are not stopped in reverse order, and some are passed over.
StopFrom_AnyOrder(i, ph) ==
  \/ \E j \in 1..i :
       /\ attempted[j]
       /\ handle' = [m \in Modules |-> IF m \in j..i THEN NoTask ELSE handle[m]]
       /\ phase' = [ph EXCEPT ![j] = "stopping"]
       /\ pc' = [pc EXCEPT !["main"] = "stopping"]
       /\ on' = [on EXCEPT !["main"] = j]
  \/ /\ \A k \in 1..i : ~attempted[k]
     /\ handle' = [m \in Modules |-> IF m \in 1..i THEN NoTask ELSE handle[m]]
     /\ phase' = ph
     /\ pc' = [pc EXCEPT !["main"] = IF failed THEN "raised" ELSE "closing"]
     /\ UNCHANGED on

\* The head of the last loop in _rollback, which runs backwards from entry i: forget
\* the retry of every entry passed, and stop at the first that was attempted.
StopFrom(i, ph) ==
  \/ \E j \in 1..i :
       /\ attempted[j]
       /\ \A k \in (j + 1)..i : ~attempted[k]
       /\ handle' = [m \in Modules |-> IF m \in j..i THEN NoTask ELSE handle[m]]
       /\ phase' = [ph EXCEPT ![j] = "stopping"]
       /\ pc' = [pc EXCEPT !["main"] = "stopping"]
       /\ on' = [on EXCEPT !["main"] = j]
  \/ /\ \A k \in 1..i : ~attempted[k]
     /\ handle' = [m \in Modules |-> IF m \in 1..i THEN NoTask ELSE handle[m]]
     /\ phase' = ph
     /\ pc' = [pc EXCEPT !["main"] = IF failed THEN "raised" ELSE "closing"]
     /\ UNCHANGED on


\* Bug: stop the modules without cancelling the retries first.
CancelRetries_Skipped(ph) == StopFrom(N, ph) /\ UNCHANGED rpc

\* Bug: cancel the retries without waiting for them to end.
CancelRetries_NoWait(ph) ==
  /\ rpc' = [t \in RetryTasks |->
               IF handle[t[1]] = t[2] /\ ~Over(t) THEN "cancelled" ELSE rpc[t]]
  /\ StopFrom(N, ph)

\* _rollback once no health task runs: cancel every retry an entry names and wait
\* for them; gather() of nothing does not suspend.
CancelRetries(ph) ==
  LET named == {t \in RetryTasks : handle[t[1]] = t[2]}
  IN  IF named = {}
      THEN StopFrom(N, ph) /\ UNCHANGED rpc
      ELSE /\ rpc' = [t \in RetryTasks |->
                        IF t \in named /\ ~Over(t) THEN "cancelled" ELSE rpc[t]]
           /\ pc' = [pc EXCEPT !["main"] = "awaitRetries"]
           /\ phase' = ph
           /\ UNCHANGED <<handle, on>>

-----------------------------------------------------------------------------
(* The lifespan: startup, serving, shutdown.                               *)

Boot == /\ pc["main"] = "boot"
        /\ StartFrom(1, phase)
        /\ UNCHANGED <<status, tools, handle, rpc, attempt, failed>>

\* module.startup returns, its tools are free: the entry is RUNNING.
StartOk ==
  LET m == on["main"]
  IN  /\ pc["main"] = "starting"
      /\ ~NameTaken(m)
      /\ tools' = [tools EXCEPT ![m] = Offers[m]]
      /\ status' = [status EXCEPT ![m] = "running"]
      /\ StartFrom(m + 1, [phase EXCEPT ![m] = "up"])
      /\ UNCHANGED <<handle, rpc, attempt, failed>>

\* DependencyUnavailable: _degrade up to its first await.
StartUnavailable ==
  LET m == on["main"]
  IN  /\ pc["main"] = "starting"
      /\ status' = [status EXCEPT ![m] = "degraded"]
      /\ phase' = [phase EXCEPT ![m] = "stopping"]
      /\ pc' = [pc EXCEPT !["main"] = "degShutdown"]
      /\ UNCHANGED <<attempted, tools, handle, on, rpc, attempt, failed>>

\* Any other error: roll back, then raise.  No health task exists yet.
StartFails ==
  LET m == on["main"]
  IN  /\ pc["main"] = "starting"
      /\ failed' = TRUE
      /\ \E p \in Phases : StartupRaises(m, p) /\ CancelRetries([phase EXCEPT ![m] = p])
      /\ UNCHANGED <<status, attempted, tools, attempt>>

\* The server is asked to stop: cancel the health task and wait for it.
ShutdownRequested ==
  /\ pc["main"] = "serving"
  /\ pc' = [pc EXCEPT !["main"] = "awaitHealth", !["health"] = "cancelled"]
  /\ UNCHANGED <<status, attempted, tools, handle, phase, on, rpc, attempt, failed>>

HealthEnded ==
  /\ pc["main"] = "awaitHealth"
  /\ pc["health"] = "done"
  /\ CancelRetries(phase)
  /\ UNCHANGED <<status, attempted, tools, attempt, failed>>

RetriesEnded ==
  /\ pc["main"] = "awaitRetries"
  /\ \A t \in RetryTasks : rpc[t] # "cancelled"
  /\ StopFrom(N, phase)
  /\ UNCHANGED <<status, attempted, tools, rpc, attempt, failed>>

\* module.shutdown returns or raises; _safe_shutdown treats both alike.
ModuleStopped ==
  LET m == on["main"]
  IN  /\ pc["main"] = "stopping"
      /\ status' = [status EXCEPT ![m] = "stopped"]
      /\ StopFrom(m - 1, [phase EXCEPT ![m] = "clean"])
      /\ UNCHANGED <<attempted, tools, rpc, attempt, failed>>

\* The lifespan closes the shared backend and ends.
CloseBackend ==
  /\ pc["main"] = "closing"
  /\ pc' = [pc EXCEPT !["main"] = "stopped"]
  /\ UNCHANGED <<status, attempted, tools, handle, phase, on, rpc, attempt, failed>>

-----------------------------------------------------------------------------
(* _degrade, from its first await on, for every caller.                    *)

\* The end of _degrade and what its caller does next: main goes to the next entry,
\* the health poll to the next running entry, a reporter returns.
DegradeEnds(c, ph) ==
  /\ CreateRetry(on[c])
  /\ \/ c = "main" /\ StartFrom(on[c] + 1, ph)
     \/ c = "health" /\ ProbeFrom(on[c] + 1) /\ phase' = ph /\ UNCHANGED attempted
     \/ /\ c \in Reporters
        /\ pc' = [pc EXCEPT ![c] = "idle"]
        /\ phase' = ph
        /\ UNCHANGED <<on, attempted>>

\* The module's shutdown is over.
DegradeShutdown(c) ==
  LET m == on[c]
      down == [phase EXCEPT ![m] = "clean"]
  IN  /\ pc[c] = "degShutdown"
      /\ IF PublishSuspends("module.degraded")
         THEN /\ pc' = [pc EXCEPT ![c] = "degPublish"]
              /\ phase' = down
              /\ UNCHANGED <<attempted, handle, on, rpc, attempt>>
         ELSE DegradeEnds(c, down)
      /\ UNCHANGED <<status, tools, failed>>

DegradePublished(c) ==
  /\ pc[c] = "degPublish"
  /\ DegradeEnds(c, phase)
  /\ UNCHANGED <<status, tools, failed>>

-----------------------------------------------------------------------------
(* The health poll and mark_unhealthy.                                     *)

PollBegins ==
  /\ pc["health"] = "sleep"
  /\ ProbeFrom(1)
  /\ UNCHANGED <<status, attempted, tools, handle, phase, rpc, attempt, failed>>

ProbeHealthy ==
  /\ pc["health"] = "probing"
  /\ ProbeFrom(on["health"] + 1)
  /\ UNCHANGED <<status, attempted, tools, handle, phase, rpc, attempt, failed>>

\* mark_unhealthy(m) by a caller: degrade the entry if it is still RUNNING.
MarkUnhealthy(c, m) ==
  /\ status[m] = "running"
  /\ status' = [status EXCEPT ![m] = "degraded"]
  /\ phase' = [phase EXCEPT ![m] = "stopping"]
  /\ pc' = [pc EXCEPT ![c] = "degShutdown"]
  /\ on' = [on EXCEPT ![c] = m]

\* The report is UNHEALTHY, or health() raised.
ProbeUnhealthy ==
  LET m == on["health"]
  IN  /\ pc["health"] = "probing"
      /\ \/ MarkUnhealthy("health", m)
         \/ /\ status[m] # "running"
            /\ ProbeFrom(m + 1)
            /\ UNCHANGED <<status, phase>>
      /\ UNCHANGED <<attempted, tools, handle, rpc, attempt, failed>>


\* Bug: the health loop swallows its cancellation and goes on.
HealthCancelled_Swallowed ==
  /\ pc["health"] = "cancelled"
  /\ pc' = [pc EXCEPT !["health"] = "sleep"]
  /\ UNCHANGED <<status, attempted, tools, handle, phase, on, rpc, attempt, failed>>

\* CancelledError reaches the health task at the await it is suspended in.
HealthCancelled ==
  /\ pc["health"] = "cancelled"
  /\ pc' = [pc EXCEPT !["health"] = "done"]
  /\ UNCHANGED <<status, attempted, tools, handle, phase, on, rpc, attempt, failed>>

Report(r) ==
  /\ pc[r] = "idle"
  /\ \E m \in Modules : MarkUnhealthy(r, m)
  /\ UNCHANGED <<attempted, tools, handle, rpc, attempt, failed>>

-----------------------------------------------------------------------------
(* _retry_loop of retry task t, whose module is t[1].                      *)

RetryWakes(t) ==
  /\ rpc[t] = "sleep"
  /\ rpc' = [rpc EXCEPT ![t] = "starting"]
  /\ attempt' = [attempt EXCEPT ![t] = @ + 1]
  /\ attempted' = [attempted EXCEPT ![t[1]] = TRUE]
  /\ phase' = [phase EXCEPT ![t[1]] = "starting"]
  /\ UNCHANGED <<status, tools, handle, pc, on, failed>>

RetryOk(t) ==
  LET m == t[1]
  IN  /\ rpc[t] = "starting"
      /\ ~NameTaken(m)
      /\ tools' = [tools EXCEPT ![m] = Offers[m]]
      /\ status' = [status EXCEPT ![m] = "running"]
      /\ phase' = [phase EXCEPT ![m] = "up"]
      /\ rpc' = [rpc EXCEPT ![t] = IF PublishSuspends("module.recovered")
                                   THEN "recPublish" ELSE "done"]
      /\ attempt' = [attempt EXCEPT ![t] = 0]
      /\ UNCHANGED <<attempted, handle, pc, on, failed>>


\* Bug: the next attempt is made without shutting the module down.
RetryUnavailable_NoShutdown(t) ==
  /\ rpc[t] = "starting"
  /\ attempt[t] <= MaxOutage
  /\ rpc' = [rpc EXCEPT ![t] = "sleep"]
  /\ UNCHANGED <<status, attempted, tools, handle, phase, pc, on, attempt, failed>>

\* DependencyUnavailable: stay DEGRADED, shut the module down, try again.
RetryUnavailable(t) ==
  /\ rpc[t] = "starting"
  /\ attempt[t] <= MaxOutage
  /\ rpc' = [rpc EXCEPT ![t] = "retryShutdown"]
  /\ phase' = [phase EXCEPT ![t[1]] = "stopping"]
  /\ UNCHANGED <<status, attempted, tools, handle, pc, on, attempt, failed>>


\* Bug: the loop returns after a failed attempt instead of continuing.
RetryDown_Returns(t) ==
  /\ rpc[t] = "retryShutdown"
  /\ phase' = [phase EXCEPT ![t[1]] = "clean"]
  /\ rpc' = [rpc EXCEPT ![t] = "done"]
  /\ attempt' = [attempt EXCEPT ![t] = 0]
  /\ UNCHANGED <<status, attempted, tools, handle, pc, on, failed>>

\* The head of the loop computes delay(attempt), outside the try: from OverflowAt on
\* it raises OverflowError and the task is over.
RetryDown(t) ==
  /\ rpc[t] = "retryShutdown"
  /\ phase' = [phase EXCEPT ![t[1]] = "clean"]
  /\ IF attempt[t] < OverflowAt
     THEN rpc' = [rpc EXCEPT ![t] = "sleep"] /\ UNCHANGED attempt
     ELSE rpc' = [rpc EXCEPT ![t] = "done"] /\ attempt' = [attempt EXCEPT ![t] = 0]
  /\ UNCHANGED <<status, attempted, tools, handle, pc, on, failed>>


\* Bug: a module that fails for good is not shut down.
RetryFails_NoShutdown(t) ==
  LET m == t[1]
  IN  /\ rpc[t] = "starting"
      /\ status' = [status EXCEPT ![m] = "failed"]
      /\ rpc' = [rpc EXCEPT ![t] = "done"]
      /\ \E p \in Phases : StartupRaises(m, p) /\ phase' = [phase EXCEPT ![m] = p]
      /\ attempt' = [attempt EXCEPT ![t] = 0]
      /\ UNCHANGED <<attempted, tools, handle, pc, on, failed>>

\* Any other error: the module is FAILED and is not retried.
RetryFails(t) ==
  LET m == t[1]
  IN  /\ rpc[t] = "starting"
      /\ \E p \in Phases : StartupRaises(m, p)
      /\ status' = [status EXCEPT ![m] = "failed"]
      /\ rpc' = [rpc EXCEPT ![t] = "failShutdown"]
      /\ phase' = [phase EXCEPT ![m] = "stopping"]
      /\ attempt' = [attempt EXCEPT ![t] = 0]
      /\ UNCHANGED <<attempted, tools, handle, pc, on, failed>>

FailedDown(t) ==
  /\ rpc[t] = "failShutdown"
  /\ phase' = [phase EXCEPT ![t[1]] = "clean"]
  /\ rpc' = [rpc EXCEPT ![t] = IF PublishSuspends("module.failed")
                               THEN "failPublish" ELSE "done"]
  /\ UNCHANGED <<status, attempted, tools, handle, pc, on, attempt, failed>>

\* publish returns to the retry task, which ends.
RetryPublished(t) ==
  /\ rpc[t] \in {"recPublish", "failPublish"}
  /\ rpc' = [rpc EXCEPT ![t] = "done"]
  /\ UNCHANGED <<status, attempted, tools, handle, phase, pc, on, attempt, failed>>

\* CancelledError reaches the retry task at the await it is suspended in.
RetryCancelled(t) ==
  /\ rpc[t] = "cancelled"
  /\ rpc' = [rpc EXCEPT ![t] = "done"]
  /\ attempt' = [attempt EXCEPT ![t] = 0]
  /\ UNCHANGED <<status, attempted, tools, handle, phase, pc, on, failed>>

-----------------------------------------------------------------------------
(* The specification.                                                      *)

Init ==
  /\ status = [m \in Modules |-> "pending"]
  /\ attempted = [m \in Modules |-> FALSE]
  /\ tools = [m \in Modules |-> {}]
  /\ handle = [m \in Modules |-> NoTask]
  /\ phase = [m \in Modules |-> "clean"]
  /\ pc = [c \in Callers |-> IF c = "main" THEN "boot"
                             ELSE IF c = "health" THEN "none" ELSE "idle"]
  /\ on = [c \in Callers |-> 1]
  /\ rpc = [t \in RetryTasks |-> "none"]
  /\ attempt = [t \in RetryTasks |-> 0]
  /\ failed = FALSE

Degrading(c) == DegradeShutdown(c) \/ DegradePublished(c)

MainStep == \/ Boot \/ StartOk \/ StartUnavailable \/ StartFails
            \/ HealthEnded \/ RetriesEnded \/ ModuleStopped \/ CloseBackend
            \/ Degrading("main")

HealthStep == \/ PollBegins \/ ProbeHealthy \/ ProbeUnhealthy \/ HealthCancelled
              \/ Degrading("health")

RetryStep(t) == \/ RetryWakes(t) \/ RetryOk(t) \/ RetryUnavailable(t) \/ RetryDown(t)
                \/ RetryFails(t) \/ FailedDown(t) \/ RetryPublished(t)
                \/ RetryCancelled(t)

Ended == pc["main"] \in {"stopped", "raised"}

RegistryNext == \/ MainStep
                \/ ShutdownRequested
                \/ HealthStep
                \/ \E r \in Reporters : Report(r) \/ Degrading(r)
                \/ \E t \in RetryTasks : RetryStep(t)

\* The process goes away once the lifespan has ended.
Exit == Ended /\ UNCHANGED regVars

Next == RegistryNext \/ Exit

Spec == Init /\ [][Next]_regVars

\* Every await of a task returns: the loop is fair to its tasks, sleeps end, and every
\* call of a module returns or raises (the LLM client's calls all carry timeouts).
\* Nothing forces a report or the end of serving.
Fairness == /\ WF_regVars(MainStep)
            /\ WF_regVars(HealthStep)
            /\ \A r \in Reporters : WF_regVars(Degrading(r))
            /\ \A t \in RetryTasks : WF_regVars(RetryStep(t))

FairSpec == Spec /\ Fairness

-----------------------------------------------------------------------------
(* Properties.                                                             *)

\* Every caller is at a label of its own kind.
PcOK(p) ==
  /\ p \in [Callers -> MainLabels \cup HealthLabels \cup ReporterLabels]
  /\ p["main"] \in MainLabels
  /\ p["health"] \in HealthLabels
  /\ \A r \in Reporters : p[r] \in ReporterLabels

\* Type correctness; each kind of task only reaches the awaits of its own code.
TypeOK ==
  /\ status \in [Modules -> Statuses]
  /\ attempted \in [Modules -> BOOLEAN]
  /\ tools \in [Modules -> SUBSET ToolNames]
  /\ handle \in [Modules -> 0..MaxTasks]
  /\ phase \in [Modules -> Phases]
  /\ PcOK(pc)
  /\ on \in [Callers -> Modules]
  /\ rpc \in [RetryTasks -> RetryLabels]
  /\ attempt \in [RetryTasks -> Nat]
  /\ failed \in BOOLEAN

InDegrade(c) == pc[c] \in {"degShutdown", "degPublish"}
Alive(t) == ~Over(t) /\ rpc[t] # "cancelled"
RollingBack == pc["main"] \in {"awaitHealth", "awaitRetries", "stopping", "closing",
                               "stopped", "raised"}
Closed == pc["main"] \in {"closing", "stopped", "raised"}

\* A module never gets stuck in DEGRADED: until the registry rolls back, a degraded
\* entry names a retry task that is alive, or somebody is in _degrade and will create
\* one (_degrade, _retry_loop, mark_unhealthy).
DegradedHasRetry ==
  \A m \in Modules : status[m] = "degraded" =>
    \/ handle[m] # NoTask /\ Alive(<<m, handle[m]>>)
    \/ \E c \in Callers : InDegrade(c) /\ on[c] = m
    \/ RollingBack

\* No retry task escapes the registry: one that has not ended is the one its entry
\* names, so that _rollback can find and cancel it.
RetryIsNamed ==
  \A t \in RetryTasks : ~Over(t) => handle[t[1]] = t[2]

CallerCalls(c, m) == pc[c] \in {"starting", "degShutdown", "stopping"} /\ on[c] = m
RetryCalls(t, m) == rpc[t] \in {"starting", "retryShutdown", "failShutdown"} /\ t[1] = m

\* startup and shutdown of one module never run at the same time, whoever calls them
\* (startup, _degrade, _retry_loop, _rollback): no module is written to stand that.
OneLifecycleCall ==
  \A m \in Modules :
    /\ \A c, d \in Callers : CallerCalls(c, m) /\ CallerCalls(d, m) => c = d
    /\ \A t, u \in RetryTasks : RetryCalls(t, m) /\ RetryCalls(u, m) => t = u
    /\ ~ \E c \in Callers, t \in RetryTasks : CallerCalls(c, m) /\ RetryCalls(t, m)

\* What the registry says of a module is true of it: a RUNNING one is up (but for its
\* own shutdown by _rollback), a STOPPED one holds nothing, and one that is DEGRADED
\* or FAILED is not left running.
StatusIsTruthful ==
  \A m \in Modules :
    /\ status[m] = "running" =>
         phase[m] = "up" \/ (pc["main"] = "stopping" /\ on["main"] = m)
    /\ status[m] = "stopped" => phase[m] = "clean"
    /\ status[m] \in {"degraded", "failed"} => phase[m] # "up"

\* While the registry serves or starts, whoever calls mark_unhealthy at whatever moment:
\* retries stay named, lifecycle calls do not overlap and the status is truthful.
SoundWhileOpen == ~RollingBack => RetryIsNamed /\ OneLifecycleCall /\ StatusIsTruthful

\* When _rollback has returned, before the backend is closed, nothing of the registry
\* is left: no task alive, every module whose startup was ever called is STOPPED.
QuietWhenClosed ==
  Closed => /\ pc["health"] \in {"none", "done"}
            /\ \A t \in RetryTasks : Over(t)
            /\ \A m \in Modules :
                 status[m] = (IF attempted[m] THEN "stopped" ELSE "pending")

\* _check_tool_names, across degraded starts, retries and failures: no name is ever
\* registered by two modules, so find_tool never has a choice.
OneOwnerPerTool ==
  \A m, k \in Modules : m # k => tools[m] \cap tools[k] = {}

\* _rollback stops modules in reverse start order, each before it touches the next.
ReverseStop ==
  \A i \in Modules :
    status[i] = "stopped" \/ (pc["main"] = "stopping" /\ on["main"] = i)
      => \A j \in (i + 1)..N : attempted[j] => status[j] = "stopped"

\* How far main still has to go, once it rolls back.
RollbackLeft ==
  CASE pc["main"] = "awaitHealth" -> N + 3
    [] pc["main"] = "awaitRetries" -> N + 2
    [] pc["main"] = "stopping" -> on["main"] + 1
    [] pc["main"] = "closing" -> 1
    [] OTHER -> 0

\* _rollback never turns back, and main makes at most N + 3 steps in it, whoever degrades or
\* retries meanwhile.
RollbackAdvances ==
  [][RollingBack => /\ RollingBack'
                    /\ \/ RollbackLeft' \in 0..(RollbackLeft - 1)
                       \/ UNCHANGED <<pc["main"], on["main"]>>]_regVars

\* The task that calls m's startup in this step.
StartupCalled(m) ==
  \/ \E t \in RetryTasks : t[1] = m /\ rpc[t] = "sleep" /\ rpc'[t] = "starting"
  \/ /\ pc'["main"] = "starting" /\ on'["main"] = m
     /\ ~(pc["main"] = "starting" /\ on["main"] = m)

\* The Module protocol: startup is called only on a module that holds nothing, because
\* shutdown came after every start that failed or degraded and before every retry.
StartsClean ==
  [][\A m \in Modules : StartupCalled(m) => phase[m] = "clean"]_regVars

\* The registry implements the lifecycle of module ModuleLifecycle; it closes when
\* _rollback has cancelled the retries.
Lifecycle == INSTANCE ModuleLifecycle
               WITH closing <- pc["main"] \in {"awaitRetries", "stopping", "closing",
                                              "stopped", "raised"}
ImplementsLifecycle == Lifecycle!Spec

\* Recovery: a degraded module does not stay degraded when its dependency answers
\* within MaxOutage attempts: it runs, is given up as FAILED, or is stopped.
DegradedResolves ==
  \A m \in Modules :
    status[m] = "degraded" ~> status[m] \in {"running", "failed", "stopped"}

\* Startup ends, serving or raising; a shutdown that was begun ends.
LifespanProgress ==
  /\ pc["main"] = "boot" ~> pc["main"] \in {"serving", "raised"}
  /\ pc["main"] = "awaitHealth" ~> pc["main"] = "stopped"
=============================================================================
