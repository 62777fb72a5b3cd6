--------------------------- MODULE RegistryProofs ---------------------------
(***************************************************************************)
(* Proofs about module Registry, for every number of modules, reporters,   *)
(* subscriptions and tool offers.                                          *)
(***************************************************************************)
EXTENDS Registry, TLAPS

USE DEF NoTask, PublishSuspends

-----------------------------------------------------------------------------
(* Type correctness.                                                       *)

\* "main" and "health" are callers, and no reporter is either of them.
LEMMA CallerNames ==
  /\ "main" \in Callers /\ "health" \in Callers
  /\ Reporters \subseteq Callers
  /\ "main" \notin Reporters /\ "health" \notin Reporters
BY RegistryAssumption DEF Callers

\* The loop of startup keeps the types, from whichever entry it goes on.
LEMMA StartFromType ==
  ASSUME TypeOK, NEW i \in Nat \ {0}, NEW ph \in [Modules -> Phases], StartFrom(i, ph)
  PROVE  /\ PcOK(pc')
         /\ on' \in [Callers -> Modules]
         /\ attempted' \in [Modules -> BOOLEAN]
         /\ phase' \in [Modules -> Phases]
<1> USE CallerNames, RegistryAssumption
<1>1. CASE i <= N
  <2>1. i \in Modules
    BY <1>1 DEF Modules
  <2>2. PcOK(pc')
    BY <1>1 DEF StartFrom, TypeOK, PcOK, MainLabels
  <2>3. on' \in [Callers -> Modules]
    BY <1>1, <2>1 DEF StartFrom, TypeOK
  <2>4. attempted' \in [Modules -> BOOLEAN]
    BY <1>1, <2>1 DEF StartFrom, TypeOK
  <2>5. phase' \in [Modules -> Phases]
    BY <1>1, <2>1 DEF StartFrom, Phases
  <2> QED
    BY <2>2, <2>3, <2>4, <2>5
<1>2. CASE ~(i <= N)
  BY <1>2 DEF StartFrom, TypeOK, PcOK, MainLabels, HealthLabels
<1> QED
  BY <1>1, <1>2

\* So does the loop of poll_health.
LEMMA ProbeFromType ==
  ASSUME TypeOK, NEW i \in Nat \ {0}, ProbeFrom(i)
  PROVE  /\ PcOK(pc')
         /\ on' \in [Callers -> Modules]
<1> USE CallerNames, RegistryAssumption
<1>1. \A j \in i..N : j \in Modules
  BY DEF Modules
<1> QED
  BY <1>1 DEF ProbeFrom, TypeOK, PcOK, HealthLabels

\* And the last loop of _rollback.
LEMMA StopFromType ==
  ASSUME TypeOK, NEW i \in 0..N, NEW ph \in [Modules -> Phases], StopFrom(i, ph)
  PROVE  /\ PcOK(pc')
         /\ on' \in [Callers -> Modules]
         /\ handle' \in [Modules -> 0..MaxTasks]
         /\ phase' \in [Modules -> Phases]
<1> USE CallerNames, RegistryAssumption
<1>1. CASE \E j \in 1..i :
             /\ handle' = [m \in Modules |-> IF m \in j..i THEN NoTask ELSE handle[m]]
             /\ phase' = [ph EXCEPT ![j] = "stopping"]
             /\ pc' = [pc EXCEPT !["main"] = "stopping"]
             /\ on' = [on EXCEPT !["main"] = j]
  <2>1. PICK j \in 1..i :
          /\ handle' = [m \in Modules |-> IF m \in j..i THEN NoTask ELSE handle[m]]
          /\ phase' = [ph EXCEPT ![j] = "stopping"]
          /\ pc' = [pc EXCEPT !["main"] = "stopping"]
          /\ on' = [on EXCEPT !["main"] = j]
    BY <1>1
  <2>2. j \in Modules
    BY DEF Modules
  <2>3. PcOK(pc') /\ on' \in [Callers -> Modules]
    BY <2>1, <2>2 DEF TypeOK, PcOK, MainLabels
  <2>4. handle' \in [Modules -> 0..MaxTasks] /\ phase' \in [Modules -> Phases]
    BY <2>1, <2>2 DEF TypeOK, Phases
  <2> QED
    BY <2>3, <2>4
<1>2. CASE /\ handle' = [m \in Modules |-> IF m \in 1..i THEN NoTask ELSE handle[m]]
           /\ phase' = ph
           /\ pc' = [pc EXCEPT !["main"] = IF failed THEN "raised" ELSE "closing"]
           /\ UNCHANGED on
  BY <1>2 DEF TypeOK, PcOK, MainLabels
<1> QED
  BY <1>1, <1>2 DEF StopFrom

\* _rollback keeps the types when it cancels the retries, or finds none to cancel.
LEMMA CancelRetriesType ==
  ASSUME TypeOK, NEW ph \in [Modules -> Phases], CancelRetries(ph)
  PROVE  /\ PcOK(pc')
         /\ on' \in [Callers -> Modules]
         /\ handle' \in [Modules -> 0..MaxTasks]
         /\ phase' \in [Modules -> Phases]
         /\ rpc' \in [RetryTasks -> RetryLabels]
<1> USE CallerNames, RegistryAssumption
<1>1. CASE StopFrom(N, ph) /\ UNCHANGED rpc
  <2>1. N \in 0..N
    OBVIOUS
  <2> QED
    BY <1>1, <2>1, StopFromType DEF TypeOK
<1>2. CASE /\ rpc' = [t \in RetryTasks |->
                        IF t \in {u \in RetryTasks : handle[u[1]] = u[2]} /\ ~Over(t)
                        THEN "cancelled" ELSE rpc[t]]
           /\ pc' = [pc EXCEPT !["main"] = "awaitRetries"]
           /\ phase' = ph
           /\ UNCHANGED <<handle, on>>
  BY <1>2 DEF TypeOK, PcOK, MainLabels, RetryLabels
<1> QED
  BY <1>1, <1>2 DEF CancelRetries

\* The end of _degrade keeps the types, whether or not it creates a task.
LEMMA CreateRetryType ==
  ASSUME TypeOK, NEW m \in Modules, CreateRetry(m)
  PROVE  /\ rpc' \in [RetryTasks -> RetryLabels]
         /\ attempt' \in [RetryTasks -> Nat]
         /\ handle' \in [Modules -> 0..MaxTasks]
<1> USE RegistryAssumption
<1>1. CASE \E k \in 1..MaxTasks :
             /\ rpc' = [rpc EXCEPT ![<<m, k>>] = "sleep"]
             /\ attempt' = [attempt EXCEPT ![<<m, k>>] = 0]
             /\ handle' = [handle EXCEPT ![m] = k]
  <2>1. PICK k \in 1..MaxTasks :
          /\ rpc' = [rpc EXCEPT ![<<m, k>>] = "sleep"]
          /\ attempt' = [attempt EXCEPT ![<<m, k>>] = 0]
          /\ handle' = [handle EXCEPT ![m] = k]
    BY <1>1
  <2>2. rpc' \in [RetryTasks -> RetryLabels]
    BY <2>1 DEF TypeOK, RetryLabels
  <2>3. attempt' \in [RetryTasks -> Nat]
    BY <2>1 DEF TypeOK
  <2>4. handle' \in [Modules -> 0..MaxTasks]
    BY <2>1 DEF TypeOK
  <2> QED
    BY <2>2, <2>3, <2>4
<1>2. CASE UNCHANGED <<rpc, attempt, handle>>
  BY <1>2 DEF TypeOK
<1> QED
  BY <1>1, <1>2 DEF CreateRetry

\* The end of _degrade, for whichever caller.
LEMMA DegradeEndsType ==
  ASSUME TypeOK, NEW c \in Callers, NEW ph \in [Modules -> Phases], DegradeEnds(c, ph)
  PROVE  /\ PcOK(pc')
         /\ on' \in [Callers -> Modules]
         /\ attempted' \in [Modules -> BOOLEAN]
         /\ phase' \in [Modules -> Phases]
         /\ rpc' \in [RetryTasks -> RetryLabels]
         /\ attempt' \in [RetryTasks -> Nat]
         /\ handle' \in [Modules -> 0..MaxTasks]
<1>1. on[c] \in Modules /\ on[c] + 1 \in Nat \ {0}
  BY RegistryAssumption DEF TypeOK, Modules
<1>2. /\ rpc' \in [RetryTasks -> RetryLabels]
      /\ attempt' \in [RetryTasks -> Nat]
      /\ handle' \in [Modules -> 0..MaxTasks]
  BY <1>1, CreateRetryType DEF DegradeEnds
<1>3. /\ PcOK(pc')
      /\ on' \in [Callers -> Modules]
      /\ attempted' \in [Modules -> BOOLEAN]
      /\ phase' \in [Modules -> Phases]
  <2>1. CASE c = "main" /\ StartFrom(on[c] + 1, ph)
    BY <2>1, <1>1, StartFromType
  <2>2. CASE c = "health" /\ ProbeFrom(on[c] + 1) /\ phase' = ph /\ UNCHANGED attempted
    BY <2>2, <1>1, ProbeFromType DEF TypeOK
  <2>3. CASE /\ c \in Reporters
             /\ pc' = [pc EXCEPT ![c] = "idle"]
             /\ phase' = ph
             /\ UNCHANGED <<on, attempted>>
    BY <2>3, CallerNames DEF TypeOK, PcOK, ReporterLabels
  <2> QED
    BY <2>1, <2>2, <2>3 DEF DegradeEnds
<1> QED
  BY <1>2, <1>3

\* Every step keeps the types.
LEMMA TypeStep ==
  ASSUME TypeOK, [Next]_regVars
  PROVE  TypeOK'
<1> USE CallerNames, RegistryAssumption
<1>1. CASE Boot
  BY <1>1, StartFromType DEF Boot, TypeOK
<1>2. CASE StartOk
  <2> DEFINE ph == [phase EXCEPT ![on["main"]] = "up"]
  <2>1. ph \in [Modules -> Phases] /\ on["main"] + 1 \in Nat \ {0}
    BY DEF TypeOK, Phases, Modules
  <2>2. StartFrom(on["main"] + 1, ph)
    BY <1>2 DEF StartOk
  <2> HIDE DEF ph
  <2>3. /\ PcOK(pc') /\ on' \in [Callers -> Modules]
        /\ attempted' \in [Modules -> BOOLEAN] /\ phase' \in [Modules -> Phases]
    BY <2>1, <2>2, StartFromType
  <2>4. tools' \in [Modules -> SUBSET ToolNames] /\ status' \in [Modules -> Statuses]
    BY <1>2 DEF StartOk, TypeOK, Statuses
  <2> QED
    BY <1>2, <2>3, <2>4 DEF StartOk, TypeOK
<1>3. CASE StartUnavailable
  BY <1>3 DEF StartUnavailable, TypeOK, PcOK, MainLabels, Statuses, Phases
<1>4. CASE StartFails
  <2>1. PICK p \in Phases : CancelRetries([phase EXCEPT ![on["main"]] = p])
    BY <1>4 DEF StartFails
  <2>2. [phase EXCEPT ![on["main"]] = p] \in [Modules -> Phases]
    BY DEF TypeOK
  <2> QED
    BY <1>4, <2>1, <2>2, CancelRetriesType DEF StartFails, TypeOK
<1>5. CASE ShutdownRequested
  BY <1>5 DEF ShutdownRequested, TypeOK, PcOK, MainLabels, HealthLabels
<1>6. CASE HealthEnded
  BY <1>6, CancelRetriesType DEF HealthEnded, TypeOK
<1>7. CASE RetriesEnded
  <2>1. N \in 0..N
    OBVIOUS
  <2> QED
    BY <1>7, <2>1, StopFromType DEF RetriesEnded, TypeOK
<1>8. CASE ModuleStopped
  <2>1. /\ [phase EXCEPT ![on["main"]] = "clean"] \in [Modules -> Phases]
        /\ on["main"] - 1 \in 0..N
    BY DEF TypeOK, Phases, Modules
  <2> QED
    BY <1>8, <2>1, StopFromType DEF ModuleStopped, TypeOK, Statuses
<1>9. CASE CloseBackend
  BY <1>9 DEF CloseBackend, TypeOK, PcOK, MainLabels
<1>10. ASSUME NEW c \in Callers, DegradeShutdown(c) PROVE TypeOK'
  <2> DEFINE ph == [phase EXCEPT ![on[c]] = "clean"]
  <2>1. ph \in [Modules -> Phases]
    BY DEF TypeOK, Phases
  <2>2. CASE "module.degraded" \in Subscribed
    <3>1. PcOK(pc')
      BY <1>10, <2>2 DEF DegradeShutdown, TypeOK, PcOK, MainLabels, HealthLabels,
                         ReporterLabels, Callers
    <3> QED
      BY <1>10, <2>1, <2>2, <3>1 DEF DegradeShutdown, TypeOK
  <2>3. CASE "module.degraded" \notin Subscribed
    <3>1. DegradeEnds(c, ph)
      BY <1>10, <2>3 DEF DegradeShutdown
    <3> HIDE DEF ph
    <3> QED
      BY <1>10, <2>1, <3>1, DegradeEndsType DEF DegradeShutdown, TypeOK
  <2> QED
    BY <2>2, <2>3
<1>11. ASSUME NEW c \in Callers, DegradePublished(c) PROVE TypeOK'
  BY <1>11, DegradeEndsType DEF DegradePublished, TypeOK
<1>12. CASE PollBegins \/ ProbeHealthy
  <2>1. on["health"] + 1 \in Nat \ {0} /\ 1 \in Nat \ {0}
    BY DEF TypeOK, Modules
  <2> QED
    BY <1>12, <2>1, ProbeFromType DEF PollBegins, ProbeHealthy, TypeOK
<1>13. ASSUME NEW c \in Reporters \cup {"health"}, NEW m \in Modules, MarkUnhealthy(c, m)
       PROVE  /\ PcOK(pc') /\ on' \in [Callers -> Modules]
              /\ status' \in [Modules -> Statuses] /\ phase' \in [Modules -> Phases]
  BY <1>13 DEF MarkUnhealthy, TypeOK, PcOK, Statuses, Phases, HealthLabels, ReporterLabels
<1>14. CASE ProbeUnhealthy
  <2>1. on["health"] \in Modules /\ on["health"] + 1 \in Nat \ {0}
    BY DEF TypeOK, Modules
  <2> QED
    BY <1>14, <2>1, <1>13, ProbeFromType DEF ProbeUnhealthy, TypeOK
<1>15. CASE HealthCancelled
  BY <1>15 DEF HealthCancelled, TypeOK, PcOK, HealthLabels
<1>16. ASSUME NEW r \in Reporters, Report(r) PROVE TypeOK'
  BY <1>16, <1>13 DEF Report, TypeOK
<1>17. ASSUME NEW t \in RetryTasks, RetryStep(t) PROVE TypeOK'
  <2>1. t[1] \in Modules
    BY DEF RetryTasks
  <2>2. CASE RetryWakes(t)
    BY <1>17, <2>1, <2>2 DEF RetryWakes, TypeOK, RetryLabels, Phases
  <2>3. CASE RetryOk(t)
    BY <1>17, <2>1, <2>3 DEF RetryOk, TypeOK, RetryLabels, Phases, Statuses
  <2>4. CASE RetryUnavailable(t)
    BY <1>17, <2>1, <2>4 DEF RetryUnavailable, TypeOK, RetryLabels, Phases
  <2>5. CASE RetryDown(t)
    BY <1>17, <2>1, <2>5 DEF RetryDown, TypeOK, RetryLabels, Phases
  <2>6. CASE RetryFails(t)
    BY <1>17, <2>1, <2>6 DEF RetryFails, TypeOK, RetryLabels, Phases, Statuses
  <2>7. CASE FailedDown(t)
    BY <1>17, <2>1, <2>7 DEF FailedDown, TypeOK, RetryLabels, Phases
  <2>8. CASE RetryPublished(t) \/ RetryCancelled(t)
    BY <1>17, <2>1, <2>8 DEF RetryPublished, RetryCancelled, TypeOK, RetryLabels
  <2> QED
    BY <1>17, <2>2, <2>3, <2>4, <2>5, <2>6, <2>7, <2>8 DEF RetryStep
<1>18. CASE UNCHANGED regVars
  BY <1>18 DEF regVars, TypeOK
<1> QED
  BY <1>1, <1>2, <1>3, <1>4, <1>5, <1>6, <1>7, <1>8, <1>9, <1>10, <1>11, <1>12, <1>14,
     <1>15, <1>16, <1>17, <1>18
     DEF Next, RegistryNext, Exit, MainStep, HealthStep, Degrading

\* Every task only reaches the awaits of its own code, and every variable keeps its
\* type, for any number of modules, reporters and retries.
THEOREM TypeCorrect == Spec => []TypeOK
<1> USE CallerNames, RegistryAssumption
<1>1. Init => TypeOK
  <2> SUFFICES ASSUME Init PROVE TypeOK
    OBVIOUS
  <2>1. PcOK(pc)
    BY DEF Init, PcOK, MainLabels, HealthLabels, ReporterLabels
  <2>2. on \in [Callers -> Modules]
    BY DEF Init, Modules
  <2>3. handle \in [Modules -> 0..MaxTasks]
    BY DEF Init
  <2> QED
    BY <2>1, <2>2, <2>3 DEF Init, TypeOK, Statuses, Phases, RetryLabels
<1> QED
  BY <1>1, TypeStep, PTL DEF Spec

-----------------------------------------------------------------------------
(* Tool names.                                                             *)

\* What a step does to the registered tools: nothing, or a module whose names are free
\* registers them.
LEMMA ToolsStep ==
  ASSUME TypeOK, [Next]_regVars
  PROVE  \/ UNCHANGED tools
         \/ \E m \in Modules : ~NameTaken(m) /\ tools' = [tools EXCEPT ![m] = Offers[m]]
<1> USE CallerNames
<1>1. CASE StartOk
  BY <1>1 DEF StartOk, TypeOK
<1>2. ASSUME NEW t \in RetryTasks, RetryOk(t)
      PROVE  \E m \in Modules : ~NameTaken(m) /\ tools' = [tools EXCEPT ![m] = Offers[m]]
  BY <1>2 DEF RetryOk, RetryTasks
<1>3. CASE \/ Boot \/ StartUnavailable \/ StartFails \/ ShutdownRequested \/ HealthEnded
           \/ RetriesEnded \/ ModuleStopped \/ CloseBackend
  BY <1>3 DEF Boot, StartUnavailable, StartFails, ShutdownRequested, HealthEnded,
              RetriesEnded, ModuleStopped, CloseBackend
<1>4. ASSUME NEW c, Degrading(c) PROVE UNCHANGED tools
  BY <1>4 DEF Degrading, DegradeShutdown, DegradePublished
<1>5. CASE PollBegins \/ ProbeHealthy \/ ProbeUnhealthy \/ HealthCancelled
  BY <1>5 DEF PollBegins, ProbeHealthy, ProbeUnhealthy, HealthCancelled
<1>6. ASSUME NEW r \in Reporters, Report(r) PROVE UNCHANGED tools
  BY <1>6 DEF Report
<1>7. ASSUME NEW t \in RetryTasks, RetryStep(t), ~RetryOk(t) PROVE UNCHANGED tools
  BY <1>7 DEF RetryStep, RetryWakes, RetryUnavailable, RetryDown, RetryFails, FailedDown,
              RetryPublished, RetryCancelled
<1>8. CASE UNCHANGED regVars
  BY <1>8 DEF regVars
<1> QED
  BY <1>1, <1>2, <1>3, <1>4, <1>5, <1>6, <1>7, <1>8
     DEF Next, RegistryNext, Exit, MainStep, HealthStep

\* find_tool never has a choice: whatever starts, fails, recovers and is reported in
\* whatever order, no two modules hold one tool name.
THEOREM ToolsHaveOneOwner == Spec => []OneOwnerPerTool
<1>1. Init => OneOwnerPerTool
  BY DEF Init, OneOwnerPerTool
<1>2. TypeOK /\ OneOwnerPerTool /\ [Next]_regVars => OneOwnerPerTool'
  <2> SUFFICES ASSUME TypeOK, OneOwnerPerTool, [Next]_regVars PROVE OneOwnerPerTool'
    OBVIOUS
  <2>1. CASE UNCHANGED tools
    BY <2>1 DEF OneOwnerPerTool
  <2>2. ASSUME NEW m \in Modules, ~NameTaken(m), tools' = [tools EXCEPT ![m] = Offers[m]]
        PROVE  OneOwnerPerTool'
    BY <2>2 DEF OneOwnerPerTool, NameTaken, TypeOK
  <2> QED
    BY <2>1, <2>2, ToolsStep
<1> QED
  BY <1>1, <1>2, TypeCorrect, PTL DEF Spec

-----------------------------------------------------------------------------
(* Frames: what a step may do to the retry tasks and to the main task.     *)

\* The other tasks leave the main task where it is.
LEMMA OthersLeaveMain ==
  ASSUME TypeOK
  PROVE  /\ HealthStep => UNCHANGED <<pc["main"], on["main"]>>
         /\ \A r \in Reporters :
              Report(r) \/ Degrading(r) => UNCHANGED <<pc["main"], on["main"]>>
         /\ \A t \in RetryTasks : RetryStep(t) => UNCHANGED <<pc["main"], on["main"]>>
<1> USE CallerNames, RegistryAssumption
<1>1. ASSUME NEW i \in Nat, ProbeFrom(i) PROVE UNCHANGED <<pc["main"], on["main"]>>
  BY <1>1 DEF ProbeFrom, TypeOK, PcOK
<1>2. ASSUME NEW c \in Callers, Degrading(c), c # "main"
      PROVE  UNCHANGED <<pc["main"], on["main"]>>
  <2>1. on[c] + 1 \in Nat
    BY DEF TypeOK, Modules
  <2>2. ASSUME NEW ph, DegradeEnds(c, ph) PROVE UNCHANGED <<pc["main"], on["main"]>>
    BY <1>1, <1>2, <2>1, <2>2 DEF DegradeEnds, TypeOK, PcOK
  <2> QED
    BY <1>2, <2>2 DEF Degrading, DegradeShutdown, DegradePublished, TypeOK, PcOK
<1>3. HealthStep => UNCHANGED <<pc["main"], on["main"]>>
  <2>1. on["health"] + 1 \in Nat
    BY DEF TypeOK, Modules
  <2>2. PollBegins \/ ProbeHealthy => UNCHANGED <<pc["main"], on["main"]>>
    BY <1>1, <2>1 DEF PollBegins, ProbeHealthy
  <2>3. ProbeUnhealthy => UNCHANGED <<pc["main"], on["main"]>>
    BY <1>1, <2>1 DEF ProbeUnhealthy, MarkUnhealthy, TypeOK, PcOK
  <2>4. HealthCancelled => UNCHANGED <<pc["main"], on["main"]>>
    BY DEF HealthCancelled, TypeOK, PcOK
  <2> QED
    BY <1>2, <2>2, <2>3, <2>4 DEF HealthStep
<1>4. ASSUME NEW r \in Reporters, Report(r) \/ Degrading(r)
      PROVE  UNCHANGED <<pc["main"], on["main"]>>
  BY <1>2, <1>4 DEF Report, MarkUnhealthy, TypeOK, PcOK
<1>5. ASSUME NEW t \in RetryTasks, RetryStep(t) PROVE UNCHANGED <<pc["main"], on["main"]>>
  BY <1>5 DEF RetryStep, RetryWakes, RetryOk, RetryUnavailable, RetryDown, RetryFails,
               FailedDown, RetryPublished, RetryCancelled
<1> QED
  BY <1>3, <1>4, <1>5

\* Once _rollback has begun it does not end but by ending the lifespan, and only the
\* main task moves the main task.
LEMMA MainStepLabels ==
  ASSUME TypeOK, [Next]_regVars
  PROVE  /\ RollingBack => RollingBack'
         /\ UNCHANGED <<pc["main"], on["main"]>> \/ MainStep \/ ShutdownRequested
<1> USE CallerNames, RegistryAssumption
<1>1. ASSUME NEW i \in Nat, NEW ph, StartFrom(i, ph)
      PROVE  pc'["main"] \in {"starting", "serving"}
  BY <1>1 DEF StartFrom, TypeOK, PcOK
<1>2. ASSUME NEW i \in Nat, NEW ph, StopFrom(i, ph)
      PROVE  RollingBack'
  BY <1>2 DEF StopFrom, TypeOK, PcOK, RollingBack
<1>3. ASSUME NEW ph, CancelRetries(ph) PROVE RollingBack'
  BY <1>2, <1>3 DEF CancelRetries, TypeOK, PcOK, RollingBack
<1>4. MainStep /\ RollingBack => RollingBack'
  <2>1. RollingBack => ~Degrading("main")
    BY DEF RollingBack, Degrading, DegradeShutdown, DegradePublished
  <2>2. RollingBack => ~Boot /\ ~StartOk /\ ~StartUnavailable /\ ~StartFails
    BY DEF RollingBack, Boot, StartOk, StartUnavailable, StartFails
  <2>3. HealthEnded \/ RetriesEnded \/ ModuleStopped => RollingBack'
    BY <1>2, <1>3 DEF HealthEnded, RetriesEnded, ModuleStopped, TypeOK, Modules
  <2>4. CloseBackend => RollingBack'
    BY DEF CloseBackend, RollingBack, TypeOK, PcOK
  <2> QED
    BY <2>1, <2>2, <2>3, <2>4 DEF MainStep
<1>5. RollingBack => ~ShutdownRequested
  BY DEF RollingBack, ShutdownRequested
<1>6. UNCHANGED regVars => UNCHANGED <<pc["main"], on["main"]>>
  BY DEF regVars
<1>7. MainStep \/ ShutdownRequested \/ UNCHANGED <<pc["main"], on["main"]>>
  BY <1>6, OthersLeaveMain DEF Next, RegistryNext, Exit
<1> QED
  BY <1>4, <1>5, <1>7 DEF RollingBack

\* A rollback step that touches the retry tasks only cancels them.
OnlyCancels ==
  /\ RollingBack'
  /\ attempt' = attempt
  /\ \A t \in RetryTasks : rpc'[t] = rpc[t] \/ (~Over(t) /\ rpc'[t] = "cancelled")

\* The others change retry tasks only at the end of _degrade and in _rollback.
LEMMA CallersLeaveRetries ==
  ASSUME TypeOK,
         \/ MainStep \/ ShutdownRequested \/ HealthStep
         \/ \E r \in Reporters : Report(r) \/ Degrading(r)
  PROVE  \/ UNCHANGED <<rpc, attempt, handle>>
         \/ \E c \in Callers : InDegrade(c) /\ CreateRetry(on[c]) /\ Degrading(c)
         \/ OnlyCancels
<1> USE CallerNames, RegistryAssumption
<1>1. ASSUME NEW c \in Callers, Degrading(c)
      PROVE  UNCHANGED <<rpc, attempt, handle>> \/ (InDegrade(c) /\ CreateRetry(on[c]))
  BY <1>1 DEF Degrading, DegradeShutdown, DegradePublished, DegradeEnds, InDegrade
<1>2. CASE Boot \/ StartOk \/ StartUnavailable \/ ShutdownRequested \/ CloseBackend
  BY <1>2 DEF Boot, StartOk, StartUnavailable, ShutdownRequested, CloseBackend
<1>3. ASSUME NEW ph, CancelRetries(ph), attempt' = attempt PROVE OnlyCancels
  <2>1. RollingBack'
    BY <1>3 DEF CancelRetries, StopFrom, RollingBack, TypeOK, PcOK
  <2>2. \A t \in RetryTasks : rpc'[t] = rpc[t] \/ (~Over(t) /\ rpc'[t] = "cancelled")
    BY <1>3 DEF CancelRetries, TypeOK
  <2> QED
    BY <1>3, <2>1, <2>2 DEF OnlyCancels
<1>4. CASE StartFails \/ HealthEnded
  BY <1>3, <1>4 DEF StartFails, HealthEnded
<1>5. CASE RetriesEnded \/ ModuleStopped
  <2>1. rpc' = rpc /\ attempt' = attempt
    BY <1>5 DEF RetriesEnded, ModuleStopped
  <2>2. RollingBack'
    BY <1>5, MainStepLabels DEF MainStep, Next, RegistryNext, RetriesEnded, ModuleStopped,
                                RollingBack
  <2> QED
    BY <2>1, <2>2 DEF OnlyCancels
<1>6. CASE PollBegins \/ ProbeHealthy \/ ProbeUnhealthy \/ HealthCancelled
  BY <1>6 DEF PollBegins, ProbeHealthy, ProbeUnhealthy, HealthCancelled
<1>7. ASSUME NEW r \in Reporters, Report(r) PROVE UNCHANGED <<rpc, attempt, handle>>
  BY <1>7 DEF Report
<1> QED
  BY <1>1, <1>2, <1>4, <1>5, <1>6, <1>7 DEF MainStep, HealthStep

\* Retry tasks change only at the end of _degrade, by their own steps, and in _rollback.
LEMMA RetryFrame ==
  ASSUME TypeOK, [Next]_regVars
  PROVE  \/ UNCHANGED <<rpc, attempt, handle>>
         \/ \E c \in Callers : InDegrade(c) /\ CreateRetry(on[c]) /\ Degrading(c)
         \/ \E t \in RetryTasks : RetryStep(t)
         \/ OnlyCancels
<1>1. UNCHANGED regVars => UNCHANGED <<rpc, attempt, handle>>
  BY DEF regVars
<1> QED
  BY <1>1, CallersLeaveRetries DEF Next, RegistryNext, Exit

-----------------------------------------------------------------------------
(* Recovery: the invariant that DegradedHasRetry rests on.  It holds as    *)
(* long as nobody subscribes to module.recovered (so a retry task ends in  *)
(* the step that sets RUNNING) and no outage lasts OverflowAt attempts.    *)

Unobserved == "module.recovered" \notin Subscribed /\ MaxOutage < OverflowAt

\* No retry task is past its last computable delay, or publishing a recovery.
RetriesGoOn ==
  \A t \in RetryTasks : /\ rpc[t] # "recPublish"
                        /\ rpc[t] = "retryShutdown" => attempt[t] <= MaxOutage

\* Tasks are cancelled by _rollback alone.
CancelledInRollback ==
  /\ \A t \in RetryTasks : rpc[t] = "cancelled" => RollingBack
  /\ pc["health"] \in {"cancelled", "done"} => RollingBack

NamedWhileOpen == RollingBack \/ RetryIsNamed

\* Startup works through the entries in order, and a pending entry has no task and is
\* in nobody's _degrade.
PendingIsUntouched ==
  /\ pc["main"] = "boot" => \A m \in Modules : status[m] = "pending"
  /\ pc["main"] = "starting" => \A m \in on["main"]..N : status[m] = "pending"
  /\ InDegrade("main") => \A m \in (on["main"] + 1)..N : status[m] = "pending"
  /\ \A t \in RetryTasks : ~Over(t) => status[t[1]] # "pending"
  /\ \A c \in Callers : InDegrade(c) => status[on[c]] # "pending"

\* Until _rollback begins, a task that has given its module up left it FAILED.
GivenUpIsFailed ==
  RollingBack \/ \A t \in RetryTasks :
                   rpc[t] \in {"failShutdown", "failPublish"} => status[t[1]] = "failed"

RecoveryInv ==
  /\ RetriesGoOn /\ CancelledInRollback /\ NamedWhileOpen /\ PendingIsUntouched
  /\ GivenUpIsFailed /\ DegradedHasRetry

Booting == pc["main"] \in {"boot", "starting", "degShutdown", "degPublish"}

\* The health task is created after the last entry was started.
PollAfterStartup == Booting => pc["health"] = "none"

\* No step starts the health task before startup has left its loop.
LEMMA PollStep ==
  ASSUME TypeOK, PollAfterStartup, [Next]_regVars
  PROVE  PollAfterStartup'
<1> USE CallerNames, RegistryAssumption DEF PollAfterStartup, Booting
<1>1. ASSUME NEW i \in Nat, NEW ph, StartFrom(i, ph), Booting PROVE PollAfterStartup'
  BY <1>1 DEF StartFrom, TypeOK, PcOK
<1>2. CASE Boot \/ StartOk \/ StartUnavailable
  BY <1>1, <1>2 DEF Boot, StartOk, StartUnavailable, TypeOK, PcOK, Modules
<1>3. CASE Degrading("main")
  <2>1. ASSUME NEW ph, DegradeEnds("main", ph), Booting PROVE PollAfterStartup'
    BY <1>1, <2>1 DEF DegradeEnds, TypeOK, Modules
  <2> QED
    BY <1>3, <2>1 DEF Degrading, DegradeShutdown, DegradePublished, TypeOK, PcOK
<1>4. CASE StartFails \/ HealthEnded \/ RetriesEnded \/ ModuleStopped \/ CloseBackend
  <2>1. RollingBack'
    <3>1. CASE StartFails
      BY <3>1 DEF StartFails, CancelRetries, StopFrom, RollingBack, TypeOK, PcOK
    <3>2. CASE ~StartFails
      BY <1>4, <3>2, MainStepLabels
         DEF HealthEnded, RetriesEnded, ModuleStopped, CloseBackend, RollingBack
    <3> QED
      BY <3>1, <3>2
  <2> QED
    BY <2>1 DEF RollingBack
<1>5. CASE ShutdownRequested
  BY <1>5 DEF ShutdownRequested, TypeOK, PcOK
<1>6. CASE HealthStep
  <2>1. pc["health"] # "none"
    BY <1>6 DEF HealthStep, PollBegins, ProbeHealthy, ProbeUnhealthy, HealthCancelled,
                Degrading, DegradeShutdown, DegradePublished
  <2>2. UNCHANGED pc["main"]
    <3>1. pc["health"] # "none" => ~Booting
      OBVIOUS
    <3>2. ~Booting /\ HealthStep => UNCHANGED pc["main"]
      <4>1. on["health"] + 1 \in Nat
        BY DEF TypeOK, Modules
      <4>2. ASSUME NEW i \in Nat, ProbeFrom(i) PROVE UNCHANGED pc["main"]
        BY <4>2 DEF ProbeFrom, TypeOK, PcOK
      <4>3. ASSUME NEW ph, DegradeEnds("health", ph) PROVE UNCHANGED pc["main"]
        BY <4>1, <4>2, <4>3 DEF DegradeEnds
      <4> QED
        BY <4>1, <4>2, <4>3
           DEF HealthStep, PollBegins, ProbeHealthy, ProbeUnhealthy, MarkUnhealthy,
               HealthCancelled, Degrading, DegradeShutdown, DegradePublished, TypeOK, PcOK
    <3> QED
      BY <1>6, <2>1, <3>1, <3>2
  <2> QED
    BY <2>1, <2>2
<1>7. ASSUME NEW r \in Reporters, Report(r) \/ Degrading(r)
      PROVE  UNCHANGED <<pc["main"], pc["health"]>>
  BY <1>7 DEF Report, MarkUnhealthy, Degrading, DegradeShutdown, DegradePublished,
              DegradeEnds, TypeOK, PcOK
<1>8. ASSUME NEW t \in RetryTasks, RetryStep(t) PROVE UNCHANGED pc
  BY <1>8 DEF RetryStep, RetryWakes, RetryOk, RetryUnavailable, RetryDown, RetryFails,
              FailedDown, RetryPublished, RetryCancelled
<1>9. CASE UNCHANGED regVars
  BY <1>9 DEF regVars
<1> QED
  BY <1>2, <1>3, <1>4, <1>5, <1>6, <1>7, <1>8, <1>9
     DEF Next, RegistryNext, Exit, MainStep

\* The steps of other tasks leave a caller in _degrade where it is.
LEMMA OthersLeaveDegrade ==
  ASSUME TypeOK, PollAfterStartup, NEW c \in Callers, InDegrade(c),
         \/ MainStep /\ ~Degrading("main")
         \/ HealthStep /\ ~Degrading("health")
         \/ \E r \in Reporters : Report(r)
         \/ \E t \in RetryTasks : RetryStep(t)
         \/ \E d \in Callers \ {c} : Degrading(d)
         \/ UNCHANGED regVars
  PROVE  pc'[c] = pc[c] /\ on'[c] = on[c]
<1> USE CallerNames, RegistryAssumption DEF InDegrade
<1>1. ASSUME NEW i \in Nat, NEW ph, StartFrom(i, ph), Booting, c # "main"
      PROVE  pc'[c] = pc[c] /\ on'[c] = on[c]
  BY <1>1 DEF StartFrom, TypeOK, PcOK, PollAfterStartup
<1>2. ASSUME NEW i \in Nat, NEW ph, StopFrom(i, ph), c # "main"
      PROVE  pc'[c] = pc[c] /\ on'[c] = on[c]
  BY <1>2 DEF StopFrom, TypeOK, PcOK
<1>3. ASSUME NEW ph, CancelRetries(ph), c # "main"
      PROVE  pc'[c] = pc[c] /\ on'[c] = on[c]
  BY <1>2, <1>3 DEF CancelRetries, TypeOK, PcOK
<1>4. ASSUME NEW i \in Nat, ProbeFrom(i), c # "health"
      PROVE  pc'[c] = pc[c] /\ on'[c] = on[c]
  BY <1>4 DEF ProbeFrom, TypeOK, PcOK
<1>5. ASSUME NEW d \in Callers, Degrading(d), c # d
      PROVE  pc'[c] = pc[c] /\ on'[c] = on[c]
  <2>1. on[d] + 1 \in Nat
    BY DEF TypeOK, Modules
  <2>2. ASSUME NEW ph, DegradeEnds(d, ph), pc[d] \in {"degShutdown", "degPublish"}
        PROVE  pc'[c] = pc[c] /\ on'[c] = on[c]
    <3>1. CASE d = "main"
      BY <1>1, <1>5, <2>1, <2>2, <3>1 DEF DegradeEnds, Booting
    <3>2. CASE d = "health"
      BY <1>4, <1>5, <2>1, <2>2, <3>2 DEF DegradeEnds
    <3>3. CASE d \in Reporters
      BY <1>5, <2>2, <3>3 DEF DegradeEnds, TypeOK, PcOK
    <3> QED
      BY <3>1, <3>2, <3>3 DEF Callers
  <2> QED
    BY <1>5, <2>2 DEF Degrading, DegradeShutdown, DegradePublished, TypeOK, PcOK
<1>6. CASE MainStep /\ ~Degrading("main")
  <2>1. c # "main"
    BY <1>6 DEF MainStep, Boot, StartOk, StartUnavailable, StartFails, HealthEnded,
                RetriesEnded, ModuleStopped, CloseBackend
  <2>2. CASE Boot \/ StartOk \/ StartUnavailable
    BY <1>1, <2>1, <2>2 DEF Boot, StartOk, StartUnavailable, Booting, TypeOK, PcOK, Modules
  <2>3. CASE StartFails \/ HealthEnded
    BY <1>3, <2>1, <2>3 DEF StartFails, HealthEnded
  <2>4. CASE RetriesEnded \/ ModuleStopped \/ CloseBackend
    <3>1. N \in Nat /\ on["main"] - 1 \in Nat
      BY DEF TypeOK, Modules
    <3> QED
      BY <1>2, <2>1, <2>4, <3>1
         DEF RetriesEnded, ModuleStopped, CloseBackend, TypeOK, PcOK
  <2> QED
    BY <1>6, <2>2, <2>3, <2>4 DEF MainStep
<1>8. CASE HealthStep /\ ~Degrading("health")
  <2>1. on["health"] + 1 \in Nat
    BY DEF TypeOK, Modules
  <2>2. c # "health"
    BY <1>8 DEF HealthStep, PollBegins, ProbeHealthy, ProbeUnhealthy, HealthCancelled
  <2> QED
    BY <1>4, <1>8, <2>1, <2>2
       DEF HealthStep, PollBegins, ProbeHealthy, ProbeUnhealthy, MarkUnhealthy,
           HealthCancelled, TypeOK, PcOK
<1>9. ASSUME NEW r \in Reporters, Report(r)
      PROVE  pc'[c] = pc[c] /\ on'[c] = on[c]
  BY <1>9 DEF Report, MarkUnhealthy, TypeOK, PcOK
<1>10. ASSUME NEW t \in RetryTasks, RetryStep(t) PROVE UNCHANGED <<pc, on>>
  BY <1>10 DEF RetryStep, RetryWakes, RetryOk, RetryUnavailable, RetryDown, RetryFails,
               FailedDown, RetryPublished, RetryCancelled
<1>11. CASE UNCHANGED regVars
  BY <1>11 DEF regVars
<1> QED
  BY <1>5, <1>6, <1>8, <1>9, <1>10, <1>11

\* A caller in _degrade stays there until its own next step, but for the health task,
\* which _rollback may cancel in it.
LEMMA DegradeFrame ==
  ASSUME TypeOK, PollAfterStartup, [Next]_regVars, NEW c \in Callers, InDegrade(c)
  PROVE  \/ InDegrade(c)' /\ on'[c] = on[c]
         \/ Degrading(c)
         \/ c = "health" /\ RollingBack'
<1>1. CASE ShutdownRequested
  BY <1>1, CallerNames DEF ShutdownRequested, TypeOK, PcOK, RollingBack, InDegrade
<1>2. CASE ~ShutdownRequested /\ ~Degrading(c)
  <2>1. pc'[c] = pc[c] /\ on'[c] = on[c]
    BY <1>2, CallerNames, OthersLeaveDegrade
       DEF Next, RegistryNext, Exit, MainStep, HealthStep
  <2> QED
    BY <2>1 DEF InDegrade
<1> QED
  BY <1>1, <1>2

\* CreateRetry starts at most one task, of its own module, and names it; the entry then
\* names a task that is not over.
LEMMA CreateRetryEffect ==
  ASSUME TypeOK, NEW m \in Modules, CreateRetry(m)
  PROVE  /\ \A t \in RetryTasks : \/ rpc'[t] = rpc[t]
                                  \/ t[1] = m /\ Over(t) /\ rpc'[t] = "sleep"
         /\ \A k \in Modules \ {m} : handle'[k] = handle[k]
         /\ handle'[m] # NoTask /\ ~Over(<<m, handle[m]>>)'
<1>1. CASE handle[m] = NoTask \/ Over(<<m, handle[m]>>)
  <2>1. PICK k \in 1..MaxTasks : /\ Over(<<m, k>>)
                                 /\ rpc' = [rpc EXCEPT ![<<m, k>>] = "sleep"]
                                 /\ handle' = [handle EXCEPT ![m] = k]
    BY <1>1 DEF CreateRetry
  <2>2. <<m, k>> \in RetryTasks /\ <<m, k>>[1] = m /\ k # 0
    BY DEF RetryTasks
  <2>3. handle'[m] = k /\ rpc'[<<m, k>>] = "sleep"
    BY <2>1, <2>2 DEF TypeOK
  <2>4. ASSUME NEW t \in RetryTasks
        PROVE  rpc'[t] = rpc[t] \/ (t[1] = m /\ Over(t) /\ rpc'[t] = "sleep")
    BY <2>1, <2>2 DEF TypeOK
  <2>5. ASSUME NEW j \in Modules \ {m} PROVE handle'[j] = handle[j]
    BY <2>1 DEF TypeOK
  <2> QED
    BY <2>2, <2>3, <2>4, <2>5 DEF Over
<1>2. CASE ~(handle[m] = NoTask \/ Over(<<m, handle[m]>>))
  BY <1>2 DEF CreateRetry, Over
<1> QED
  BY <1>1, <1>2

\* One lemma for each part of the invariant.
LEMMA RetriesGoOnStep ==
  ASSUME Unobserved, TypeOK, RetriesGoOn, [Next]_regVars
  PROVE  RetriesGoOn'
<1> USE RegistryAssumption DEF RetriesGoOn
<1>1. CASE UNCHANGED <<rpc, attempt, handle>>
  BY <1>1
<1>2. ASSUME NEW m \in Modules, CreateRetry(m) PROVE RetriesGoOn'
  BY <1>2 DEF CreateRetry, TypeOK
<1>3. ASSUME NEW t \in RetryTasks, RetryStep(t) PROVE RetriesGoOn'
  BY <1>3 DEF RetryStep, RetryWakes, RetryOk, RetryUnavailable, RetryDown, RetryFails,
              FailedDown, RetryPublished, RetryCancelled, TypeOK, Unobserved
<1>4. CASE OnlyCancels
  BY <1>4 DEF OnlyCancels
<1> QED
  BY <1>1, <1>2, <1>3, <1>4, RetryFrame DEF TypeOK

\* Only _rollback cancels: no step before it leaves a cancelled task.
LEMMA CancelledStep ==
  ASSUME TypeOK, PollAfterStartup, CancelledInRollback, [Next]_regVars
  PROVE  CancelledInRollback'
<1> USE CallerNames, RegistryAssumption
<1>1. \A t \in RetryTasks : rpc'[t] = "cancelled" => RollingBack'
  <2>1. ASSUME NEW m \in Modules, CreateRetry(m), NEW t \in RetryTasks, rpc'[t] = "cancelled"
        PROVE  rpc[t] = "cancelled"
    BY <2>1 DEF CreateRetry, TypeOK
  <2>2. ASSUME NEW u \in RetryTasks, RetryStep(u), NEW t \in RetryTasks, rpc'[t] = "cancelled"
        PROVE  rpc[t] = "cancelled"
    BY <2>2 DEF RetryStep, RetryWakes, RetryOk, RetryUnavailable, RetryDown, RetryFails,
                FailedDown, RetryPublished, RetryCancelled, TypeOK
  <2>3. OnlyCancels \/ \A t \in RetryTasks : rpc'[t] = "cancelled" => rpc[t] = "cancelled"
    BY <2>1, <2>2, RetryFrame DEF TypeOK
  <2> QED
    BY <2>3, MainStepLabels DEF OnlyCancels, CancelledInRollback
<1>2. pc'["health"] \in {"cancelled", "done"} => RollingBack'
  <2>1. CASE pc["health"] \in {"cancelled", "done"}
    BY <2>1, MainStepLabels DEF CancelledInRollback
  <2>2. ASSUME NEW i \in Nat, NEW ph, StartFrom(i, ph), Booting
        PROVE  pc'["health"] \in {"none", "sleep"}
    BY <2>2 DEF StartFrom, TypeOK, PcOK, PollAfterStartup
  <2>3. ASSUME NEW i \in Nat, NEW ph, StopFrom(i, ph) PROVE UNCHANGED pc["health"]
    BY <2>3 DEF StopFrom, TypeOK, PcOK
  <2>4. ASSUME NEW ph, CancelRetries(ph) PROVE UNCHANGED pc["health"]
    BY <2>3, <2>4 DEF CancelRetries, TypeOK, PcOK
  <2>5. ASSUME NEW i \in Nat, ProbeFrom(i) PROVE pc'["health"] \in {"probing", "sleep"}
    BY <2>5 DEF ProbeFrom, TypeOK, PcOK
  <2>6. /\ N \in Nat
        /\ \A c \in Callers : on[c] + 1 \in Nat /\ on[c] - 1 \in Nat
    BY DEF TypeOK, Modules
  <2>7. CASE MainStep /\ ~Degrading("main")
    <3>1. CASE Boot \/ StartOk \/ StartUnavailable
      BY <2>2, <2>6, <3>1 DEF Boot, StartOk, StartUnavailable, Booting, TypeOK, PcOK,
                              PollAfterStartup
    <3>2. CASE StartFails \/ HealthEnded
      BY <2>1, <2>4, <3>2 DEF StartFails, HealthEnded
    <3>3. CASE RetriesEnded \/ ModuleStopped \/ CloseBackend
      BY <2>1, <2>3, <2>6, <3>3 DEF RetriesEnded, ModuleStopped, CloseBackend, TypeOK, PcOK
    <3> QED
      BY <2>7, <3>1, <3>2, <3>3 DEF MainStep
  <2>8. CASE ShutdownRequested
    BY <2>8 DEF ShutdownRequested, RollingBack, TypeOK, PcOK
  <2>9. ASSUME NEW c \in Callers, Degrading(c), pc["health"] \notin {"cancelled", "done"}
        PROVE  pc'["health"] \notin {"cancelled", "done"}
    <3>1. ASSUME NEW ph, DegradeEnds(c, ph), InDegrade(c)
          PROVE  pc'["health"] \notin {"cancelled", "done"}
      BY <2>2, <2>5, <2>6, <2>9, <3>1 DEF DegradeEnds, InDegrade, Booting, TypeOK, PcOK
    <3> QED
      BY <2>9, <3>1 DEF Degrading, DegradeShutdown, DegradePublished, InDegrade, TypeOK, PcOK
  <2>10. CASE PollBegins \/ ProbeHealthy \/ ProbeUnhealthy \/ HealthCancelled
    BY <2>1, <2>5, <2>6, <2>10
       DEF PollBegins, ProbeHealthy, ProbeUnhealthy, MarkUnhealthy, HealthCancelled, TypeOK, PcOK
  <2>11. ASSUME NEW r \in Reporters, Report(r) PROVE UNCHANGED pc["health"]
    BY <2>11 DEF Report, MarkUnhealthy, TypeOK, PcOK
  <2>12. ASSUME NEW t \in RetryTasks, RetryStep(t) PROVE UNCHANGED pc["health"]
    BY <2>12 DEF RetryStep, RetryWakes, RetryOk, RetryUnavailable, RetryDown, RetryFails,
                 FailedDown, RetryPublished, RetryCancelled
  <2>13. CASE UNCHANGED regVars
    BY <2>1, <2>13 DEF regVars
  <2> QED
    BY <2>1, <2>7, <2>8, <2>9, <2>10, <2>11, <2>12, <2>13
       DEF Next, RegistryNext, Exit, MainStep, HealthStep
<1> QED
  BY <1>1, <1>2 DEF CancelledInRollback

\* Every step but those of _rollback keeps each live retry task named by its entry.
LEMMA NamedStep ==
  ASSUME TypeOK, NamedWhileOpen, [Next]_regVars
  PROVE  NamedWhileOpen'
<1> USE RegistryAssumption DEF NamedWhileOpen
<1>1. CASE RollingBack
  BY <1>1, MainStepLabels
<1>2. CASE RetryIsNamed
  <2>1. CASE UNCHANGED <<rpc, attempt, handle>>
    BY <1>2, <2>1 DEF RetryIsNamed, Over
  <2>2. ASSUME NEW m \in Modules, CreateRetry(m) PROVE RetryIsNamed'
    <3>1. CASE UNCHANGED <<rpc, attempt, handle>>
      BY <1>2, <3>1 DEF RetryIsNamed, Over
    <3>2. CASE handle[m] = NoTask \/ Over(<<m, handle[m]>>)
      <4>1. PICK k \in 1..MaxTasks : /\ rpc' = [rpc EXCEPT ![<<m, k>>] = "sleep"]
                                     /\ handle' = [handle EXCEPT ![m] = k]
        BY <2>2, <3>2 DEF CreateRetry
      <4>2. ASSUME NEW t \in RetryTasks, ~Over(t)' PROVE handle'[t[1]] = t[2]
        <5>1. CASE t = <<m, k>>
          BY <4>1, <5>1 DEF TypeOK
        <5>2. CASE t # <<m, k>>
          <6>1. ~Over(t)
            BY <4>1, <4>2, <5>2 DEF Over, TypeOK
          <6>2. handle[t[1]] = t[2] /\ t = <<t[1], t[2]>> /\ t[2] # 0
            BY <1>2, <6>1 DEF RetryIsNamed, RetryTasks
          <6>3. t[1] # m
            BY <3>2, <6>1, <6>2
          <6> QED
            BY <4>1, <6>2, <6>3 DEF TypeOK, RetryTasks
        <5> QED
          BY <5>1, <5>2
      <4> QED
        BY <4>2 DEF RetryIsNamed
    <3> QED
      BY <2>2, <3>1, <3>2 DEF CreateRetry
  <2>3. ASSUME NEW u \in RetryTasks, RetryStep(u) PROVE RetryIsNamed'
    <3>1. handle' = handle /\ \A t \in RetryTasks : Over(t) => Over(t)'
      BY <2>3 DEF RetryStep, RetryWakes, RetryOk, RetryUnavailable, RetryDown, RetryFails,
                  FailedDown, RetryPublished, RetryCancelled, TypeOK, Over
    <3> QED
      BY <1>2, <3>1 DEF RetryIsNamed
  <2>4. CASE OnlyCancels
    BY <2>4 DEF OnlyCancels
  <2> QED
    BY <2>1, <2>2, <2>3, <2>4, RetryFrame DEF TypeOK
<1> QED
  BY <1>1, <1>2

\* What a step does to the status of one module.
LEMMA StatusFrame ==
  ASSUME TypeOK, [Next]_regVars, NEW m \in Modules
  PROVE  \/ status'[m] = status[m]
         \/ (StartOk \/ StartUnavailable) /\ m = on["main"]
         \/ status[m] = "running" /\ status'[m] = "degraded"
         \/ \E t \in RetryTasks : t[1] = m /\ RetryOk(t)
         \/ \E t \in RetryTasks : t[1] = m /\ RetryFails(t)
         \/ ModuleStopped /\ m = on["main"] /\ status'[m] = "stopped"
<1> USE CallerNames
<1>1. CASE StartOk \/ StartUnavailable \/ ModuleStopped
  BY <1>1 DEF StartOk, StartUnavailable, ModuleStopped, TypeOK
<1>2. CASE Boot \/ StartFails \/ ShutdownRequested \/ HealthEnded \/ RetriesEnded \/ CloseBackend
  BY <1>2 DEF Boot, StartFails, ShutdownRequested, HealthEnded, RetriesEnded, CloseBackend
<1>3. ASSUME NEW c, Degrading(c) PROVE UNCHANGED status
  BY <1>3 DEF Degrading, DegradeShutdown, DegradePublished
<1>4. CASE PollBegins \/ ProbeHealthy \/ HealthCancelled
  BY <1>4 DEF PollBegins, ProbeHealthy, HealthCancelled
<1>5. ASSUME NEW c, NEW k \in Modules, MarkUnhealthy(c, k)
      PROVE  status'[m] = status[m] \/ (status[m] = "running" /\ status'[m] = "degraded")
  BY <1>5 DEF MarkUnhealthy, TypeOK
<1>6. CASE ProbeUnhealthy
  BY <1>5, <1>6 DEF ProbeUnhealthy, TypeOK
<1>7. ASSUME NEW r \in Reporters, Report(r)
      PROVE  status'[m] = status[m] \/ (status[m] = "running" /\ status'[m] = "degraded")
  BY <1>5, <1>7 DEF Report
<1>8. ASSUME NEW t \in RetryTasks, RetryStep(t)
      PROVE  \/ status'[m] = status[m]
             \/ t[1] = m /\ (RetryOk(t) \/ RetryFails(t))
  BY <1>8 DEF RetryStep, RetryWakes, RetryOk, RetryUnavailable, RetryDown, RetryFails,
              FailedDown, RetryPublished, RetryCancelled, TypeOK
<1>9. CASE UNCHANGED regVars
  BY <1>9 DEF regVars
<1> QED
  BY <1>1, <1>2, <1>3, <1>4, <1>6, <1>7, <1>8, <1>9
     DEF Next, RegistryNext, Exit, MainStep, HealthStep

\* Whoever is in _degrade was there already, or has just marked its module DEGRADED.
LEMMA EnterDegrade ==
  ASSUME TypeOK, PollAfterStartup, [Next]_regVars, NEW c \in Callers, InDegrade(c)'
  PROVE  \/ InDegrade(c) /\ on'[c] = on[c]
         \/ status'[on'[c]] = "degraded"
<1> USE CallerNames, RegistryAssumption
<1>1. ASSUME NEW i \in Nat, NEW ph, StartFrom(i, ph), Booting
      PROVE  IF c = "main" THEN ~InDegrade(c)'
             ELSE InDegrade(c)' => InDegrade(c) /\ on'[c] = on[c]
  BY <1>1 DEF StartFrom, TypeOK, PcOK, PollAfterStartup, InDegrade
<1>2. ASSUME NEW i \in Nat, NEW ph, StopFrom(i, ph)
      PROVE  IF c = "main" THEN ~InDegrade(c)'
             ELSE InDegrade(c)' => InDegrade(c) /\ on'[c] = on[c]
  BY <1>2 DEF StopFrom, TypeOK, PcOK, InDegrade
<1>3. ASSUME NEW ph, CancelRetries(ph)
      PROVE  IF c = "main" THEN ~InDegrade(c)'
             ELSE InDegrade(c)' => InDegrade(c) /\ on'[c] = on[c]
  BY <1>2, <1>3 DEF CancelRetries, TypeOK, PcOK, InDegrade
<1>4. ASSUME NEW i \in Nat, ProbeFrom(i)
      PROVE  IF c = "health" THEN ~InDegrade(c)'
             ELSE InDegrade(c)' => InDegrade(c) /\ on'[c] = on[c]
  BY <1>4 DEF ProbeFrom, TypeOK, PcOK, InDegrade
<1>5. /\ N \in Nat
      /\ \A d \in Callers : on[d] + 1 \in Nat /\ on[d] - 1 \in Nat
  BY DEF TypeOK, Modules
<1>6. ASSUME NEW d \in Callers, Degrading(d)
      PROVE  InDegrade(c) /\ on'[c] = on[c]
  <2>1. ASSUME NEW ph, DegradeEnds(d, ph), InDegrade(d)
        PROVE  InDegrade(c) /\ on'[c] = on[c]
    <3>1. CASE d = "main"
      BY <1>1, <1>5, <2>1, <3>1 DEF DegradeEnds, Booting, InDegrade
    <3>2. CASE d = "health"
      BY <1>4, <1>5, <2>1, <3>2 DEF DegradeEnds
    <3>3. CASE d \in Reporters
      BY <2>1, <3>3 DEF DegradeEnds, TypeOK, PcOK, InDegrade
    <3> QED
      BY <3>1, <3>2, <3>3 DEF Callers
  <2> QED
    BY <1>6, <2>1 DEF Degrading, DegradeShutdown, DegradePublished, InDegrade, TypeOK, PcOK
<1>7. CASE Boot \/ StartOk
  BY <1>1, <1>5, <1>7 DEF Boot, StartOk, Booting, TypeOK
<1>8. CASE StartUnavailable
  BY <1>8 DEF StartUnavailable, TypeOK, PcOK, InDegrade
<1>9. CASE StartFails \/ HealthEnded
  BY <1>3, <1>9 DEF StartFails, HealthEnded
<1>10. CASE RetriesEnded \/ ModuleStopped \/ CloseBackend \/ ShutdownRequested
  BY <1>2, <1>5, <1>10 DEF RetriesEnded, ModuleStopped, CloseBackend, ShutdownRequested,
                           TypeOK, PcOK, InDegrade
<1>11. ASSUME NEW d \in Callers, NEW k \in Modules, MarkUnhealthy(d, k)
       PROVE  \/ InDegrade(c) /\ on'[c] = on[c]
              \/ status'[on'[c]] = "degraded"
  BY <1>11 DEF MarkUnhealthy, TypeOK, PcOK, InDegrade
<1>12. CASE PollBegins \/ ProbeHealthy \/ ProbeUnhealthy \/ HealthCancelled
  BY <1>4, <1>5, <1>11, <1>12 DEF PollBegins, ProbeHealthy, ProbeUnhealthy, HealthCancelled,
                                  TypeOK, PcOK, InDegrade
<1>13. ASSUME NEW r \in Reporters, Report(r)
       PROVE  \/ InDegrade(c) /\ on'[c] = on[c]
              \/ status'[on'[c]] = "degraded"
  BY <1>11, <1>13 DEF Report
<1>14. ASSUME NEW t \in RetryTasks, RetryStep(t) PROVE UNCHANGED <<pc, on>>
  BY <1>14 DEF RetryStep, RetryWakes, RetryOk, RetryUnavailable, RetryDown, RetryFails,
               FailedDown, RetryPublished, RetryCancelled
<1>15. CASE UNCHANGED regVars
  BY <1>15 DEF regVars, InDegrade
<1> QED
  BY <1>6, <1>7, <1>8, <1>9, <1>10, <1>12, <1>13, <1>14, <1>15
     DEF Next, RegistryNext, Exit, MainStep, HealthStep, InDegrade

\* Startup goes forward, one entry at a time.
LEMMA MainForward ==
  ASSUME TypeOK, MainStep
  PROVE  /\ pc'["main"] # "boot"
         /\ pc'["main"] = "starting" =>
              \/ Boot /\ on'["main"] = 1
              \/ StartOk /\ on'["main"] = on["main"] + 1
              \/ InDegrade("main") /\ Degrading("main") /\ on'["main"] = on["main"] + 1
         /\ InDegrade("main")' =>
              /\ on'["main"] = on["main"]
              /\ StartUnavailable \/ (InDegrade("main") /\ Degrading("main"))
<1> USE CallerNames, RegistryAssumption
<1>1. N \in Nat /\ on["main"] + 1 \in Nat /\ on["main"] - 1 \in Nat
  BY DEF TypeOK, Modules
<1>2. ASSUME NEW i \in Nat, NEW ph, StartFrom(i, ph)
      PROVE  /\ pc'["main"] \in {"starting", "serving"}
             /\ pc'["main"] = "starting" => on'["main"] = i
  BY <1>2 DEF StartFrom, TypeOK, PcOK
<1>3. ASSUME NEW i \in Nat, NEW ph, StopFrom(i, ph)
      PROVE  pc'["main"] \in {"stopping", "raised", "closing"}
  BY <1>3 DEF StopFrom, TypeOK, PcOK
<1>4. ASSUME NEW ph, CancelRetries(ph)
      PROVE  pc'["main"] \in {"stopping", "raised", "closing", "awaitRetries"}
  BY <1>3, <1>4 DEF CancelRetries, TypeOK, PcOK
<1>5. CASE Boot \/ StartOk
  BY <1>1, <1>2, <1>5 DEF Boot, StartOk, InDegrade
<1>6. CASE StartUnavailable
  BY <1>6 DEF StartUnavailable, InDegrade, TypeOK, PcOK
<1>7. CASE StartFails \/ HealthEnded
  BY <1>4, <1>7 DEF StartFails, HealthEnded, InDegrade
<1>8. CASE RetriesEnded \/ ModuleStopped \/ CloseBackend
  BY <1>1, <1>3, <1>8 DEF RetriesEnded, ModuleStopped, CloseBackend, InDegrade, TypeOK, PcOK
<1>9. CASE Degrading("main")
  <2>1. InDegrade("main")
    BY <1>9 DEF Degrading, DegradeShutdown, DegradePublished, InDegrade
  <2>2. ASSUME NEW ph, DegradeEnds("main", ph)
        PROVE  /\ pc'["main"] \in {"starting", "serving"}
               /\ pc'["main"] = "starting" => on'["main"] = on["main"] + 1
    BY <1>1, <1>2, <2>2 DEF DegradeEnds
  <2> QED
    BY <1>9, <2>1, <2>2 DEF Degrading, DegradeShutdown, DegradePublished, InDegrade, TypeOK, PcOK
<1> QED
  BY <1>5, <1>6, <1>7, <1>8, <1>9 DEF MainStep

\* A pending entry is changed by startup or by _rollback alone, and none comes back.
LEMMA PendingFrame ==
  ASSUME TypeOK, PendingIsUntouched, [Next]_regVars, NEW m \in Modules
  PROVE  /\ status[m] = "pending" =>
              \/ status'[m] = "pending"
              \/ (StartOk \/ StartUnavailable) /\ m = on["main"]
              \/ ModuleStopped
         /\ status'[m] = "pending" => status[m] = "pending"
<1> USE RegistryAssumption
<1>1. ASSUME NEW t \in RetryTasks, t[1] = m, RetryOk(t) \/ RetryFails(t)
      PROVE  status[m] # "pending" /\ status'[m] # "pending"
  <2>1. status[m] # "pending"
    BY <1>1 DEF RetryOk, RetryFails, PendingIsUntouched, Over
  <2>2. status'[m] # "pending"
    BY <1>1 DEF RetryOk, RetryFails, TypeOK
  <2> QED
    BY <2>1, <2>2
<1>2. (StartOk \/ StartUnavailable) /\ m = on["main"] => status'[m] # "pending"
  BY DEF StartOk, StartUnavailable, TypeOK
<1> QED
  BY <1>1, <1>2, StatusFrame

\* Entries the loop of startup has not reached stay pending and have no retry task.
LEMMA PendingStep ==
  ASSUME TypeOK, PollAfterStartup, PendingIsUntouched, [Next]_regVars
  PROVE  PendingIsUntouched'
<1> USE CallerNames, RegistryAssumption
<1>1. N \in Nat /\ on["main"] \in Modules /\ on'["main"] \in Modules'
  BY TypeStep DEF TypeOK, Modules
<1>2. UNCHANGED <<pc["main"], on["main"]>> \/ MainStep \/ ShutdownRequested
  BY MainStepLabels
<1>3. ShutdownRequested => pc'["main"] = "awaitHealth"
  BY DEF ShutdownRequested, TypeOK, PcOK
<1>4. pc'["main"] = "boot" => \A m \in Modules : status'[m] = "pending"
  <2> SUFFICES ASSUME pc'["main"] = "boot", NEW m \in Modules PROVE status'[m] = "pending"
    OBVIOUS
  <2>1. pc["main"] = "boot"
    BY <1>2, <1>3, MainForward
  <2> QED
    BY <2>1, PendingFrame DEF PendingIsUntouched, StartOk, StartUnavailable, ModuleStopped
<1>5. pc'["main"] = "starting" => \A m \in on'["main"]..N : status'[m] = "pending"
  <2> SUFFICES ASSUME pc'["main"] = "starting", NEW m \in on'["main"]..N
               PROVE  status'[m] = "pending"
    OBVIOUS
  <2>1. m \in Modules
    BY <1>1 DEF Modules
  <2>2. CASE UNCHANGED <<pc["main"], on["main"]>>
    <3>1. status[m] = "pending"
      BY <2>2 DEF PendingIsUntouched
    <3>2. ~StartOk /\ ~StartUnavailable /\ ~ModuleStopped
      <4>1. StartOk => on'["main"] = on["main"] + 1
        BY <2>2, MainForward DEF MainStep, StartOk, Boot, InDegrade
      <4>2. StartUnavailable => pc'["main"] = "degShutdown"
        BY DEF StartUnavailable, TypeOK, PcOK
      <4> QED
        BY <1>1, <2>2, <4>1, <4>2 DEF ModuleStopped, Modules
    <3> QED
      BY <2>1, <3>1, <3>2, PendingFrame
  <2>3. CASE MainStep /\ Boot /\ on'["main"] = 1
    BY <2>1, <2>3, PendingFrame DEF Boot, PendingIsUntouched, StartOk, StartUnavailable,
                                    ModuleStopped
  <2>4. CASE MainStep /\ StartOk /\ on'["main"] = on["main"] + 1
    BY <1>1, <2>1, <2>4, PendingFrame DEF StartOk, PendingIsUntouched, ModuleStopped, Modules
  <2>5. CASE MainStep /\ InDegrade("main") /\ Degrading("main") /\ on'["main"] = on["main"] + 1
    <3>1. status[m] = "pending"
      BY <2>5 DEF PendingIsUntouched
    <3> QED
      BY <2>1, <2>5, <3>1, PendingFrame DEF StartOk, StartUnavailable, ModuleStopped, InDegrade
  <2> QED
    BY <1>2, <1>3, <2>2, <2>3, <2>4, <2>5, MainForward
<1>6. InDegrade("main")' => \A m \in (on'["main"] + 1)..N : status'[m] = "pending"
  <2> SUFFICES ASSUME InDegrade("main")', NEW m \in (on'["main"] + 1)..N
               PROVE  status'[m] = "pending"
    OBVIOUS
  <2>1. m \in Modules
    BY <1>1 DEF Modules
  <2>2. on'["main"] = on["main"] /\ (InDegrade("main") \/ StartUnavailable)
    BY <1>2, <1>3, MainForward DEF InDegrade
  <2>3. m \in on["main"]..N /\ m # on["main"]
    BY <1>1, <2>2 DEF Modules
  <2>4. status[m] = "pending"
    BY <2>2, <2>3 DEF PendingIsUntouched, StartUnavailable
  <2>5. ~ModuleStopped
    BY <2>2 DEF InDegrade, StartUnavailable, ModuleStopped
  <2> QED
    BY <2>1, <2>3, <2>4, <2>5, PendingFrame
<1>7. ASSUME NEW t \in RetryTasks, ~Over(t)' PROVE status'[t[1]] # "pending"
  <2>1. t[1] \in Modules
    BY DEF RetryTasks
  <2>2. ASSUME NEW c \in Callers, InDegrade(c), CreateRetry(on[c]), Over(t)
        PROVE  status[t[1]] # "pending"
    <3>1. on[c] \in Modules
      BY DEF TypeOK
    <3>2. t[1] = on[c]
      BY <1>7, <2>2, <3>1, CreateRetryEffect DEF Over
    <3> QED
      BY <2>2, <3>2 DEF PendingIsUntouched
  <2>3. ASSUME NEW u \in RetryTasks, RetryStep(u) PROVE ~Over(t)
    BY <1>7, <2>3 DEF RetryStep, RetryWakes, RetryOk, RetryUnavailable, RetryDown, RetryFails,
                FailedDown, RetryPublished, RetryCancelled, TypeOK, Over
  <2>4. CASE ~Over(t)
    BY <2>1, <2>4, PendingFrame DEF PendingIsUntouched
  <2>5. CASE UNCHANGED <<rpc, attempt, handle>> \/ OnlyCancels
    BY <1>7, <2>4, <2>5 DEF OnlyCancels, Over
  <2> QED
    BY <2>1, <2>2, <2>3, <2>4, <2>5, RetryFrame, PendingFrame
<1>8. ASSUME NEW c \in Callers, InDegrade(c)' PROVE status'[on'[c]] # "pending"
  <2>1. on[c] \in Modules
    BY DEF TypeOK
  <2>2. CASE InDegrade(c) /\ on'[c] = on[c]
    BY <2>1, <2>2, PendingFrame DEF PendingIsUntouched
  <2> QED
    BY <1>8, <2>2, EnterDegrade
<1> QED
  BY <1>4, <1>5, <1>6, <1>7, <1>8 DEF PendingIsUntouched, Modules

\* A step that turns a module DEGRADED puts a caller into _degrade for it.
LEMMA DegradedByCaller ==
  ASSUME TypeOK, [Next]_regVars, NEW m \in Modules,
         status[m] # "degraded", status'[m] = "degraded"
  PROVE  \E c \in Callers : InDegrade(c)' /\ pc'[c] = "degShutdown" /\ on'[c] = m
<1> USE CallerNames
<1>1. CASE StartUnavailable
  BY <1>1 DEF StartUnavailable, InDegrade, TypeOK, PcOK
<1>2. CASE Boot \/ StartOk \/ StartFails \/ ShutdownRequested \/ HealthEnded \/ RetriesEnded
           \/ ModuleStopped \/ CloseBackend
  BY <1>2 DEF Boot, StartOk, StartFails, ShutdownRequested, HealthEnded, RetriesEnded,
              ModuleStopped, CloseBackend, TypeOK
<1>3. ASSUME NEW c, Degrading(c) PROVE UNCHANGED status
  BY <1>3 DEF Degrading, DegradeShutdown, DegradePublished
<1>4. ASSUME NEW c \in Callers, NEW k \in Modules, MarkUnhealthy(c, k)
      PROVE  \E d \in Callers : InDegrade(d)' /\ pc'[d] = "degShutdown" /\ on'[d] = m
  BY <1>4 DEF MarkUnhealthy, InDegrade, TypeOK, PcOK
<1>5. CASE PollBegins \/ ProbeHealthy \/ HealthCancelled
  BY <1>5 DEF PollBegins, ProbeHealthy, HealthCancelled
<1>6. CASE ProbeUnhealthy
  BY <1>4, <1>6 DEF ProbeUnhealthy, TypeOK
<1>7. ASSUME NEW r \in Reporters, Report(r)
      PROVE  \E d \in Callers : InDegrade(d)' /\ pc'[d] = "degShutdown" /\ on'[d] = m
  BY <1>4, <1>7 DEF Report
<1>8. ASSUME NEW t \in RetryTasks, RetryStep(t) PROVE FALSE
  BY <1>8 DEF RetryStep, RetryWakes, RetryOk, RetryUnavailable, RetryDown, RetryFails,
              FailedDown, RetryPublished, RetryCancelled, TypeOK
<1>9. CASE UNCHANGED regVars
  BY <1>9 DEF regVars
<1> QED
  BY <1>1, <1>2, <1>3, <1>5, <1>6, <1>7, <1>8, <1>9
     DEF Next, RegistryNext, Exit, MainStep, HealthStep

\* A retry task that gives its module up keeps it FAILED until it ends.
LEMMA GivenUpStep ==
  ASSUME TypeOK, NamedWhileOpen, PendingIsUntouched, GivenUpIsFailed, [Next]_regVars
  PROVE  GivenUpIsFailed'
<1> USE RegistryAssumption
<1>1. CASE RollingBack
  BY <1>1, MainStepLabels DEF GivenUpIsFailed
<1>2. CASE ~RollingBack
  <2> SUFFICES ASSUME ~RollingBack', NEW t \in RetryTasks,
                      rpc'[t] \in {"failShutdown", "failPublish"}
               PROVE  status'[t[1]] = "failed"
    BY DEF GivenUpIsFailed
  <2>1. t[1] \in Modules
    BY DEF RetryTasks
  <2>2. ASSUME NEW u \in RetryTasks, RetryStep(u), rpc[t] \notin {"failShutdown", "failPublish"}
        PROVE  status'[t[1]] = "failed"
    BY <2>1, <2>2 DEF RetryStep, RetryWakes, RetryOk, RetryUnavailable, RetryDown, RetryFails,
                      FailedDown, RetryPublished, RetryCancelled, TypeOK
  <2>3. CASE rpc[t] \in {"failShutdown", "failPublish"}
    <3>1. status[t[1]] = "failed" /\ ~Over(t)
      BY <1>2, <2>3 DEF GivenUpIsFailed, Over
    <3>2. ASSUME NEW u \in RetryTasks, u[1] = t[1], rpc[u] = "starting" PROVE FALSE
      <4>1. handle[u[1]] = u[2] /\ handle[t[1]] = t[2]
        BY <1>2, <2>3, <3>2 DEF NamedWhileOpen, RetryIsNamed, Over
      <4>2. u = t
        BY <3>2, <4>1 DEF RetryTasks
      <4> QED
        BY <2>3, <3>2, <4>2
    <3>3. (StartOk \/ StartUnavailable) => status[on["main"]] = "pending"
      <4>1. on["main"] \in on["main"]..N
        BY CallerNames DEF TypeOK, Modules
      <4> QED
        BY <4>1 DEF StartOk, StartUnavailable, PendingIsUntouched
    <3>4. ~ModuleStopped
      BY <1>2 DEF ModuleStopped, RollingBack
    <3> QED
      BY <2>1, <3>1, <3>2, <3>3, <3>4, StatusFrame DEF RetryOk, RetryFails
  <2>4. CASE \E c \in Callers : CreateRetry(on[c])
    BY <2>3, <2>4, CreateRetryEffect DEF TypeOK
  <2>5. CASE UNCHANGED <<rpc, attempt, handle>> \/ OnlyCancels
    BY <2>3, <2>5 DEF OnlyCancels
  <2> QED
    BY <2>2, <2>3, <2>4, <2>5, RetryFrame
<1> QED
  BY <1>1, <1>2

\* The heart of the matter: a degraded entry keeps its live task or its caller, and a
\* caller that leaves _degrade leaves a live task behind.
LEMMA DegradedStep ==
  ASSUME Unobserved, TypeOK, PollAfterStartup, RecoveryInv, [Next]_regVars
  PROVE  DegradedHasRetry'
<1> USE CallerNames, RegistryAssumption
<1>1. CASE RollingBack'
  BY <1>1 DEF DegradedHasRetry
<1>2. CASE ~RollingBack'
  <2>1. ~RollingBack
    BY <1>2, MainStepLabels
  <2>2. RetryIsNamed /\ RetryIsNamed'
    BY <1>2, <2>1, NamedStep DEF RecoveryInv, NamedWhileOpen
  <2>3. CancelledInRollback'
    BY CancelledStep DEF RecoveryInv
  <2> SUFFICES ASSUME NEW m \in Modules, status'[m] = "degraded"
               PROVE  \/ handle'[m] # NoTask /\ Alive(<<m, handle[m]>>)'
                      \/ \E c \in Callers : InDegrade(c)' /\ on'[c] = m
    BY <1>2 DEF DegradedHasRetry
  \* Whoever ends _degrade on m leaves a live task.
  <2>4. ASSUME NEW t \in RetryTasks, ~Over(t)' PROVE Alive(t)'
    BY <1>2, <2>3, <2>4 DEF CancelledInRollback, Alive
  <2>5. ASSUME CreateRetry(m)
        PROVE  handle'[m] # NoTask /\ Alive(<<m, handle[m]>>)'
    <3>1. handle'[m] # NoTask /\ ~Over(<<m, handle[m]>>)'
      BY <2>5, CreateRetryEffect
    <3>2. <<m, handle'[m]>> \in RetryTasks
      BY <3>1, TypeStep DEF TypeOK, RetryTasks
    <3> QED
      BY <2>4, <3>1, <3>2
  <2>6. ASSUME NEW c \in Callers, InDegrade(c), on[c] = m
        PROVE  \/ handle'[m] # NoTask /\ Alive(<<m, handle[m]>>)'
               \/ \E d \in Callers : InDegrade(d)' /\ on'[d] = m
    <3>1. CASE Degrading(c)
      <4>1. (InDegrade(c)' /\ on'[c] = m) \/ CreateRetry(m)
        BY <2>6, <3>1 DEF Degrading, DegradeShutdown, DegradePublished, DegradeEnds,
                          InDegrade, TypeOK, PcOK
      <4> QED
        BY <2>5, <4>1
    <3>2. CASE ~Degrading(c)
      BY <1>2, <2>6, <3>2, DegradeFrame DEF RecoveryInv
    <3> QED
      BY <3>1, <3>2
  \* The module was degraded before this step.
  <2>7. CASE status[m] = "degraded"
    <3>1. CASE \E c \in Callers : InDegrade(c) /\ on[c] = m
      BY <2>6, <3>1
    <3>2. CASE handle[m] # NoTask /\ Alive(<<m, handle[m]>>)
      <4> DEFINE t == <<m, handle[m]>>
      <4>1. t \in RetryTasks /\ t[1] = m
        BY <3>2 DEF TypeOK, RetryTasks
      <4>2. CASE UNCHANGED <<rpc, attempt, handle>>
        BY <3>2, <4>2 DEF Alive, Over
      <4>3. ASSUME NEW c \in Callers, CreateRetry(on[c])
            PROVE  handle'[m] # NoTask /\ Alive(<<m, handle[m]>>)'
        <5>1. CASE on[c] = m
          BY <2>5, <4>3, <5>1
        <5>2. CASE on[c] # m
          <6>1. rpc'[t] = rpc[t] /\ handle'[m] = handle[m]
            BY <4>1, <4>3, <5>2, CreateRetryEffect DEF TypeOK
          <6> QED
            BY <3>2, <6>1 DEF Alive, Over
        <5> QED
          BY <5>1, <5>2
      <4>4. ASSUME NEW u \in RetryTasks, RetryStep(u)
            PROVE  handle'[m] # NoTask /\ Alive(<<m, handle[m]>>)'
        <5>1. handle' = handle
          BY <4>4 DEF RetryStep, RetryWakes, RetryOk, RetryUnavailable, RetryDown,
                      RetryFails, FailedDown, RetryPublished, RetryCancelled
        <5>2. ~Over(t)'
          <6>1. CASE u # t
            BY <3>2, <4>1, <4>4, <6>1
               DEF RetryStep, RetryWakes, RetryOk, RetryUnavailable, RetryDown, RetryFails,
                   FailedDown, RetryPublished, RetryCancelled, TypeOK, Alive, Over
          <6>2. CASE u = t
            <7>1. rpc[t] \notin {"recPublish", "failShutdown", "failPublish", "cancelled",
                                 "none", "done"}
              BY <2>1, <2>7, <3>2, <4>1
                 DEF RecoveryInv, RetriesGoOn, GivenUpIsFailed, Alive, Over
            <7>2. CASE RetryWakes(t) \/ RetryUnavailable(t) \/ RetryFails(t)
              BY <4>1, <7>2 DEF RetryWakes, RetryUnavailable, RetryFails, TypeOK, Over
            <7>3. CASE RetryDown(t)
              <8>1. attempt[t] < OverflowAt
                BY <4>1, <7>3 DEF RecoveryInv, RetriesGoOn, RetryDown, Unobserved, TypeOK
              <8> QED
                BY <4>1, <7>3, <8>1 DEF RetryDown, TypeOK, Over
            <7>4. ~RetryOk(t)
              BY <4>1 DEF RetryOk, TypeOK
            <7>5. ~FailedDown(t) /\ ~RetryPublished(t) /\ ~RetryCancelled(t)
              BY <7>1 DEF FailedDown, RetryPublished, RetryCancelled
            <7> QED
              BY <4>4, <6>2, <7>2, <7>3, <7>4, <7>5 DEF RetryStep
          <6> QED
            BY <6>1, <6>2
        <5> QED
          BY <2>4, <3>2, <4>1, <5>1, <5>2
      <4> QED
        BY <1>2, <4>2, <4>3, <4>4, RetryFrame DEF OnlyCancels
    <3> QED
      BY <2>1, <2>7, <3>1, <3>2 DEF RecoveryInv, DegradedHasRetry
  \* The step degrades it: a caller enters _degrade.
  <2>8. CASE status[m] # "degraded"
    BY <2>8, DegradedByCaller
  <2> QED
    BY <2>7, <2>8
<1> QED
  BY <1>1, <1>2

\* The parts of RecoveryInv hold before the first module is started.
LEMMA RecoveryInit == Init => PollAfterStartup /\ RecoveryInv
<1> USE CallerNames, RegistryAssumption
<1> SUFFICES ASSUME Init PROVE PollAfterStartup /\ RecoveryInv
  OBVIOUS
<1>1. pc["main"] = "boot" /\ pc["health"] = "none" /\ (\A c \in Callers : ~InDegrade(c))
  BY DEF Init, InDegrade
<1>2. (\A t \in RetryTasks : rpc[t] = "none") /\ (\A m \in Modules : status[m] = "pending")
  BY DEF Init
<1> QED
  BY <1>1, <1>2 DEF PollAfterStartup, Booting, RecoveryInv, RetriesGoOn, CancelledInRollback,
                    NamedWhileOpen, RetryIsNamed, PendingIsUntouched, GivenUpIsFailed,
                    DegradedHasRetry, Over

\* No degraded module is forgotten, for any number of modules, reporters and retries, in
\* any order of their steps: if nobody subscribes to module.recovered and no outage lasts
\* until the backoff overflows, a degraded entry always has a live retry task or a caller
\* in _degrade that is about to create one, until _rollback begins.
THEOREM NoModuleForgotten == Unobserved => (Spec => []DegradedHasRetry)
<1> SUFFICES ASSUME Unobserved PROVE Spec => []DegradedHasRetry
  OBVIOUS
<1>1. Init => PollAfterStartup /\ RecoveryInv
  BY RecoveryInit
<1>2. TypeOK /\ PollAfterStartup /\ RecoveryInv /\ [Next]_regVars
        => PollAfterStartup' /\ RecoveryInv'
  BY PollStep, RetriesGoOnStep, CancelledStep, NamedStep, PendingStep, GivenUpStep,
     DegradedStep DEF RecoveryInv
<1>3. RecoveryInv => DegradedHasRetry
  BY DEF RecoveryInv
<1> QED
  BY <1>1, <1>2, <1>3, TypeCorrect, PTL DEF Spec

-----------------------------------------------------------------------------
(* While the registry is open, every module has at most one task at work   *)
(* on it, and its status says which.                                       *)

\* The labels of a retry task that has its module to itself.
Working == {"sleep", "starting", "retryShutdown", "failShutdown", "failPublish"}

\* A retry at work has its entry DEGRADED, or FAILED once it gave up.
RetryOwns ==
  \A t \in RetryTasks :
    /\ rpc[t] \in {"sleep", "starting", "retryShutdown"} => status[t[1]] = "degraded"
    /\ rpc[t] \in {"failShutdown", "failPublish"} => status[t[1]] = "failed"

\* A caller in _degrade has its entry DEGRADED, alone, with no retry at work.
DegradeOwns ==
  \A c \in Callers : InDegrade(c) =>
    /\ status[on[c]] = "degraded"
    /\ \A t \in RetryTasks : t[1] = on[c] => rpc[t] \notin Working
    /\ \A d \in Callers : InDegrade(d) /\ on[d] = on[c] => d = c

PhaseFollows ==
  \A m \in Modules :
    /\ status[m] = "running" => phase[m] = "up"
    /\ status[m] \in {"degraded", "failed"} => phase[m] # "up"
    /\ status[m] # "stopped"

OpenInv == RollingBack \/ (RetryOwns /\ DegradeOwns /\ PhaseFollows)

\* What the steps of _degrade do: suspend once more, or leave it and see to the retry.
LEMMA DegradingEffect ==
  ASSUME TypeOK, PollAfterStartup, NEW c \in Callers, Degrading(c)
  PROVE  /\ InDegrade(c) /\ UNCHANGED status
         /\ \A d \in Callers : InDegrade(d)' => InDegrade(d) /\ on'[d] = on[d]
         /\ \/ UNCHANGED rpc
            \/ ~InDegrade(c)' /\ CreateRetry(on[c])
<1> USE CallerNames, RegistryAssumption
<1>1. InDegrade(c) /\ UNCHANGED status
  BY DEF Degrading, DegradeShutdown, DegradePublished, InDegrade
<1>2. on[c] + 1 \in Nat
  BY DEF TypeOK, Modules
<1>3. ASSUME NEW i \in Nat, NEW ph, StartFrom(i, ph), c = "main", NEW d \in Callers, InDegrade(d)'
      PROVE  d # c /\ InDegrade(d) /\ on'[d] = on[d]
  <2>1. pc["health"] = "none"
    BY <1>1, <1>3 DEF PollAfterStartup, Booting, InDegrade
  <2> QED
    BY <1>3, <2>1 DEF StartFrom, TypeOK, PcOK, InDegrade
<1>4. ASSUME NEW i \in Nat, ProbeFrom(i), c = "health", NEW d \in Callers, InDegrade(d)'
      PROVE  d # c /\ InDegrade(d) /\ on'[d] = on[d]
  BY <1>4 DEF ProbeFrom, TypeOK, PcOK, InDegrade
<1>5. ASSUME NEW ph, DegradeEnds(c, ph), NEW d \in Callers, InDegrade(d)'
      PROVE  d # c /\ InDegrade(d) /\ on'[d] = on[d]
  <2>1. CASE c = "main" /\ StartFrom(on[c] + 1, ph)
    BY <1>2, <1>3, <1>5, <2>1
  <2>2. CASE c = "health" /\ ProbeFrom(on[c] + 1)
    BY <1>2, <1>4, <1>5, <2>2
  <2>3. CASE c \in Reporters /\ pc' = [pc EXCEPT ![c] = "idle"] /\ UNCHANGED on
    BY <1>5, <2>3 DEF TypeOK, PcOK, InDegrade
  <2> QED
    BY <1>5, <2>1, <2>2, <2>3 DEF DegradeEnds
<1>6. ASSUME NEW ph, DegradeEnds(c, ph) PROVE CreateRetry(on[c])
  BY <1>6 DEF DegradeEnds
<1>7. CASE \E ph : DegradeEnds(c, ph)
  BY <1>1, <1>5, <1>6, <1>7
<1>8. CASE pc' = [pc EXCEPT ![c] = "degPublish"] /\ UNCHANGED <<on, rpc>>
  BY <1>1, <1>8 DEF TypeOK, PcOK, InDegrade
<1> QED
  BY <1>7, <1>8 DEF Degrading, DegradeShutdown, DegradePublished

\* Every other step enters _degrade for an entry that was pending or RUNNING, and of one
\* caller only.
LEMMA EnterFresh ==
  ASSUME TypeOK, PollAfterStartup, PendingIsUntouched, [Next]_regVars,
         NEW c \in Callers, InDegrade(c)', ~(InDegrade(c) /\ on'[c] = on[c])
  PROVE  /\ status[on'[c]] \in {"pending", "running"} /\ status'[on'[c]] = "degraded"
         /\ UNCHANGED rpc
         /\ \A d \in Callers \ {c} : InDegrade(d)' => InDegrade(d) /\ on'[d] = on[d]
<1> USE CallerNames, RegistryAssumption
<1>1. ASSUME NEW i \in Nat, NEW ph, StartFrom(i, ph), Booting PROVE FALSE
  BY <1>1 DEF StartFrom, TypeOK, PcOK, PollAfterStartup, InDegrade
<1>2. ASSUME NEW i \in Nat, NEW ph, StopFrom(i, ph) PROVE FALSE
  BY <1>2 DEF StopFrom, TypeOK, PcOK, InDegrade
<1>3. ASSUME NEW ph, CancelRetries(ph) PROVE FALSE
  BY <1>2, <1>3 DEF CancelRetries, TypeOK, PcOK, InDegrade
<1>4. ASSUME NEW i \in Nat, ProbeFrom(i) PROVE FALSE
  BY <1>4 DEF ProbeFrom, TypeOK, PcOK, InDegrade
<1>5. /\ N \in Nat
      /\ \A d \in Callers : on[d] + 1 \in Nat /\ on[d] - 1 \in Nat
  BY DEF TypeOK, Modules
<1>6. ASSUME NEW d \in Callers, Degrading(d) PROVE FALSE
  BY <1>6, DegradingEffect
<1>7. ~Boot /\ ~StartOk
  BY <1>1, <1>5 DEF Boot, StartOk, Booting, TypeOK
<1>8. CASE StartUnavailable
  <2>1. on["main"] \in on["main"]..N
    BY DEF TypeOK, Modules
  <2>2. status[on["main"]] = "pending"
    BY <1>8, <2>1 DEF StartUnavailable, PendingIsUntouched
  <2>3. c = "main" /\ on' = on /\ pc' = [pc EXCEPT !["main"] = "degShutdown"]
    BY <1>8 DEF StartUnavailable, TypeOK, PcOK, InDegrade
  <2> QED
    BY <1>8, <2>2, <2>3 DEF StartUnavailable, TypeOK, PcOK, InDegrade
<1>9. ~StartFails /\ ~HealthEnded
  BY <1>3 DEF StartFails, HealthEnded
<1>10. ~RetriesEnded /\ ~ModuleStopped /\ ~CloseBackend /\ ~ShutdownRequested
  BY <1>2, <1>5 DEF RetriesEnded, ModuleStopped, CloseBackend, ShutdownRequested,
                    TypeOK, PcOK, InDegrade
<1>11. ASSUME NEW d \in Callers, NEW k \in Modules, MarkUnhealthy(d, k), UNCHANGED rpc
       PROVE  /\ status[on'[c]] \in {"pending", "running"} /\ status'[on'[c]] = "degraded"
              /\ UNCHANGED rpc
              /\ \A e \in Callers \ {c} : InDegrade(e)' => InDegrade(e) /\ on'[e] = on[e]
  <2>1. c = d /\ on'[c] = k
    BY <1>11 DEF MarkUnhealthy, TypeOK, PcOK, InDegrade
  <2> QED
    BY <1>11, <2>1 DEF MarkUnhealthy, TypeOK, PcOK, InDegrade
<1>12. ~PollBegins /\ ~ProbeHealthy /\ ~HealthCancelled
  BY <1>4, <1>5 DEF PollBegins, ProbeHealthy, HealthCancelled, TypeOK, PcOK, InDegrade
<1>13. ProbeUnhealthy => MarkUnhealthy("health", on["health"]) /\ UNCHANGED rpc
                         /\ on["health"] \in Modules
  BY <1>4, <1>5 DEF ProbeUnhealthy, TypeOK
<1>14. ASSUME NEW r \in Reporters, Report(r)
       PROVE  \E m \in Modules : MarkUnhealthy(r, m) /\ UNCHANGED rpc
  BY <1>14 DEF Report
<1>15. ASSUME NEW t \in RetryTasks, RetryStep(t) PROVE FALSE
  <2>1. UNCHANGED <<pc, on>>
    BY <1>15 DEF RetryStep, RetryWakes, RetryOk, RetryUnavailable, RetryDown, RetryFails,
                 FailedDown, RetryPublished, RetryCancelled
  <2> QED
    BY <2>1 DEF InDegrade
<1>16. ~UNCHANGED regVars
  BY DEF regVars, InDegrade
<1> QED
  BY <1>6, <1>7, <1>8, <1>9, <1>10, <1>11, <1>12, <1>13, <1>14, <1>15, <1>16
     DEF Next, RegistryNext, Exit, MainStep, HealthStep

\* Only a task at work sets the status of its module, and only its own.
LEMMA RetryOwnsStep ==
  ASSUME TypeOK, PollAfterStartup, PendingIsUntouched, RetryIsNamed, RetryOwns, DegradeOwns,
         [Next]_regVars, ~RollingBack'
  PROVE  RetryOwns'
<1> USE CallerNames, RegistryAssumption
<1>1. ASSUME NEW t \in RetryTasks, ~Over(t), status'[t[1]] # status[t[1]],
             status[t[1]] # "running"
      PROVE  RetryOk(t) \/ RetryFails(t)
  <2>1. t[1] \in Modules /\ status[t[1]] # "pending" /\ ~RollingBack
    BY <1>1, MainStepLabels DEF RetryTasks, PendingIsUntouched
  <2>2. ~((StartOk \/ StartUnavailable) /\ t[1] = on["main"])
    <3>1. on["main"] \in on["main"]..N
      BY DEF TypeOK, Modules
    <3> QED
      BY <2>1, <3>1 DEF StartOk, StartUnavailable, PendingIsUntouched
  <2>3. ~ModuleStopped
    BY <2>1 DEF ModuleStopped, RollingBack
  <2>4. PICK u \in RetryTasks : u[1] = t[1] /\ (RetryOk(u) \/ RetryFails(u))
    BY <1>1, <2>1, <2>2, <2>3, StatusFrame
  <2>5. ~Over(u)
    BY <2>4 DEF RetryOk, RetryFails, Over
  <2>6. u[2] = t[2]
    BY <1>1, <2>4, <2>5 DEF RetryIsNamed
  <2>7. u = t
    BY <2>4, <2>6 DEF RetryTasks
  <2> QED
    BY <2>4, <2>7
<1> SUFFICES ASSUME NEW t \in RetryTasks
             PROVE  /\ rpc'[t] \in {"sleep", "starting", "retryShutdown"}
                         => status'[t[1]] = "degraded"
                    /\ rpc'[t] \in {"failShutdown", "failPublish"} => status'[t[1]] = "failed"
  BY DEF RetryOwns
<1>2. t[1] \in Modules
  BY DEF RetryTasks
<1>3. CASE RetryStep(t)
  <2>1. CASE RetryWakes(t) \/ RetryUnavailable(t) \/ RetryDown(t) \/ FailedDown(t)
    BY <2>1 DEF RetryWakes, RetryUnavailable, RetryDown, FailedDown, RetryOwns, TypeOK
  <2>2. CASE RetryOk(t) \/ RetryFails(t) \/ RetryPublished(t) \/ RetryCancelled(t)
    BY <1>2, <2>2 DEF RetryOk, RetryFails, RetryPublished, RetryCancelled, RetryOwns, TypeOK
  <2> QED
    BY <1>3, <2>1, <2>2 DEF RetryStep
<1>4. ASSUME ~RetryStep(t), rpc'[t] = rpc[t], rpc[t] \in Working
      PROVE  status'[t[1]] = status[t[1]]
  <2>1. ~Over(t) /\ status[t[1]] # "running"
    BY <1>4 DEF Working, Over, RetryOwns
  <2> QED
    BY <1>1, <1>4, <2>1 DEF RetryStep
<1>5. CASE ~RetryStep(t) /\ rpc'[t] = rpc[t]
  BY <1>4, <1>5 DEF RetryOwns, Working
<1>6. ASSUME NEW c \in Callers, Degrading(c), CreateRetry(on[c]), rpc'[t] # rpc[t]
      PROVE  rpc'[t] = "sleep" /\ status'[t[1]] = "degraded"
  <2>1. InDegrade(c) /\ UNCHANGED status /\ on[c] \in Modules
    BY <1>6, DegradingEffect DEF TypeOK
  <2>2. t[1] = on[c] /\ rpc'[t] = "sleep"
    BY <1>6, <2>1, CreateRetryEffect
  <2> QED
    BY <2>1, <2>2 DEF DegradeOwns
<1>7. ASSUME NEW u \in RetryTasks, RetryStep(u), u # t PROVE rpc'[t] = rpc[t]
  BY <1>7 DEF RetryStep, RetryWakes, RetryOk, RetryUnavailable, RetryDown, RetryFails,
              FailedDown, RetryPublished, RetryCancelled, TypeOK
<1>8. ~OnlyCancels
  BY DEF OnlyCancels
<1> QED
  BY <1>3, <1>5, <1>6, <1>7, <1>8, RetryFrame

\* Nobody else comes to a module that somebody degrades.
LEMMA DegradeOwnsStep ==
  ASSUME TypeOK, PollAfterStartup, PendingIsUntouched, RetryOwns, DegradeOwns,
         [Next]_regVars, ~RollingBack'
  PROVE  DegradeOwns'
<1> USE CallerNames, RegistryAssumption
<1> SUFFICES ASSUME NEW c \in Callers, InDegrade(c)'
             PROVE  /\ status'[on'[c]] = "degraded"
                    /\ \A t \in RetryTasks : t[1] = on'[c] => rpc'[t] \notin Working
                    /\ \A d \in Callers : InDegrade(d)' /\ on'[d] = on'[c] => d = c
  BY DEF DegradeOwns
<1>0. ~RollingBack /\ on[c] \in Modules
  BY MainStepLabels DEF TypeOK
<1>1. CASE InDegrade(c) /\ on'[c] = on[c]
  <2>1. /\ status[on[c]] = "degraded"
        /\ \A t \in RetryTasks : t[1] = on[c] => rpc[t] \notin Working
        /\ \A d \in Callers : InDegrade(d) /\ on[d] = on[c] => d = c
    BY <1>1 DEF DegradeOwns
  <2>2. status'[on[c]] = "degraded"
    <3>1. ~((StartOk \/ StartUnavailable) /\ on[c] = on["main"])
      <4>1. on["main"] \in on["main"]..N
        BY DEF TypeOK, Modules
      <4> QED
        BY <2>1, <4>1 DEF StartOk, StartUnavailable, PendingIsUntouched
    <3>2. ASSUME NEW t \in RetryTasks, t[1] = on[c] PROVE ~RetryOk(t) /\ ~RetryFails(t)
      BY <2>1, <3>2 DEF RetryOk, RetryFails, Working
    <3>3. ~ModuleStopped
      BY <1>0 DEF ModuleStopped, RollingBack
    <3> QED
      BY <1>0, <2>1, <3>1, <3>2, <3>3, StatusFrame
  <2>3. ASSUME NEW t \in RetryTasks, t[1] = on[c] PROVE rpc'[t] \notin Working
    <3>1. rpc[t] \notin Working
      BY <2>1, <2>3
    <3>2. ASSUME NEW d \in Callers, Degrading(d), rpc'[t] # rpc[t] PROVE FALSE
      <4>1. /\ InDegrade(d) /\ ~InDegrade(d)' /\ CreateRetry(on[d]) /\ on[d] \in Modules
        BY <3>2, DegradingEffect DEF TypeOK
      <4>2. on[d] = on[c]
        BY <2>3, <3>2, <4>1, CreateRetryEffect
      <4> QED
        BY <2>1, <4>1, <4>2
    <3>3. ASSUME NEW u \in RetryTasks, RetryStep(u) PROVE rpc'[t] \notin Working
      BY <3>1, <3>3 DEF RetryStep, RetryWakes, RetryOk, RetryUnavailable, RetryDown, RetryFails,
                        FailedDown, RetryPublished, RetryCancelled, TypeOK, Working
    <3>4. ~OnlyCancels
      BY DEF OnlyCancels
    <3> QED
      BY <3>1, <3>2, <3>3, <3>4, RetryFrame
  <2>4. ASSUME NEW d \in Callers, InDegrade(d)', on'[d] = on'[c] PROVE d = c
    <3>1. CASE InDegrade(d) /\ on'[d] = on[d]
      BY <1>1, <2>1, <2>4, <3>1
    <3>2. CASE ~(InDegrade(d) /\ on'[d] = on[d])
      BY <1>1, <2>1, <2>4, <3>2, EnterFresh
    <3> QED
      BY <3>1, <3>2
  <2> QED
    BY <1>1, <2>2, <2>3, <2>4
<1>2. CASE ~(InDegrade(c) /\ on'[c] = on[c])
  <2>1. /\ status[on'[c]] \in {"pending", "running"} /\ status'[on'[c]] = "degraded"
        /\ UNCHANGED rpc
        /\ \A d \in Callers \ {c} : InDegrade(d)' => InDegrade(d) /\ on'[d] = on[d]
    BY <1>2, EnterFresh
  <2>2. ASSUME NEW t \in RetryTasks, t[1] = on'[c] PROVE rpc'[t] \notin Working
    BY <2>1, <2>2 DEF RetryOwns, Working
  <2>3. ASSUME NEW d \in Callers, InDegrade(d)', on'[d] = on'[c], d # c PROVE FALSE
    BY <2>1, <2>3 DEF DegradeOwns
  <2> QED
    BY <2>1, <2>2, <2>3
<1> QED
  BY <1>1, <1>2

\* The loop of startup calls startup of an entry that is pending, and changes no other.
LEMMA StartFromPhase ==
  ASSUME TypeOK, PendingIsUntouched', NEW i \in Nat \ {0}, NEW ph \in [Modules -> Phases],
         StartFrom(i, ph), NEW m \in Modules, status'[m] # "pending"
  PROVE  phase'[m] = ph[m]
<1> USE CallerNames, RegistryAssumption
<1>1. CASE i <= N
  <2>1. pc'["main"] = "starting" /\ on'["main"] = i
    BY <1>1 DEF StartFrom, TypeOK, PcOK
  <2>2. i \in i..N
    BY <1>1
  <2>3. status'[i] = "pending"
    BY <2>1, <2>2 DEF PendingIsUntouched
  <2> QED
    BY <1>1, <2>3 DEF StartFrom
<1>2. CASE ~(i <= N)
  BY <1>2 DEF StartFrom
<1> QED
  BY <1>1, <1>2

LEMMA PhaseStep ==
  ASSUME TypeOK, PollAfterStartup, PendingIsUntouched, PendingIsUntouched', RetryOwns,
         DegradeOwns, PhaseFollows, [Next]_regVars, ~RollingBack'
  PROVE  PhaseFollows'
<1> USE CallerNames, RegistryAssumption
<1>0. ~RollingBack
  BY MainStepLabels
<1> SUFFICES ASSUME NEW m \in Modules
             PROVE  /\ status'[m] = "running" => phase'[m] = "up"
                    /\ status'[m] \in {"degraded", "failed"} => phase'[m] # "up"
                    /\ status'[m] # "stopped"
  BY DEF PhaseFollows
<1>1. /\ status[m] = "running" => phase[m] = "up"
      /\ status[m] \in {"degraded", "failed"} => phase[m] # "up"
      /\ status[m] # "stopped"
  BY DEF PhaseFollows
<1>2. /\ on["main"] + 1 \in Nat \ {0} /\ 1 \in Nat \ {0} /\ N \in Nat
      /\ \A c \in Callers : on[c] \in Modules /\ on[c] + 1 \in Nat \ {0}
  BY DEF TypeOK, Modules
<1>3. CASE Boot
  <2>1. status'[m] = "pending"
    BY <1>3 DEF Boot, PendingIsUntouched
  <2> QED
    BY <2>1
<1>4. CASE StartOk
  <2> DEFINE ph == [phase EXCEPT ![on["main"]] = "up"]
  <2>1. ph \in [Modules -> Phases] /\ StartFrom(on["main"] + 1, ph)
    BY <1>4 DEF StartOk, TypeOK, Phases
  <2>2. status'[m] # "pending" => phase'[m] = ph[m]
    <3> HIDE DEF ph
    <3> QED
      BY <1>2, <2>1, StartFromPhase
  <2>3. status' = [status EXCEPT ![on["main"]] = "running"]
    BY <1>4 DEF StartOk
  <2> QED
    BY <1>1, <1>2, <2>2, <2>3 DEF TypeOK
<1>5. CASE StartUnavailable
  BY <1>1, <1>5 DEF StartUnavailable, TypeOK
<1>6. \/ /\ ~StartFails /\ ~HealthEnded /\ ~RetriesEnded /\ ~ModuleStopped /\ ~CloseBackend
         /\ ~ShutdownRequested /\ ~HealthCancelled
      \/ UNCHANGED <<status, phase>>
  <2>1. ~HealthEnded /\ ~RetriesEnded /\ ~ModuleStopped /\ ~CloseBackend
    BY <1>0 DEF HealthEnded, RetriesEnded, ModuleStopped, CloseBackend, RollingBack
  <2>2. ~ShutdownRequested
    BY DEF ShutdownRequested, RollingBack, TypeOK, PcOK
  <2>3. ~StartFails
    BY DEF StartFails, CancelRetries, StopFrom, RollingBack, TypeOK, PcOK
  <2>4. HealthCancelled => UNCHANGED <<status, phase>>
    BY DEF HealthCancelled
  <2> QED
    BY <2>1, <2>2, <2>3, <2>4
<1>7. ASSUME NEW c \in Callers, Degrading(c)
      PROVE  /\ status'[m] = status[m]
             /\ status'[m] # "pending" => phase'[m] = phase[m] \/ (m = on[c] /\ phase'[m] = "clean")
  <2>1. status'[m] = status[m] /\ InDegrade(c)
    BY <1>7, DegradingEffect
  <2>2. ASSUME NEW ph \in [Modules -> Phases], DegradeEnds(c, ph), status'[m] # "pending"
        PROVE  phase'[m] = ph[m]
    <3>1. CASE c = "main" /\ StartFrom(on[c] + 1, ph)
      BY <1>2, <2>2, <3>1, StartFromPhase
    <3>2. CASE phase' = ph
      BY <3>2
    <3> QED
      BY <2>2, <3>1, <3>2 DEF DegradeEnds
  <2>3. CASE DegradePublished(c)
    <3>1. phase \in [Modules -> Phases] /\ DegradeEnds(c, phase)
      BY <2>3 DEF DegradePublished, TypeOK
    <3> QED
      BY <2>1, <2>2, <3>1
  <2>4. CASE DegradeShutdown(c)
    <3> DEFINE ph == [phase EXCEPT ![on[c]] = "clean"]
    <3>1. ph \in [Modules -> Phases] /\ (DegradeEnds(c, ph) \/ phase' = ph)
      BY <2>4 DEF DegradeShutdown, TypeOK, Phases
    <3>2. ph[m] = IF m = on[c] THEN "clean" ELSE phase[m]
      BY DEF TypeOK
    <3> HIDE DEF ph
    <3> QED
      BY <2>1, <2>2, <3>1, <3>2
  <2> QED
    BY <1>7, <2>3, <2>4 DEF Degrading
<1>8. ASSUME NEW c \in Callers, Degrading(c)
      PROVE  /\ status'[m] = "running" => phase'[m] = "up"
             /\ status'[m] \in {"degraded", "failed"} => phase'[m] # "up"
             /\ status'[m] # "stopped"
  <2>1. status[on[c]] = "degraded"
    BY <1>8, DegradingEffect DEF DegradeOwns
  <2> QED
    BY <1>1, <1>7, <1>8, <2>1
<1>9. ASSUME NEW c \in Callers, NEW k \in Modules, MarkUnhealthy(c, k)
      PROVE  /\ status'[m] = "running" => phase'[m] = "up"
             /\ status'[m] \in {"degraded", "failed"} => phase'[m] # "up"
             /\ status'[m] # "stopped"
  BY <1>1, <1>9 DEF MarkUnhealthy, TypeOK
<1>10. PollBegins \/ ProbeHealthy => UNCHANGED <<status, phase>>
  BY DEF PollBegins, ProbeHealthy
<1>11. ProbeUnhealthy => MarkUnhealthy("health", on["health"]) \/ UNCHANGED <<status, phase>>
  BY DEF ProbeUnhealthy
<1>12. ASSUME NEW t \in RetryTasks, RetryStep(t)
       PROVE  /\ status'[m] = "running" => phase'[m] = "up"
              /\ status'[m] \in {"degraded", "failed"} => phase'[m] # "up"
              /\ status'[m] # "stopped"
  <2>1. t[1] \in Modules
    BY DEF RetryTasks
  <2>2. /\ rpc[t] \in {"sleep", "starting", "retryShutdown"} => status[t[1]] = "degraded"
        /\ rpc[t] \in {"failShutdown", "failPublish"} => status[t[1]] = "failed"
    BY DEF RetryOwns
  <2>3. CASE RetryWakes(t) \/ RetryUnavailable(t) \/ RetryDown(t) \/ FailedDown(t)
    BY <1>1, <2>1, <2>2, <2>3
       DEF RetryWakes, RetryUnavailable, RetryDown, FailedDown, TypeOK
  <2>4. CASE RetryOk(t) \/ RetryFails(t)
    BY <1>1, <2>1, <2>4 DEF RetryOk, RetryFails, TypeOK
  <2>5. CASE RetryPublished(t) \/ RetryCancelled(t)
    BY <1>1, <2>5 DEF RetryPublished, RetryCancelled
  <2> QED
    BY <1>12, <2>3, <2>4, <2>5 DEF RetryStep
<1>13. CASE UNCHANGED <<status, phase>>
  BY <1>1, <1>13
<1>14. UNCHANGED regVars => UNCHANGED <<status, phase>>
  BY DEF regVars
<1>15. ASSUME NEW r \in Reporters, Report(r) PROVE \E k \in Modules : MarkUnhealthy(r, k)
  BY <1>15 DEF Report
<1> QED
  BY <1>2, <1>3, <1>4, <1>5, <1>6, <1>8, <1>9, <1>10, <1>11, <1>12, <1>13, <1>14, <1>15
     DEF Next, RegistryNext, Exit, MainStep, HealthStep

\* What these say of tasks and entries is what SoundWhileOpen says of calls and phases.
LEMMA OpenIsSound ==
  ASSUME TypeOK, PendingIsUntouched, NamedWhileOpen, OpenInv
  PROVE  SoundWhileOpen
<1> USE CallerNames, RegistryAssumption
<1> SUFFICES ASSUME ~RollingBack
             PROVE  RetryIsNamed /\ OneLifecycleCall /\ StatusIsTruthful
  BY DEF SoundWhileOpen
<1>1. RetryIsNamed /\ RetryOwns /\ DegradeOwns /\ PhaseFollows
  BY DEF NamedWhileOpen, OpenInv
<1>2. StatusIsTruthful
  BY <1>1 DEF StatusIsTruthful, PhaseFollows
<1>3. ASSUME NEW c \in Callers, NEW m \in Modules, CallerCalls(c, m)
      PROVE  \/ c = "main" /\ pc[c] = "starting" /\ status[m] = "pending"
             \/ InDegrade(c) /\ on[c] = m
  <2>1. pc[c] # "stopping" /\ (pc[c] = "starting" => c = "main")
    BY DEF RollingBack, TypeOK, PcOK, Callers, HealthLabels, ReporterLabels
  <2>2. c = "main" /\ pc[c] = "starting" => m \in on["main"]..N
    BY <1>3 DEF CallerCalls, Modules
  <2> QED
    BY <1>3, <2>1, <2>2 DEF CallerCalls, PendingIsUntouched, InDegrade
<1>4. ASSUME NEW m \in Modules, NEW c \in Callers, NEW d \in Callers,
             CallerCalls(c, m), CallerCalls(d, m)
      PROVE  c = d
  BY <1>1, <1>3, <1>4 DEF DegradeOwns
<1>5. ASSUME NEW m \in Modules, NEW t \in RetryTasks, NEW u \in RetryTasks,
             RetryCalls(t, m), RetryCalls(u, m)
      PROVE  t = u
  <2>1. ~Over(t) /\ ~Over(u) /\ t[1] = u[1]
    BY <1>5 DEF RetryCalls, Over
  <2>2. t[2] = u[2]
    BY <1>1, <2>1 DEF RetryIsNamed
  <2> QED
    BY <2>1, <2>2 DEF RetryTasks
<1>6. ASSUME NEW m \in Modules, NEW c \in Callers, NEW t \in RetryTasks,
             CallerCalls(c, m), RetryCalls(t, m)
      PROVE  FALSE
  BY <1>1, <1>3, <1>6 DEF DegradeOwns, RetryCalls, PendingIsUntouched, Over, Working
<1> QED
  BY <1>1, <1>2, <1>4, <1>5, <1>6 DEF OneLifecycleCall

LEMMA OpenInit == Init => PollAfterStartup /\ PendingIsUntouched /\ NamedWhileOpen /\ OpenInv
<1> USE CallerNames, RegistryAssumption
<1> SUFFICES ASSUME Init
             PROVE  PollAfterStartup /\ PendingIsUntouched /\ NamedWhileOpen /\ OpenInv
  OBVIOUS
<1>1. pc["main"] = "boot" /\ pc["health"] = "none" /\ (\A c \in Callers : ~InDegrade(c))
  BY DEF Init, InDegrade
<1>2. (\A t \in RetryTasks : rpc[t] = "none") /\ (\A m \in Modules : status[m] = "pending")
  BY DEF Init
<1> QED
  BY <1>1, <1>2 DEF PollAfterStartup, Booting, NamedWhileOpen, RetryIsNamed, PendingIsUntouched,
                    OpenInv, RetryOwns, DegradeOwns, PhaseFollows, Over

\* A step keeps the two, unless it begins the rollback.
LEMMA OpenStep ==
  ASSUME TypeOK, PollAfterStartup, PendingIsUntouched, NamedWhileOpen, OpenInv, [Next]_regVars
  PROVE  OpenInv'
<1>1. PendingIsUntouched'
  BY PendingStep
<1>2. CASE ~RollingBack'
  <2>1. ~RollingBack
    BY <1>2, MainStepLabels
  <2>2. RetryIsNamed /\ RetryOwns /\ DegradeOwns /\ PhaseFollows
    BY <2>1 DEF NamedWhileOpen, OpenInv
  <2>3. RetryOwns' /\ DegradeOwns' /\ PhaseFollows'
    BY <1>1, <1>2, <2>2, RetryOwnsStep, DegradeOwnsStep, PhaseStep
  <2> QED
    BY <2>3 DEF OpenInv
<1> QED
  BY <1>2 DEF OpenInv

\* While nothing rolls back, whoever reports, subscribes or recovers at whatever moment:
\* retries are named, no two tasks are in startup or shutdown of one module, and the
\* status is true of the module (startup, mark_unhealthy, _degrade, _retry_loop).
THEOREM SoundUntilRollback == Spec => []SoundWhileOpen
<1> DEFINE Inv == PollAfterStartup /\ PendingIsUntouched /\ NamedWhileOpen /\ OpenInv
<1>1. TypeOK /\ Inv /\ [Next]_regVars => Inv'
  BY PollStep, PendingStep, NamedStep, OpenStep
<1>2. TypeOK /\ Inv => SoundWhileOpen
  BY OpenIsSound
<1>3. Init => Inv
  BY OpenInit
<1> HIDE DEF Inv
<1> QED
  BY <1>1, <1>2, <1>3, TypeCorrect, PTL DEF Spec

-----------------------------------------------------------------------------
(***************************************************************************)
(* The whole life of the registry, its roll-back included: what _rollback  *)
(* leaves behind, that every module is driven through the calls of         *)
(* ModuleLifecycle, and that startup finds a clean module.                 *)
(*                                                                         *)
(* All of it is under Unreported.  A mark_unhealthy of somebody else that  *)
(* is suspended while _rollback runs goes on beside it, and then a retry   *)
(* is left when the registry is closed (MCRegistryEscape.cfg).             *)
(***************************************************************************)

-----------------------------------------------------------------------------
(* Shutdown: what _rollback leaves behind, when nobody but the health poll *)
(* calls mark_unhealthy.                                                   *)

Unreported == Reporters = {}

\* startup is called before an entry leaves PENDING.
AttemptedFirst ==
  /\ pc["main"] = "starting" => attempted[on["main"]]
  /\ \A m \in Modules : status[m] # "pending" => attempted[m]

Swept(m) == status[m] = IF attempted[m] THEN "stopped" ELSE "pending"

\* The stages of _rollback: the health poll ends, then the retries, then the modules are
\* stopped from the last to the first.
StagesOfRollback ==
  /\ RollingBack => pc["health"] \in {"none", "cancelled", "done"}
  /\ RollingBack /\ pc["main"] # "awaitHealth" =>
       pc["health"] # "cancelled" /\ \A t \in RetryTasks : Over(t) \/ rpc[t] = "cancelled"
  /\ pc["main"] = "stopping" \/ Closed => \A t \in RetryTasks : Over(t)
  /\ pc["main"] = "stopping" =>
       /\ attempted[on["main"]]
       /\ \A m \in Modules : IF m > on["main"] THEN Swept(m) ELSE status[m] # "stopped"
  /\ Closed => \A m \in Modules : Swept(m)
  /\ pc["main"] # "stopping" /\ ~Closed => \A m \in Modules : status[m] # "stopped"

ShutdownInv == RetryIsNamed /\ RetryOwns /\ StatusIsTruthful /\ AttemptedFirst /\ StagesOfRollback

\* Once _rollback runs, it is alone with the task it cancelled and the retries.
LEMMA RollbackFrame ==
  ASSUME Unreported, TypeOK, StagesOfRollback, RollingBack, [Next]_regVars
  PROVE  \/ HealthEnded \/ RetriesEnded \/ ModuleStopped \/ CloseBackend
         \/ HealthCancelled
         \/ \E t \in RetryTasks : RetryStep(t)
         \/ UNCHANGED regVars
<1> USE CallerNames, RegistryAssumption
<1>1. ~Boot /\ ~StartOk /\ ~StartUnavailable /\ ~StartFails /\ ~ShutdownRequested
  BY DEF Boot, StartOk, StartUnavailable, StartFails, ShutdownRequested, RollingBack
<1>2. ~Degrading("main") /\ ~Degrading("health")
  BY DEF Degrading, DegradeShutdown, DegradePublished, RollingBack, StagesOfRollback
<1>3. ~PollBegins /\ ~ProbeHealthy /\ ~ProbeUnhealthy
  BY DEF PollBegins, ProbeHealthy, ProbeUnhealthy, StagesOfRollback
<1> QED
  BY <1>1, <1>2, <1>3 DEF Unreported, Next, RegistryNext, Exit, MainStep, HealthStep

LEMMA AttemptedStep ==
  ASSUME TypeOK, AttemptedFirst, PendingIsUntouched, StagesOfRollback, [Next]_regVars
  PROVE  AttemptedFirst'
<1> USE CallerNames, RegistryAssumption
<1>0. /\ N \in Nat /\ on["main"] \in Modules /\ on["main"] + 1 \in Nat \ {0}
      /\ 1 \in Nat \ {0} /\ \A c \in Callers : on[c] \in Modules /\ on[c] + 1 \in Nat \ {0}
  BY DEF TypeOK, Modules
\* attempted is only ever set.
<1>1. ASSUME NEW i \in Nat \ {0}, NEW ph, StartFrom(i, ph)
      PROVE  /\ \A m \in Modules : attempted[m] => attempted'[m]
             /\ pc'["main"] = "starting" => attempted'[on'["main"]]
  <2>1. CASE i <= N
    <3>1. i \in Modules
      BY <2>1 DEF Modules
    <3> QED
      BY <1>1, <2>1, <3>1 DEF StartFrom, TypeOK
  <2>2. CASE ~(i <= N)
    BY <1>1, <2>2 DEF StartFrom, TypeOK, PcOK
  <2> QED
    BY <2>1, <2>2
<1>2. ASSUME NEW c \in Callers, Degrading(c)
      PROVE  /\ \A m \in Modules : attempted[m] => attempted'[m]
             /\ c = "main" /\ pc'["main"] = "starting" => attempted'[on'["main"]]
  <2>1. ASSUME NEW ph, DegradeEnds(c, ph)
        PROVE  /\ \A m \in Modules : attempted[m] => attempted'[m]
               /\ c = "main" /\ pc'["main"] = "starting" => attempted'[on'["main"]]
    BY <1>0, <1>1, <2>1 DEF DegradeEnds, Callers
  <2>2. CASE pc' = [pc EXCEPT ![c] = "degPublish"] /\ UNCHANGED attempted
    BY <2>2 DEF TypeOK, PcOK
  <2> QED
    BY <1>2, <2>1, <2>2 DEF Degrading, DegradeShutdown, DegradePublished
<1>3. \A m \in Modules : attempted[m] => attempted'[m]
  <2>1. Boot \/ StartOk => \A m \in Modules : attempted[m] => attempted'[m]
    BY <1>0, <1>1 DEF Boot, StartOk
  <2>2. StartUnavailable \/ StartFails \/ ShutdownRequested \/ HealthEnded \/ RetriesEnded
        \/ ModuleStopped \/ CloseBackend => UNCHANGED attempted
    BY DEF StartUnavailable, StartFails, ShutdownRequested, HealthEnded, RetriesEnded,
           ModuleStopped, CloseBackend
  <2>3. PollBegins \/ ProbeHealthy \/ ProbeUnhealthy \/ HealthCancelled => UNCHANGED attempted
    BY DEF PollBegins, ProbeHealthy, ProbeUnhealthy, HealthCancelled
  <2>4. \A r \in Reporters : Report(r) => UNCHANGED attempted
    BY DEF Report
  <2>5. ASSUME NEW t \in RetryTasks, RetryStep(t)
        PROVE  \A m \in Modules : attempted[m] => attempted'[m]
    BY <2>5 DEF RetryStep, RetryWakes, RetryOk, RetryUnavailable, RetryDown, RetryFails,
                FailedDown, RetryPublished, RetryCancelled, TypeOK
  <2>6. UNCHANGED regVars => UNCHANGED attempted
    BY DEF regVars
  <2> QED
    BY <1>2, <2>1, <2>2, <2>3, <2>4, <2>5, <2>6
       DEF Next, RegistryNext, Exit, MainStep, HealthStep
<1>4. pc'["main"] = "starting" => attempted'[on'["main"]]
  <2>1. ShutdownRequested => pc'["main"] # "starting"
    BY DEF ShutdownRequested, TypeOK, PcOK
  <2>2. Boot \/ StartOk => (pc'["main"] = "starting" => attempted'[on'["main"]])
    BY <1>0, <1>1 DEF Boot, StartOk
  <2> QED
    BY <1>0, <1>2, <1>3, <2>1, <2>2, MainForward, MainStepLabels DEF AttemptedFirst
<1>5. ASSUME NEW m \in Modules, status'[m] # "pending" PROVE attempted'[m]
  <2>1. CASE status[m] # "pending"
    BY <1>3, <2>1 DEF AttemptedFirst
  <2>2. CASE (StartOk \/ StartUnavailable) /\ m = on["main"]
    BY <1>3, <2>2 DEF StartOk, StartUnavailable, AttemptedFirst
  <2>3. CASE ModuleStopped
    <3>1. attempted[on["main"]]
      BY <2>3 DEF ModuleStopped, StagesOfRollback
    <3>2. m = on["main"] \/ status[m] # "pending"
      BY <1>5, <2>3 DEF ModuleStopped, TypeOK
    <3> QED
      BY <1>3, <2>1, <3>1, <3>2
  <2> QED
    BY <1>5, <2>1, <2>2, <2>3, PendingFrame
<1> QED
  BY <1>4, <1>5 DEF AttemptedFirst

\* The last loop of _rollback passes the entries that were never attempted and comes to
\* one that was, or to the end.
LEMMA StopFromStages ==
  ASSUME TypeOK, StatusIsTruthful, AttemptedFirst, NEW i \in 0..N, NEW ph \in [Modules -> Phases],
         StopFrom(i, ph), UNCHANGED <<rpc, attempted>>,
         \A t \in RetryTasks : Over(t),
         pc["health"] \in {"none", "done"},
         \A m \in Modules : IF m > i THEN Swept(m)' ELSE status'[m] = status[m],
         \A m \in Modules : m <= i => status[m] # "stopped"
  PROVE  StagesOfRollback' /\ RetryIsNamed' /\ RetryOwns'
<1> USE CallerNames, RegistryAssumption
<1>0. /\ N \in Nat /\ i \in Nat
      /\ \A m \in Modules : m \in Nat /\ m >= 1 /\ m <= N
  BY DEF Modules
<1>1. (\A t \in RetryTasks : Over(t)') /\ RetryIsNamed' /\ RetryOwns'
  BY DEF Over, RetryIsNamed, RetryOwns
<1>2. ASSUME NEW m \in Modules, m <= i, ~attempted[m] PROVE Swept(m)'
  BY <1>2, <1>0 DEF Swept, AttemptedFirst
<1>3. ASSUME NEW j \in 1..i, attempted[j], \A k \in (j + 1)..i : ~attempted[k],
             pc' = [pc EXCEPT !["main"] = "stopping"], on' = [on EXCEPT !["main"] = j]
      PROVE  StagesOfRollback'
  <2>1. j \in Modules
    BY <1>0 DEF Modules
  <2>2. pc'["main"] = "stopping" /\ on'["main"] = j /\ pc'["health"] = pc["health"]
    BY <1>3, <2>1 DEF TypeOK, PcOK
  <2>3. ASSUME NEW m \in Modules PROVE IF m > j THEN Swept(m)' ELSE status'[m] # "stopped"
    <3>1. CASE m > i
      BY <1>0, <2>1, <3>1
    <3>2. CASE m > j /\ m <= i
      <4>1. m \in (j + 1)..i
        BY <1>0, <2>1, <3>2
      <4> QED
        BY <1>2, <1>3, <3>2, <4>1
    <3>3. CASE m <= j
      BY <1>0, <2>1, <3>3
    <3> QED
      BY <1>0, <2>1, <3>1, <3>2, <3>3
  <2> QED
    BY <1>1, <1>3, <2>2, <2>3 DEF StagesOfRollback, Closed
<1>4. ASSUME \A k \in 1..i : ~attempted[k],
             pc' = [pc EXCEPT !["main"] = IF failed THEN "raised" ELSE "closing"]
      PROVE  StagesOfRollback'
  <2>1. pc'["main"] \in {"raised", "closing"} /\ pc'["health"] = pc["health"]
    BY <1>4 DEF TypeOK, PcOK
  <2>2. \A m \in Modules : Swept(m)'
    BY <1>0, <1>2, <1>4
  <2> QED
    BY <1>1, <2>1, <2>2 DEF StagesOfRollback, Closed
<1> QED
  BY <1>1, <1>3, <1>4 DEF StopFrom

\* It keeps the status truthful, from whichever entry it goes on.
LEMMA StopFromTruthful ==
  ASSUME TypeOK, NEW i \in 0..N, NEW ph \in [Modules -> Phases], StopFrom(i, ph),
         status' \in [Modules -> Statuses],
         \A m \in Modules : /\ status'[m] = "running" => ph[m] = "up"
                            /\ status'[m] = "stopped" => ph[m] = "clean" /\ m > i
                            /\ status'[m] \in {"degraded", "failed"} => ph[m] # "up"
  PROVE  StatusIsTruthful'
<1> USE CallerNames, RegistryAssumption
<1>1. ASSUME NEW j \in 1..i, phase' = [ph EXCEPT ![j] = "stopping"],
             pc' = [pc EXCEPT !["main"] = "stopping"], on' = [on EXCEPT !["main"] = j]
      PROVE  StatusIsTruthful'
  <2>1. j \in Modules /\ ~(j > i)
    BY DEF Modules
  <2>2. pc'["main"] = "stopping" /\ on'["main"] = j
    BY <1>1, <2>1 DEF TypeOK, PcOK
  <2>3. \A m \in Modules : phase'[m] = IF m = j THEN "stopping" ELSE ph[m]
    BY <1>1, <2>1
  <2> QED
    BY <2>1, <2>2, <2>3 DEF StatusIsTruthful
<1>2. CASE phase' = ph
  BY <1>2 DEF StatusIsTruthful
<1> QED
  BY <1>1, <1>2 DEF StopFrom

\* Cancelling the retries reaches every one that has not ended.
LEMMA CancelRetriesStages ==
  ASSUME TypeOK, RetryIsNamed, RetryOwns, StatusIsTruthful, AttemptedFirst,
         NEW ph \in [Modules -> Phases], CancelRetries(ph), UNCHANGED <<status, attempted>>,
         pc["health"] \in {"none", "done"},
         \A m \in Modules : /\ status[m] # "stopped"
                            /\ status[m] = "running" => ph[m] = "up"
                            /\ status[m] \in {"degraded", "failed"} => ph[m] # "up"
  PROVE  StagesOfRollback' /\ RetryIsNamed' /\ RetryOwns' /\ StatusIsTruthful'
<1> USE CallerNames, RegistryAssumption
<1>1. CASE StopFrom(N, ph) /\ UNCHANGED rpc /\ {t \in RetryTasks : handle[t[1]] = t[2]} = {}
  <2>1. \A t \in RetryTasks : Over(t)
    BY <1>1 DEF RetryIsNamed
  <2>2. N \in 0..N /\ \A m \in Modules : ~(m > N) /\ m <= N
    BY DEF Modules
  <2>3. status' \in [Modules -> Statuses]
    BY DEF TypeOK
  <2>4. StatusIsTruthful'
    BY <1>1, <2>2, <2>3, StopFromTruthful
  <2>5. StagesOfRollback' /\ RetryIsNamed' /\ RetryOwns'
    BY <1>1, <2>1, <2>2, StopFromStages
  <2> QED
    BY <2>4, <2>5
<1>2. CASE /\ rpc' = [t \in RetryTasks |->
                        IF t \in {u \in RetryTasks : handle[u[1]] = u[2]} /\ ~Over(t)
                        THEN "cancelled" ELSE rpc[t]]
           /\ pc' = [pc EXCEPT !["main"] = "awaitRetries"]
           /\ phase' = ph
           /\ UNCHANGED <<handle, on>>
  <2>1. ASSUME NEW t \in RetryTasks
        PROVE  /\ Over(t)' \/ rpc'[t] = "cancelled"
               /\ ~Over(t)' => ~Over(t)
    BY <1>2, <2>1 DEF RetryIsNamed, Over
  <2>2. pc'["main"] = "awaitRetries" /\ pc'["health"] = pc["health"]
    BY <1>2 DEF TypeOK, PcOK
  <2>3. StagesOfRollback'
    BY <2>1, <2>2 DEF StagesOfRollback, Closed
  <2>4. RetryIsNamed' /\ RetryOwns'
    BY <1>2, <2>1 DEF RetryIsNamed, RetryOwns, Over
  <2>5. StatusIsTruthful'
    BY <1>2 DEF StatusIsTruthful
  <2> QED
    BY <2>3, <2>4, <2>5
<1> QED
  BY <1>1, <1>2 DEF CancelRetries

\* A retry task changes what is true of its own module only, while _rollback waits.
LEMMA RetryInRollback ==
  ASSUME TypeOK, RetryIsNamed, RetryOwns, StatusIsTruthful, AttemptedFirst, StagesOfRollback,
         AttemptedFirst', RollingBack, NEW u \in RetryTasks, RetryStep(u)
  PROVE  RetryIsNamed' /\ RetryOwns' /\ StatusIsTruthful' /\ StagesOfRollback'
<1> USE CallerNames, RegistryAssumption
<1>1. /\ UNCHANGED <<handle, pc, on>> /\ ~Over(u)
      /\ \A t \in RetryTasks : t # u => rpc'[t] = rpc[t]
      /\ \A m \in Modules : m # u[1] => status'[m] = status[m] /\ phase'[m] = phase[m]
  BY DEF RetryStep, RetryWakes, RetryOk, RetryUnavailable, RetryDown, RetryFails, FailedDown,
         RetryPublished, RetryCancelled, TypeOK, Over
<1>2. u[1] \in Modules
  BY DEF RetryTasks
<1>3. pc["main"] # "stopping" /\ ~Closed /\ \A m \in Modules : status[m] # "stopped"
  BY <1>1 DEF StagesOfRollback
<1>4. pc["main"] # "awaitHealth" => rpc[u] = "cancelled"
  BY <1>1 DEF StagesOfRollback
<1>5. CASE RetryCancelled(u) \/ RetryPublished(u)
  <2>1. UNCHANGED <<status, phase, attempted>> /\ rpc'[u] = "done"
    BY <1>5 DEF RetryCancelled, RetryPublished, TypeOK
  <2>2. RetryIsNamed' /\ RetryOwns'
    BY <1>1, <2>1 DEF RetryIsNamed, RetryOwns, Over
  <2>3. StatusIsTruthful'
    BY <1>1, <2>1 DEF StatusIsTruthful
  <2>4. StagesOfRollback'
    BY <1>1, <1>3, <2>1 DEF StagesOfRollback, RollingBack, Closed, Over
  <2> QED
    BY <2>2, <2>3, <2>4
<1>6. CASE ~(RetryCancelled(u) \/ RetryPublished(u))
  <2>1. pc["main"] = "awaitHealth"
    BY <1>4, <1>6 DEF RetryStep, RetryWakes, RetryOk, RetryUnavailable, RetryDown, RetryFails,
                      FailedDown
  <2>2. RetryIsNamed'
    BY <1>1 DEF RetryIsNamed, Over
  <2>3. /\ rpc'[u] \in {"sleep", "starting", "retryShutdown"} => status'[u[1]] = "degraded"
        /\ rpc'[u] \in {"failShutdown", "failPublish"} => status'[u[1]] = "failed"
        /\ status'[u[1]] = "running" => phase'[u[1]] = "up"
        /\ status'[u[1]] \in {"degraded", "failed"} => phase'[u[1]] # "up"
        /\ status'[u[1]] # "stopped"
    <3>1. status[u[1]] \in {"degraded", "failed"} => phase[u[1]] # "up"
      BY <1>2 DEF StatusIsTruthful
    <3>2. CASE RetryWakes(u) \/ RetryUnavailable(u) \/ RetryDown(u) \/ FailedDown(u)
      BY <1>2, <3>1, <3>2
         DEF RetryWakes, RetryUnavailable, RetryDown, FailedDown, RetryOwns, TypeOK
    <3>3. CASE RetryOk(u) \/ RetryFails(u)
      BY <1>2, <3>3 DEF RetryOk, RetryFails, TypeOK
    <3> QED
      BY <1>6, <3>2, <3>3 DEF RetryStep
  <2>4. RetryOwns'
    <3>1. ASSUME NEW t \in RetryTasks, t # u, ~Over(t) PROVE status'[t[1]] = status[t[1]]
      <4>1. t[1] # u[1]
        BY <1>1, <3>1 DEF RetryIsNamed, RetryTasks
      <4> QED
        BY <1>1, <4>1 DEF RetryTasks
    <3> QED
      BY <1>1, <2>3, <3>1 DEF RetryOwns, Over
  <2>5. StatusIsTruthful'
    BY <1>1, <1>2, <1>3, <2>3 DEF StatusIsTruthful
  <2>6. StagesOfRollback'
    <3>1. \A m \in Modules : status'[m] # "stopped"
      BY <1>1, <1>3, <2>3
    <3> QED
      BY <1>1, <2>1, <3>1 DEF StagesOfRollback, RollingBack, Closed
  <2> QED
    BY <2>2, <2>4, <2>5, <2>6
<1> QED
  BY <1>5, <1>6

\* How _rollback is entered: at the end of serving, or when startup raises.
LEMMA RollbackEntered ==
  ASSUME TypeOK, ~RollingBack, RollingBack', [Next]_regVars
  PROVE  ShutdownRequested \/ StartFails
<1> USE CallerNames, RegistryAssumption
<1>1. /\ on["main"] + 1 \in Nat /\ 1 \in Nat
  BY DEF TypeOK, Modules
<1>2. ASSUME NEW i \in Nat, NEW ph, StartFrom(i, ph) PROVE FALSE
  BY <1>2 DEF StartFrom, TypeOK, PcOK, RollingBack
<1>3. ~Boot /\ ~StartOk /\ ~StartUnavailable
  BY <1>1, <1>2 DEF Boot, StartOk, StartUnavailable, RollingBack, TypeOK, PcOK
<1>4. ~HealthEnded /\ ~RetriesEnded /\ ~ModuleStopped /\ ~CloseBackend
  BY DEF HealthEnded, RetriesEnded, ModuleStopped, CloseBackend, RollingBack
<1>5. ~Degrading("main")
  BY <1>1, <1>2 DEF Degrading, DegradeShutdown, DegradePublished, DegradeEnds, RollingBack,
                    TypeOK, PcOK
<1>6. ~UNCHANGED <<pc["main"], on["main"]>>
  BY DEF RollingBack
<1> QED
  BY <1>3, <1>4, <1>5, <1>6, MainStepLabels DEF MainStep

LEMMA ShutdownStep ==
  ASSUME Unreported, TypeOK, PollAfterStartup, PendingIsUntouched, NamedWhileOpen, OpenInv,
         TypeOK', PendingIsUntouched', NamedWhileOpen', OpenInv', ShutdownInv, [Next]_regVars
  PROVE  ShutdownInv'
<1> USE CallerNames, RegistryAssumption
<1>1. AttemptedFirst'
  BY AttemptedStep DEF ShutdownInv
<1>2. CASE ~RollingBack'
  <2>1. RetryIsNamed' /\ RetryOwns' /\ PhaseFollows'
    BY <1>2 DEF NamedWhileOpen, OpenInv
  <2>2. StatusIsTruthful'
    BY <2>1 DEF PhaseFollows, StatusIsTruthful
  <2>3. StagesOfRollback'
    BY <1>2, <2>1 DEF StagesOfRollback, PhaseFollows, RollingBack, Closed
  <2> QED
    BY <1>1, <2>1, <2>2, <2>3 DEF ShutdownInv
<1>3. CASE RollingBack' /\ ~RollingBack
  <2>1. RetryIsNamed /\ RetryOwns /\ PhaseFollows
    BY <1>3 DEF NamedWhileOpen, OpenInv
  <2>2. CASE ShutdownRequested
    <3>1. UNCHANGED <<status, phase, handle, rpc, on>>
          /\ pc'["main"] = "awaitHealth" /\ pc'["health"] = "cancelled"
      BY <2>2 DEF ShutdownRequested, TypeOK, PcOK
    <3>2. RetryIsNamed' /\ RetryOwns'
      BY <2>1, <3>1 DEF RetryIsNamed, RetryOwns, Over
    <3>3. StatusIsTruthful' /\ StagesOfRollback'
      BY <2>1, <3>1 DEF PhaseFollows, StatusIsTruthful, StagesOfRollback, Closed
    <3> QED
      BY <1>1, <3>2, <3>3 DEF ShutdownInv
  <2>3. CASE StartFails
    <3>1. PICK p \in Phases : CancelRetries([phase EXCEPT ![on["main"]] = p])
      BY <2>3 DEF StartFails
    <3> DEFINE ph == [phase EXCEPT ![on["main"]] = p]
    <3>2. ph \in [Modules -> Phases]
      BY DEF TypeOK
    <3>3. on["main"] \in Modules /\ status[on["main"]] = "pending"
      <4>1. on["main"] \in on["main"]..N
        BY DEF TypeOK, Modules
      <4> QED
        BY <2>3, <4>1 DEF StartFails, PendingIsUntouched, TypeOK
    <3>4. \A m \in Modules : /\ status[m] # "stopped"
                             /\ status[m] = "running" => ph[m] = "up"
                             /\ status[m] \in {"degraded", "failed"} => ph[m] # "up"
      BY <2>1, <3>3 DEF PhaseFollows, TypeOK
    <3>5. pc["health"] \in {"none", "done"} /\ UNCHANGED <<status, attempted>>
      BY <2>3 DEF StartFails, PollAfterStartup, Booting
    <3>6. CancelRetries(ph)
      BY <3>1
    <3> HIDE DEF ph
    <3> QED
      BY <1>1, <3>2, <3>4, <3>5, <3>6, CancelRetriesStages DEF ShutdownInv
  <2> QED
    BY <1>3, <2>2, <2>3, RollbackEntered
<1>4. CASE RollingBack
  <2>1. CASE HealthEnded
    <3>1. /\ CancelRetries(phase) /\ UNCHANGED <<status, attempted>>
          /\ pc["health"] \in {"none", "done"} /\ phase \in [Modules -> Phases]
      BY <2>1 DEF HealthEnded, TypeOK
    <3>2. \A m \in Modules : /\ status[m] # "stopped"
                             /\ status[m] = "running" => phase[m] = "up"
                             /\ status[m] \in {"degraded", "failed"} => phase[m] # "up"
      BY <2>1 DEF HealthEnded, ShutdownInv, StagesOfRollback, StatusIsTruthful, Closed
    <3> QED
      BY <1>1, <3>1, <3>2, CancelRetriesStages DEF ShutdownInv
  <2>2. CASE RetriesEnded
    <3>1. /\ StopFrom(N, phase) /\ UNCHANGED <<rpc, attempted, status>>
          /\ phase \in [Modules -> Phases] /\ status' \in [Modules -> Statuses]
      BY <2>2 DEF RetriesEnded, TypeOK
    <3>2. /\ pc["health"] \in {"none", "done"} /\ \A t \in RetryTasks : Over(t)
          /\ \A m \in Modules : status[m] # "stopped"
      BY <1>4, <2>2 DEF RetriesEnded, ShutdownInv, StagesOfRollback, Closed
    <3>3. N \in 0..N /\ \A m \in Modules : ~(m > N) /\ m <= N
      BY DEF Modules
    <3>4. \A m \in Modules : /\ status'[m] = "running" => phase[m] = "up"
                             /\ status'[m] = "stopped" => phase[m] = "clean" /\ m > N
                             /\ status'[m] \in {"degraded", "failed"} => phase[m] # "up"
      BY <2>2, <3>1, <3>2 DEF RetriesEnded, ShutdownInv, StatusIsTruthful
    <3>5. StatusIsTruthful'
      BY <3>1, <3>3, <3>4, StopFromTruthful
    <3>6. StagesOfRollback' /\ RetryIsNamed' /\ RetryOwns'
      BY <3>1, <3>2, <3>3, StopFromStages DEF ShutdownInv
    <3> QED
      BY <1>1, <3>5, <3>6 DEF ShutdownInv
  <2>3. CASE ModuleStopped
    <3> DEFINE k == on["main"]
               ph == [phase EXCEPT ![k] = "clean"]
    <3>1. /\ StopFrom(k - 1, ph) /\ UNCHANGED <<rpc, attempted>>
          /\ status' = [status EXCEPT ![k] = "stopped"]
      BY <2>3 DEF ModuleStopped
    <3>2. /\ ph \in [Modules -> Phases] /\ status' \in [Modules -> Statuses]
          /\ k \in Modules /\ k - 1 \in 0..N
      BY <3>1 DEF TypeOK, Phases, Statuses, Modules
    <3>3. /\ pc["health"] \in {"none", "done"} /\ \A t \in RetryTasks : Over(t)
          /\ attempted[k]
          /\ \A m \in Modules : IF m > k THEN Swept(m) ELSE status[m] # "stopped"
      BY <1>4, <2>3 DEF ModuleStopped, ShutdownInv, StagesOfRollback
    <3>4. \A m \in Modules : /\ m \in Nat
                             /\ m > k - 1 <=> m > k \/ m = k
                             /\ ~(m > k - 1) <=> m <= k - 1
      BY <3>2 DEF Modules
    <3>5. \A m \in Modules : IF m > k - 1 THEN Swept(m)' ELSE status'[m] = status[m]
      <4>1. \A m \in Modules : status'[m] = IF m = k THEN "stopped" ELSE status[m]
        BY <3>1, <3>2 DEF TypeOK
      <4> QED
        BY <3>1, <3>2, <3>3, <3>4, <4>1 DEF Swept
    <3>6. \A m \in Modules : /\ status'[m] = "running" => ph[m] = "up"
                             /\ status'[m] = "stopped" => ph[m] = "clean" /\ m > k - 1
                             /\ status'[m] \in {"degraded", "failed"} => ph[m] # "up"
      BY <2>3, <3>1, <3>2, <3>3, <3>4 DEF ModuleStopped, ShutdownInv, StatusIsTruthful, TypeOK
    <3>7. \A m \in Modules : m <= k - 1 => status[m] # "stopped"
      BY <3>2, <3>3, <3>4
    <3> HIDE DEF k, ph
    <3>8. StatusIsTruthful'
      BY <3>1, <3>2, <3>6, StopFromTruthful
    <3>9. StagesOfRollback' /\ RetryIsNamed' /\ RetryOwns'
      BY <3>1, <3>2, <3>3, <3>5, <3>7, StopFromStages DEF ShutdownInv
    <3> QED
      BY <1>1, <3>8, <3>9 DEF ShutdownInv
  <2>4. CASE CloseBackend
    <3>1. /\ UNCHANGED <<status, attempted, handle, phase, rpc, on>>
          /\ pc["main"] = "closing" /\ pc'["main"] = "stopped" /\ pc'["health"] = pc["health"]
      BY <2>4 DEF CloseBackend, TypeOK, PcOK
    <3>2. StagesOfRollback'
      BY <1>4, <3>1 DEF ShutdownInv, StagesOfRollback, Closed, Swept, Over
    <3>3. RetryIsNamed' /\ RetryOwns' /\ StatusIsTruthful'
      BY <3>1 DEF ShutdownInv, RetryIsNamed, RetryOwns, StatusIsTruthful, Over
    <3> QED
      BY <1>1, <3>2, <3>3 DEF ShutdownInv
  <2>5. CASE HealthCancelled
    <3>1. /\ UNCHANGED <<status, attempted, handle, phase, rpc, on>>
          /\ pc["health"] = "cancelled" /\ pc'["health"] = "done" /\ pc'["main"] = pc["main"]
      BY <2>5 DEF HealthCancelled, TypeOK, PcOK
    <3>2. StagesOfRollback'
      BY <1>4, <3>1 DEF ShutdownInv, StagesOfRollback, RollingBack, Closed, Swept, Over
    <3>3. RetryIsNamed' /\ RetryOwns' /\ StatusIsTruthful'
      BY <3>1 DEF ShutdownInv, RetryIsNamed, RetryOwns, StatusIsTruthful, Over
    <3> QED
      BY <1>1, <3>2, <3>3 DEF ShutdownInv
  <2>6. ASSUME NEW t \in RetryTasks, RetryStep(t) PROVE ShutdownInv'
    BY <1>1, <1>4, <2>6, RetryInRollback DEF ShutdownInv
  <2>7. CASE UNCHANGED regVars
    BY <2>7 DEF regVars, ShutdownInv, RetryIsNamed, RetryOwns, StatusIsTruthful,
                AttemptedFirst, StagesOfRollback, RollingBack, Closed, Swept, Over
  <2>8. StagesOfRollback
    BY DEF ShutdownInv
  <2> QED
    BY <1>4, <2>1, <2>2, <2>3, <2>4, <2>5, <2>6, <2>7, <2>8, RollbackFrame
<1> QED
  BY <1>2, <1>3, <1>4

\* What is proved of the open registry and of its shutdown, together.
ShutdownStrong ==
  PollAfterStartup /\ PendingIsUntouched /\ NamedWhileOpen /\ OpenInv /\ ShutdownInv

LEMMA ShutdownAlways == Unreported => (Spec => []ShutdownStrong)
<1> SUFFICES ASSUME Unreported PROVE Spec => []ShutdownStrong
  OBVIOUS
<1> USE CallerNames, RegistryAssumption
<1>1. Init => ShutdownStrong
  <2> SUFFICES ASSUME Init PROVE ShutdownStrong
    OBVIOUS
  <2>1. /\ pc["main"] = "boot" /\ \A t \in RetryTasks : rpc[t] = "none"
        /\ \A m \in Modules : status[m] = "pending"
    BY DEF Init
  <2>2. ShutdownInv
    BY <2>1 DEF ShutdownInv, RetryIsNamed, RetryOwns, StatusIsTruthful, AttemptedFirst,
                StagesOfRollback, RollingBack, Closed, Over
  <2> QED
    BY <2>2, OpenInit DEF ShutdownStrong
<1>2. TypeOK /\ TypeOK' /\ ShutdownStrong /\ [Next]_regVars => ShutdownStrong'
  <2> SUFFICES ASSUME TypeOK, TypeOK', ShutdownStrong, [Next]_regVars PROVE ShutdownStrong'
    OBVIOUS
  <2>1. PollAfterStartup' /\ PendingIsUntouched' /\ NamedWhileOpen' /\ OpenInv'
    BY PollStep, PendingStep, NamedStep, OpenStep DEF ShutdownStrong
  <2> QED
    BY <2>1, ShutdownStep DEF ShutdownStrong
<1> QED
  BY <1>1, <1>2, TypeCorrect, PTL DEF Spec

\* When _rollback has returned, nothing of the registry is left, if nobody but the health
\* poll reports modules: no health poll, no retry, and every module whose startup was ever
\* called was shut down (_rollback, for any number of modules and retries).
THEOREM NothingIsLeft == Unreported => (Spec => []QuietWhenClosed)
<1>1. ShutdownStrong => QuietWhenClosed
  BY DEF ShutdownStrong, ShutdownInv, StagesOfRollback, QuietWhenClosed, Closed, RollingBack, Swept
<1> QED
  BY <1>1, ShutdownAlways, PTL

\* The status of a module is true of it to the end, if nobody but the health poll reports
\* modules: RUNNING is up but for its own shutdown, STOPPED holds nothing.
THEOREM StatusIsTrue == Unreported => (Spec => []StatusIsTruthful)
<1>1. ShutdownStrong => StatusIsTruthful
  BY DEF ShutdownStrong, ShutdownInv
<1> QED
  BY <1>1, ShutdownAlways, PTL

\* startup and shutdown of one module never overlap, in the rollback neither, if nobody
\* but the health poll reports modules (_rollback waits for the tasks it cancels).
THEOREM OneCallAtATime == Unreported => (Spec => []OneLifecycleCall)
<1> SUFFICES ASSUME Unreported PROVE Spec => []OneLifecycleCall
  OBVIOUS
<1> USE CallerNames, RegistryAssumption
<1>1. TypeOK /\ ShutdownStrong => OneLifecycleCall
  <2> SUFFICES ASSUME TypeOK, ShutdownStrong PROVE OneLifecycleCall
    OBVIOUS
  <2>1. CASE ~RollingBack
    BY <2>1, OpenIsSound DEF ShutdownStrong, SoundWhileOpen
  <2>2. CASE RollingBack
    <3>1. ASSUME NEW c \in Callers, NEW m \in Modules, CallerCalls(c, m)
          PROVE  c = "main" /\ pc["main"] = "stopping"
      BY <2>2, <3>1 DEF Unreported, ShutdownStrong, ShutdownInv, StagesOfRollback,
                              RollingBack, CallerCalls, Callers
    <3>2. ASSUME NEW m \in Modules, NEW t \in RetryTasks, NEW u \in RetryTasks,
                 RetryCalls(t, m), RetryCalls(u, m)
          PROVE  t = u
      <4>1. ~Over(t) /\ ~Over(u) /\ t[1] = u[1]
        BY <3>2 DEF RetryCalls, Over
      <4>2. t[2] = u[2]
        BY <4>1 DEF ShutdownStrong, ShutdownInv, RetryIsNamed
      <4> QED
        BY <4>1, <4>2 DEF RetryTasks
    <3>3. ASSUME pc["main"] = "stopping", NEW m \in Modules, NEW t \in RetryTasks, RetryCalls(t, m)
          PROVE  FALSE
      BY <3>3 DEF ShutdownStrong, ShutdownInv, StagesOfRollback, RetryCalls, Over
    <3> QED
      BY <3>1, <3>2, <3>3 DEF OneLifecycleCall
  <2> QED
    BY <2>1, <2>2
<1> QED
  BY <1>1, ShutdownAlways, TypeCorrect, PTL

\* Modules are shut down from the last started to the first, each before the next is
\* touched, whatever state the roll-back found them in, if nobody but the health poll
\* reports modules (the last loop of _rollback, for any number of modules).
THEOREM StopsInReverse == Unreported => (Spec => []ReverseStop)
<1>1. TypeOK /\ ShutdownStrong => ReverseStop
  <2> SUFFICES ASSUME TypeOK, ShutdownStrong, NEW i \in Modules,
                      status[i] = "stopped" \/ (pc["main"] = "stopping" /\ on["main"] = i),
                      NEW j \in (i + 1)..N, attempted[j]
               PROVE  status[j] = "stopped"
    BY DEF ReverseStop
  <2>1. i \in Nat /\ j \in Modules /\ j > i /\ on["main"] \in Nat
    BY CallerNames, RegistryAssumption DEF Modules, TypeOK
  <2>2. CASE Closed
    BY <2>1, <2>2 DEF ShutdownStrong, ShutdownInv, StagesOfRollback, Swept
  <2>3. CASE pc["main"] = "stopping"
    <3>1. i >= on["main"]
      BY <2>1, <2>3 DEF ShutdownStrong, ShutdownInv, StagesOfRollback
    <3>2. j > on["main"]
      BY <2>1, <3>1
    <3> QED
      BY <2>1, <2>3, <3>2 DEF ShutdownStrong, ShutdownInv, StagesOfRollback, Swept
  <2>4. CASE pc["main"] # "stopping" /\ ~Closed
    BY <2>4 DEF ShutdownStrong, ShutdownInv, StagesOfRollback
  <2> QED
    BY <2>2, <2>3, <2>4
<1> QED
  BY <1>1, ShutdownAlways, TypeCorrect, PTL

\* The head of its loop comes to an entry further down, or to the end.
LEMMA StopFromAdvances ==
  ASSUME TypeOK, NEW i \in 0..N, NEW ph, StopFrom(i, ph)
  PROVE  RollingBack' /\ RollbackLeft' \in 0..(i + 1)
<1> USE CallerNames, RegistryAssumption
<1>1. i \in Nat /\ i <= N
  BY DEF Modules
<1>2. ASSUME NEW j \in 1..i, pc' = [pc EXCEPT !["main"] = "stopping"],
             on' = [on EXCEPT !["main"] = j]
      PROVE  RollingBack' /\ RollbackLeft' \in 0..(i + 1)
  BY <1>1, <1>2 DEF TypeOK, PcOK, RollingBack, RollbackLeft
<1>3. ASSUME pc' = [pc EXCEPT !["main"] = IF failed THEN "raised" ELSE "closing"]
      PROVE  RollingBack' /\ RollbackLeft' \in 0..(i + 1)
  BY <1>1, <1>3 DEF TypeOK, PcOK, RollingBack, RollbackLeft
<1> QED
  BY <1>2, <1>3 DEF StopFrom

\* _rollback comes to its end in at most N + 3 steps of main, and is never left otherwise,
\* whoever reports modules, degrades or retries them meanwhile (_rollback, the lifespan).
THEOREM RollbackIsBounded == Spec => RollbackAdvances
<1> DEFINE Advances == RollingBack => /\ RollingBack'
                                      /\ \/ RollbackLeft' \in 0..(RollbackLeft - 1)
                                         \/ UNCHANGED <<pc["main"], on["main"]>>
<1> USE CallerNames, RegistryAssumption
<1>1. ASSUME TypeOK, [Next]_regVars PROVE Advances
  <2> SUFFICES ASSUME RollingBack
               PROVE  /\ RollingBack'
                      /\ \/ RollbackLeft' \in 0..(RollbackLeft - 1)
                         \/ UNCHANGED <<pc["main"], on["main"]>>
    OBVIOUS
  <2>0. N \in Nat /\ on["main"] \in Nat /\ on["main"] >= 1 /\ on["main"] <= N
    BY <1>1 DEF TypeOK, Modules
  <2>1. CASE UNCHANGED <<pc["main"], on["main"]>>
    BY <2>1 DEF RollingBack
  <2>2. ~Boot /\ ~StartOk /\ ~StartUnavailable /\ ~StartFails /\ ~ShutdownRequested
        /\ ~Degrading("main")
    BY DEF Boot, StartOk, StartUnavailable, StartFails, ShutdownRequested, Degrading,
           DegradeShutdown, DegradePublished, RollingBack
  <2>3. CASE HealthEnded
    <3>1. RollbackLeft = N + 3 /\ CancelRetries(phase)
      BY <2>3 DEF HealthEnded, RollbackLeft
    <3>2. CASE StopFrom(N, phase)
      BY <1>1, <2>0, <3>1, <3>2, StopFromAdvances
    <3>3. CASE pc' = [pc EXCEPT !["main"] = "awaitRetries"]
      BY <1>1, <2>0, <3>1, <3>3 DEF TypeOK, PcOK, RollingBack, RollbackLeft
    <3> QED
      BY <3>1, <3>2, <3>3 DEF CancelRetries
  <2>4. CASE RetriesEnded
    <3>1. RollbackLeft = N + 2 /\ StopFrom(N, phase)
      BY <2>4 DEF RetriesEnded, RollbackLeft
    <3> QED
      BY <1>1, <2>0, <3>1, StopFromAdvances
  <2>5. CASE ModuleStopped
    <3>1. RollbackLeft = on["main"] + 1
          /\ StopFrom(on["main"] - 1, [phase EXCEPT ![on["main"]] = "clean"])
      BY <2>5 DEF ModuleStopped, RollbackLeft
    <3> QED
      BY <1>1, <2>0, <3>1, StopFromAdvances
  <2>6. CASE CloseBackend
    BY <1>1, <2>6 DEF CloseBackend, TypeOK, PcOK, RollingBack, RollbackLeft
  <2> QED
    BY <1>1, <2>1, <2>2, <2>3, <2>4, <2>5, <2>6, MainStepLabels DEF MainStep
<1> QED
  BY <1>1, TypeCorrect, PTL DEF Spec, RollbackAdvances

-----------------------------------------------------------------------------
(* The registry implements ModuleLifecycle.                                *)

\* The loop of startup leaves no entry behind it pending.
StartedInOrder ==
  pc["main"] \in {"starting", "degShutdown", "degPublish"} =>
    \A k \in Modules : k < on["main"] => status[k] # "pending"

LEMMA InOrderStep ==
  ASSUME TypeOK, PendingIsUntouched, StartedInOrder, [Next]_regVars
  PROVE  StartedInOrder'
<1> USE CallerNames, RegistryAssumption
<1> SUFFICES ASSUME pc'["main"] \in {"starting", "degShutdown", "degPublish"},
                    NEW k \in Modules, k < on'["main"]
             PROVE  status'[k] # "pending"
  BY DEF StartedInOrder
<1>1. k \in Nat /\ k >= 1 /\ on["main"] \in Modules /\ on["main"] \in Nat
  BY DEF TypeOK, Modules
<1>2. status[k] # "pending" => status'[k] # "pending"
  BY PendingFrame
<1>3. CASE UNCHANGED <<pc["main"], on["main"]>>
  BY <1>2, <1>3 DEF StartedInOrder
<1>4. ~ShutdownRequested
  BY DEF ShutdownRequested, TypeOK, PcOK
<1>5. CASE MainStep /\ pc'["main"] = "starting"
  <2>1. CASE Boot /\ on'["main"] = 1
    BY <1>1, <2>1
  <2>2. CASE on'["main"] = on["main"] + 1 /\ (StartOk \/ InDegrade("main"))
    <3>1. CASE k < on["main"]
      BY <1>2, <2>2, <3>1 DEF StartedInOrder, StartOk, InDegrade
    <3>2. CASE k = on["main"] /\ StartOk
      BY <3>2 DEF StartOk, TypeOK
    <3>3. CASE k = on["main"] /\ InDegrade("main")
      BY <1>2, <3>3 DEF PendingIsUntouched
    <3>4. k <= on["main"]
      BY <1>1, <2>2
    <3> QED
      BY <1>1, <2>2, <3>1, <3>2, <3>3, <3>4
  <2> QED
    BY <1>5, <2>1, <2>2, MainForward
<1>6. CASE MainStep /\ InDegrade("main")'
  <2>1. /\ on'["main"] = on["main"]
        /\ pc["main"] \in {"starting", "degShutdown", "degPublish"}
    BY <1>6, MainForward DEF InDegrade, StartUnavailable
  <2> QED
    BY <1>2, <2>1 DEF StartedInOrder
<1> QED
  BY <1>3, <1>4, <1>5, <1>6, MainStepLabels DEF InDegrade

Closing == pc["main"] \in {"awaitRetries", "stopping", "closing", "stopped", "raised"}

LEMMA StepOfLifecycle ==
  ASSUME Unreported, TypeOK, ShutdownStrong, StartedInOrder, [Next]_regVars
  PROVE  [Lifecycle!Next]_<<status, Closing>>
<1> USE CallerNames, RegistryAssumption
<1>0. /\ RetryIsNamed /\ RetryOwns /\ StatusIsTruthful /\ AttemptedFirst /\ StagesOfRollback
      /\ PendingIsUntouched
  BY DEF ShutdownStrong, ShutdownInv
<1>1. CASE StartOk \/ StartUnavailable
  <2> DEFINE m == on["main"]
  <2>1. m \in 1..N /\ pc["main"] = "starting"
    BY <1>1 DEF StartOk, StartUnavailable, TypeOK, Modules
  <2>2. status[m] = "pending" /\ \A k \in 1..(m - 1) : status[k] # "pending"
    BY <1>0, <2>1 DEF PendingIsUntouched, StartedInOrder, Modules
  <2>3. ~Closing /\ ~Closing'
    <3>1. pc'["main"] \in {"starting", "serving", "degShutdown"}
      BY <1>1 DEF StartOk, StartUnavailable, StartFrom, TypeOK, PcOK
    <3> QED
      BY <2>1, <3>1 DEF Closing
  <2>4. Lifecycle!Become(m, "running") \/ Lifecycle!Become(m, "degraded")
    BY <1>1 DEF StartOk, StartUnavailable, Lifecycle!Become
  <2>5. Lifecycle!Start(m)
    BY <2>2, <2>3, <2>4 DEF Lifecycle!Start, Closing
  <2> QED
    BY <2>1, <2>5 DEF Lifecycle!Next
<1>2. ASSUME NEW m \in Modules, MarkUnhealthy("health", m), pc["health"] = "probing"
      PROVE  Lifecycle!Next
  <2>1. ~RollingBack
    BY <1>0, <1>2 DEF StagesOfRollback
  <2>2. ~Closing /\ ~Closing'
    BY <1>2, <2>1 DEF Closing, RollingBack, MarkUnhealthy, TypeOK, PcOK
  <2>3. Lifecycle!Degrade(m)
    BY <1>2, <2>2 DEF MarkUnhealthy, Lifecycle!Degrade, Lifecycle!Become, Closing
  <2> QED
    BY <2>3 DEF Lifecycle!Next, Modules
<1>3. ASSUME NEW t \in RetryTasks, RetryOk(t) \/ RetryFails(t) PROVE Lifecycle!Next
  <2>1. t[1] \in 1..N /\ status[t[1]] = "degraded"
    BY <1>0, <1>3 DEF RetryOk, RetryFails, RetryOwns, RetryTasks, Modules
  <2>2. ~Closing /\ ~Closing'
    BY <1>0, <1>3 DEF RetryOk, RetryFails, StagesOfRollback, Closing, RollingBack, Over
  <2>3. Lifecycle!Recover(t[1]) \/ Lifecycle!GiveUp(t[1])
    BY <1>3, <2>1, <2>2 DEF RetryOk, RetryFails, Lifecycle!Recover, Lifecycle!GiveUp,
                            Lifecycle!Become, Closing
  <2> QED
    BY <2>1, <2>3 DEF Lifecycle!Next
<1>4. CASE ModuleStopped
  <2> DEFINE m == on["main"]
  <2>1. m \in 1..N /\ pc["main"] = "stopping"
    BY <1>4 DEF ModuleStopped, TypeOK, Modules
  <2>2. \A k \in Modules : IF k > m THEN Swept(k) ELSE status[k] # "stopped"
    BY <1>0, <2>1 DEF StagesOfRollback
  <2>3. /\ status[m] # "stopped"
        /\ \A k \in 1..(m - 1) : status[k] # "stopped"
        /\ \A k \in (m + 1)..N : status[k] \in {"stopped", "pending"}
    BY <2>1, <2>2 DEF Swept, Modules
  <2>4. Closing /\ Closing'
    <3>1. pc'["main"] \in {"stopping", "raised", "closing"}
      BY <1>4 DEF ModuleStopped, StopFrom, TypeOK, PcOK
    <3> QED
      BY <2>1, <3>1 DEF Closing
  <2>5. Lifecycle!Stop(m)
    BY <1>4, <2>3, <2>4 DEF ModuleStopped, Lifecycle!Stop, Lifecycle!Become, Closing
  <2> QED
    BY <2>1, <2>5 DEF Lifecycle!Next
<1>5. CASE UNCHANGED status
  <2>1. Closing => Closing'
    <3>1. Closing => ~ShutdownRequested /\ ~Boot /\ ~StartOk /\ ~StartUnavailable
                     /\ ~StartFails /\ ~HealthEnded /\ ~Degrading("main")
      BY DEF Closing, ShutdownRequested, Boot, StartOk, StartUnavailable, StartFails,
             HealthEnded, Degrading, DegradeShutdown, DegradePublished
    <3>2. RetriesEnded \/ ModuleStopped \/ CloseBackend => Closing'
      BY DEF RetriesEnded, ModuleStopped, CloseBackend, StopFrom, Closing, TypeOK, PcOK
    <3>3. UNCHANGED <<pc["main"], on["main"]>> => Closing' = Closing
      BY DEF Closing
    <3> QED
      BY <3>1, <3>2, <3>3, MainStepLabels DEF MainStep
  <2>2. CASE Closing' = Closing
    BY <1>5, <2>2
  <2>3. CASE ~Closing /\ Closing'
    <3>1. Lifecycle!Close
      BY <1>5, <2>3 DEF Lifecycle!Close, Closing
    <3> QED
      BY <3>1 DEF Lifecycle!Next
  <2> QED
    BY <2>1, <2>2, <2>3 DEF Closing
<1>6. CASE ProbeUnhealthy /\ ~UNCHANGED status
  <2>1. MarkUnhealthy("health", on["health"]) /\ pc["health"] = "probing"
    BY <1>6 DEF ProbeUnhealthy
  <2> QED
    BY <1>2, <2>1 DEF TypeOK
<1>7. Boot \/ StartFails \/ ShutdownRequested \/ HealthEnded \/ RetriesEnded \/ CloseBackend
      \/ Degrading("main") \/ Degrading("health") \/ PollBegins \/ ProbeHealthy
      \/ HealthCancelled \/ UNCHANGED regVars => UNCHANGED status
  BY DEF Boot, StartFails, ShutdownRequested, HealthEnded, RetriesEnded, CloseBackend,
         Degrading, DegradeShutdown, DegradePublished, PollBegins, ProbeHealthy,
         HealthCancelled, regVars
<1>8. ASSUME NEW t \in RetryTasks, RetryStep(t), ~RetryOk(t), ~RetryFails(t)
      PROVE  UNCHANGED status
  BY <1>8 DEF RetryStep, RetryWakes, RetryUnavailable, RetryDown, FailedDown, RetryPublished,
              RetryCancelled
<1>9. \/ StartOk \/ StartUnavailable \/ ModuleStopped \/ UNCHANGED status
      \/ ProbeUnhealthy /\ ~UNCHANGED status
      \/ \E t \in RetryTasks : RetryOk(t) \/ RetryFails(t)
  BY <1>7, <1>8 DEF Unreported, Next, RegistryNext, Exit, MainStep, HealthStep
<1> QED
  BY <1>1, <1>3, <1>4, <1>5, <1>6, <1>9

\* The tasks, awaits and retries of the registry come to no more than the lifecycle of
\* module ModuleLifecycle, if nobody but the health poll reports modules.
THEOREM ImplementsModuleLifecycle == Unreported => (Spec => ImplementsLifecycle)
<1> SUFFICES ASSUME Unreported PROVE Spec => ImplementsLifecycle
  OBVIOUS
<1>1. Init => StartedInOrder
  BY CallerNames DEF Init, StartedInOrder
<1>2. TypeOK /\ ShutdownStrong /\ StartedInOrder /\ [Next]_regVars => StartedInOrder'
  BY InOrderStep DEF ShutdownStrong
<1>3. Init => Lifecycle!Init
  BY CallerNames DEF Init, Lifecycle!Init, Modules
<1>4. TypeOK /\ ShutdownStrong /\ StartedInOrder /\ [Next]_regVars
        => [Lifecycle!Next]_Lifecycle!lifecycleVars
  BY StepOfLifecycle DEF Lifecycle!lifecycleVars, Closing
<1>5. Spec => []ShutdownStrong
  BY ShutdownAlways
<1> QED
  BY <1>1, <1>2, <1>3, <1>4, <1>5, TypeCorrect, PTL
     DEF Spec, ImplementsLifecycle, Lifecycle!Spec

-----------------------------------------------------------------------------
(* startup only of a module that holds nothing.                            *)

\* What holds nothing: a module between two attempts, one that was shut down and has yet
\* to be published, and one that startup has not come to.
CleanInv ==
  /\ \A t \in RetryTasks : rpc[t] = "sleep" => phase[t[1]] = "clean"
  /\ \A c \in Callers : pc[c] = "degPublish" => phase[on[c]] = "clean"
  /\ ~RollingBack => \A m \in Modules :
       status[m] = "pending" /\ ~(pc["main"] = "starting" /\ on["main"] = m)
         => phase[m] = "clean"

\* What a step does to one module object.
LEMMA PhaseFrame ==
  ASSUME TypeOK, PollAfterStartup, [Next]_regVars, NEW m \in Modules
  PROVE  \/ phase'[m] = phase[m]
         \/ pc'["main"] = "starting" /\ on'["main"] = m
         \/ (StartOk \/ StartUnavailable) /\ m = on["main"]
         \/ \E c \in Callers : Degrading(c) /\ m = on[c] /\ phase'[m] = "clean"
         \/ status[m] = "running" /\ status'[m] = "degraded"
         \/ \E t \in RetryTasks : t[1] = m /\ RetryStep(t)
         \/ StartFails \/ HealthEnded \/ RetriesEnded \/ ModuleStopped
<1> USE CallerNames, RegistryAssumption
<1>0. /\ N \in Nat /\ 1 \in Nat /\ \A c \in Callers : on[c] \in Modules /\ on[c] + 1 \in Nat
  BY DEF TypeOK, Modules
<1>1. ASSUME NEW i \in Nat, NEW ph \in [Modules -> Phases], StartFrom(i, ph)
      PROVE  phase'[m] = ph[m] \/ (pc'["main"] = "starting" /\ on'["main"] = m)
  BY <1>1 DEF StartFrom, TypeOK, PcOK
<1>2. CASE Boot
  BY <1>0, <1>1, <1>2 DEF Boot, TypeOK
<1>3. CASE StartOk
  <2> DEFINE ph == [phase EXCEPT ![on["main"]] = "up"]
  <2>1. ph \in [Modules -> Phases] /\ StartFrom(on["main"] + 1, ph)
    BY <1>3 DEF StartOk, TypeOK, Phases
  <2>2. m # on["main"] => ph[m] = phase[m]
    BY DEF TypeOK
  <2> HIDE DEF ph
  <2> QED
    BY <1>0, <1>1, <1>3, <2>1, <2>2
<1>4. CASE StartUnavailable
  BY <1>4 DEF StartUnavailable, TypeOK
<1>5. ASSUME NEW c \in Callers, Degrading(c)
      PROVE  \/ phase'[m] = phase[m]
             \/ pc'["main"] = "starting" /\ on'["main"] = m
             \/ m = on[c] /\ phase'[m] = "clean"
  <2>1. ASSUME NEW ph \in [Modules -> Phases], DegradeEnds(c, ph)
        PROVE  phase'[m] = ph[m] \/ (pc'["main"] = "starting" /\ on'["main"] = m)
    BY <1>0, <1>1, <2>1 DEF DegradeEnds
  <2>2. CASE DegradePublished(c)
    BY <2>1, <2>2 DEF DegradePublished, TypeOK
  <2>3. CASE DegradeShutdown(c)
    <3> DEFINE ph == [phase EXCEPT ![on[c]] = "clean"]
    <3>1. ph \in [Modules -> Phases] /\ (DegradeEnds(c, ph) \/ phase' = ph)
      BY <2>3 DEF DegradeShutdown, TypeOK, Phases
    <3>2. ph[m] = IF m = on[c] THEN "clean" ELSE phase[m]
      BY DEF TypeOK
    <3> HIDE DEF ph
    <3> QED
      BY <2>1, <3>1, <3>2
  <2> QED
    BY <1>5, <2>2, <2>3 DEF Degrading
<1>6. ASSUME NEW c, NEW k \in Modules, MarkUnhealthy(c, k)
      PROVE  phase'[m] = phase[m] \/ (status[m] = "running" /\ status'[m] = "degraded")
  BY <1>6 DEF MarkUnhealthy, TypeOK
<1>7. CASE ProbeUnhealthy
  BY <1>0, <1>6, <1>7 DEF ProbeUnhealthy
<1>8. CASE \E r \in Reporters : Report(r)
  BY <1>6, <1>8 DEF Report
<1>9. ASSUME NEW t \in RetryTasks, RetryStep(t), t[1] # m PROVE phase'[m] = phase[m]
  BY <1>9 DEF RetryStep, RetryWakes, RetryOk, RetryUnavailable, RetryDown, RetryFails,
              FailedDown, RetryPublished, RetryCancelled, TypeOK
<1>10. ShutdownRequested \/ CloseBackend \/ PollBegins \/ ProbeHealthy \/ HealthCancelled
       \/ UNCHANGED regVars => phase'[m] = phase[m]
  BY DEF ShutdownRequested, CloseBackend, PollBegins, ProbeHealthy, HealthCancelled, regVars
<1> QED
  BY <1>2, <1>3, <1>4, <1>5, <1>7, <1>8, <1>9, <1>10
     DEF Next, RegistryNext, Exit, MainStep, HealthStep

\* A caller is to be published only once its module is down.
LEMMA EnterPublish ==
  ASSUME TypeOK, PollAfterStartup, [Next]_regVars, NEW c \in Callers, pc'[c] = "degPublish"
  PROVE  on'[c] = on[c] /\ (pc[c] = "degPublish" \/ (Degrading(c) /\ phase'[on[c]] = "clean"))
<1> USE CallerNames, RegistryAssumption
<1>0. /\ N \in Nat /\ 1 \in Nat
      /\ \A d \in Callers : on[d] \in Modules /\ on[d] + 1 \in Nat /\ on[d] - 1 \in Nat
  BY DEF TypeOK, Modules
<1>1. ASSUME NEW i \in Nat, NEW ph, StartFrom(i, ph) PROVE pc[c] = "degPublish" /\ on'[c] = on[c]
  BY <1>1 DEF StartFrom, TypeOK, PcOK
<1>2. ASSUME NEW i \in Nat, NEW ph, StopFrom(i, ph) PROVE pc[c] = "degPublish" /\ on'[c] = on[c]
  BY <1>2 DEF StopFrom, TypeOK, PcOK
<1>3. ASSUME NEW ph, CancelRetries(ph) PROVE pc[c] = "degPublish" /\ on'[c] = on[c]
  BY <1>2, <1>3, <1>0 DEF CancelRetries, TypeOK, PcOK
<1>4. ASSUME NEW i \in Nat, ProbeFrom(i) PROVE pc[c] = "degPublish" /\ on'[c] = on[c]
  BY <1>4 DEF ProbeFrom, TypeOK, PcOK
<1>5. ASSUME NEW d \in Callers, Degrading(d)
      PROVE  on'[c] = on[c] /\ (pc[c] = "degPublish" \/ (c = d /\ phase'[on[c]] = "clean"))
  <2>1. ASSUME NEW ph, DegradeEnds(d, ph) PROVE pc[c] = "degPublish" /\ on'[c] = on[c]
    <3>1. CASE d \in Reporters /\ pc' = [pc EXCEPT ![d] = "idle"] /\ UNCHANGED on
      BY <3>1 DEF TypeOK, PcOK
    <3> QED
      BY <1>0, <1>1, <1>4, <2>1, <3>1 DEF DegradeEnds
  <2>2. CASE /\ pc' = [pc EXCEPT ![d] = "degPublish"] /\ UNCHANGED on
             /\ phase' = [phase EXCEPT ![on[d]] = "clean"]
    BY <1>0, <2>2 DEF TypeOK, PcOK
  <2> QED
    BY <1>5, <2>1, <2>2 DEF Degrading, DegradeShutdown, DegradePublished
<1>6. Boot \/ StartOk => pc[c] = "degPublish" /\ on'[c] = on[c]
  BY <1>0, <1>1 DEF Boot, StartOk
<1>7. StartFails \/ HealthEnded => pc[c] = "degPublish" /\ on'[c] = on[c]
  BY <1>3 DEF StartFails, HealthEnded
<1>8. RetriesEnded \/ ModuleStopped => pc[c] = "degPublish" /\ on'[c] = on[c]
  BY <1>0, <1>2 DEF RetriesEnded, ModuleStopped
<1>9. StartUnavailable \/ CloseBackend \/ ShutdownRequested \/ HealthCancelled
        => pc[c] = "degPublish" /\ on'[c] = on[c]
  BY DEF StartUnavailable, CloseBackend, ShutdownRequested, HealthCancelled, TypeOK, PcOK
<1>10. ASSUME NEW d \in Callers, NEW k \in Modules, MarkUnhealthy(d, k)
       PROVE  pc[c] = "degPublish" /\ on'[c] = on[c]
  BY <1>10 DEF MarkUnhealthy, TypeOK, PcOK
<1>11. PollBegins \/ ProbeHealthy \/ ProbeUnhealthy => pc[c] = "degPublish" /\ on'[c] = on[c]
  BY <1>0, <1>4, <1>10 DEF PollBegins, ProbeHealthy, ProbeUnhealthy
<1>12. \A r \in Reporters : Report(r) => pc[c] = "degPublish" /\ on'[c] = on[c]
  BY <1>10 DEF Report
<1>13. ASSUME NEW t \in RetryTasks, RetryStep(t) PROVE pc[c] = "degPublish" /\ on'[c] = on[c]
  BY <1>13 DEF RetryStep, RetryWakes, RetryOk, RetryUnavailable, RetryDown, RetryFails,
               FailedDown, RetryPublished, RetryCancelled
<1>14. UNCHANGED regVars => pc[c] = "degPublish" /\ on'[c] = on[c]
  BY DEF regVars
<1> QED
  BY <1>5, <1>6, <1>7, <1>8, <1>9, <1>11, <1>12, <1>13, <1>14
     DEF Next, RegistryNext, Exit, MainStep, HealthStep

LEMMA CleanStep ==
  ASSUME Unreported, TypeOK, TypeOK', ShutdownStrong, ShutdownStrong', CleanInv, [Next]_regVars
  PROVE  CleanInv'
<1> USE CallerNames, RegistryAssumption
<1>0. /\ PollAfterStartup /\ PendingIsUntouched /\ PendingIsUntouched' /\ NamedWhileOpen
      /\ OpenInv /\ RetryIsNamed /\ RetryOwns /\ StagesOfRollback /\ StagesOfRollback'
  BY DEF ShutdownStrong, ShutdownInv
<1>a. on["main"] \in Modules /\ on["main"] \in on["main"]..N /\ \A c \in Callers : on[c] \in Modules
  BY DEF TypeOK, Modules
<1>b. (StartOk \/ StartUnavailable) => status[on["main"]] = "pending"
  BY <1>0, <1>a DEF StartOk, StartUnavailable, PendingIsUntouched
<1>c. ASSUME NEW m \in Modules, pc'["main"] = "starting", on'["main"] = m
      PROVE  status'[m] = "pending"
  BY <1>0, <1>c DEF PendingIsUntouched, Modules
\* Once the retries are cancelled no retry sleeps, and nobody is in _degrade.
<1>d. StartFails \/ HealthEnded \/ RetriesEnded \/ ModuleStopped =>
        RollingBack' /\ pc'["main"] # "awaitHealth"
  BY DEF StartFails, HealthEnded, RetriesEnded, ModuleStopped, CancelRetries, StopFrom,
         RollingBack, TypeOK, PcOK
<1>e. RollingBack' => \A c \in Callers : pc'[c] # "degPublish"
  BY <1>0 DEF StagesOfRollback, RollingBack, Unreported, Callers
<1>f. phase \in [Modules -> Phases] /\ "clean" \in Phases
  BY DEF TypeOK, Phases
<1>1. ASSUME NEW t \in RetryTasks, rpc'[t] = "sleep" PROVE phase'[t[1]] = "clean"
  <2>1. t[1] \in Modules
    BY DEF RetryTasks
  <2>2. CASE RetryStep(t)
    BY <1>1, <2>1, <2>2 DEF RetryStep, RetryWakes, RetryOk, RetryUnavailable, RetryDown,
                            RetryFails, FailedDown, RetryPublished, RetryCancelled, TypeOK
  <2>3. ASSUME NEW c \in Callers, Degrading(c), rpc[t] # "sleep" PROVE phase'[t[1]] = "clean"
    <3>0. on[c] + 1 \in Nat \ {0}
      <4>1. on[c] \in 1..N
        BY <1>a DEF Modules
      <4> QED
        BY <4>1
    <3>1. InDegrade(c) /\ ~InDegrade(c)' /\ CreateRetry(on[c]) /\ UNCHANGED status
      BY <1>0, <1>1, <2>3, DegradingEffect
    <3>2. t[1] = on[c]
      BY <1>1, <1>a, <2>3, <3>1, CreateRetryEffect
    <3>3. status'[on[c]] # "pending"
      BY <1>0, <3>1 DEF PendingIsUntouched
    <3>4. CASE DegradeShutdown(c)
      <4> DEFINE ph == [phase EXCEPT ![on[c]] = "clean"]
      <4>1. DegradeEnds(c, ph)
        BY <3>1, <3>4 DEF DegradeShutdown, InDegrade, TypeOK, PcOK
      <4>2. ph \in [Modules -> Phases] /\ ph[on[c]] = "clean" /\ on[c] + 1 \in Nat \ {0}
        BY <1>a, <1>f, <3>0
      <4> HIDE DEF ph
      <4>3. phase'[on[c]] = ph[on[c]]
        <5>1. CASE StartFrom(on[c] + 1, ph)
          BY <1>0, <1>a, <3>3, <4>2, <5>1, StartFromPhase
        <5>2. CASE phase' = ph
          BY <5>2
        <5> QED
          BY <4>1, <5>1, <5>2 DEF DegradeEnds
      <4> QED
        BY <3>2, <4>2, <4>3
    <3>5. CASE DegradePublished(c)
      <4>1. DegradeEnds(c, phase) /\ phase[on[c]] = "clean"
        BY <3>5 DEF DegradePublished, CleanInv
      <4>2. phase \in [Modules -> Phases] /\ on[c] + 1 \in Nat \ {0}
        BY <1>f, <3>0
      <4>3. phase'[on[c]] = phase[on[c]]
        <5>1. CASE StartFrom(on[c] + 1, phase)
          BY <1>0, <1>a, <3>3, <4>2, <5>1, StartFromPhase
        <5>2. CASE phase' = phase
          BY <5>2
        <5> QED
          BY <4>1, <5>1, <5>2 DEF DegradeEnds
      <4> QED
        BY <3>2, <4>1, <4>3
    <3> QED
      BY <2>3, <3>4, <3>5 DEF Degrading
  <2>4. CASE rpc[t] = "sleep" /\ ~RetryStep(t)
    <3>1. phase[t[1]] = "clean" /\ status[t[1]] = "degraded" /\ ~Over(t)
      BY <1>0, <2>4 DEF CleanInv, RetryOwns, Over
    <3>2. ~(StartFails \/ HealthEnded \/ RetriesEnded \/ ModuleStopped)
      BY <1>0, <1>1, <1>d DEF StagesOfRollback, Over
    <3>3. ASSUME NEW u \in RetryTasks, u[1] = t[1], RetryStep(u) PROVE FALSE
      <4>1. ~Over(u)
        BY <3>3 DEF RetryStep, RetryWakes, RetryOk, RetryUnavailable, RetryDown, RetryFails,
                    FailedDown, RetryPublished, RetryCancelled, Over
      <4>2. u[2] = t[2]
        BY <1>0, <3>1, <3>3, <4>1 DEF RetryIsNamed
      <4>3. u = t
        BY <3>3, <4>2 DEF RetryTasks
      <4> QED
        BY <2>4, <3>3, <4>3
    <3>4. status'[t[1]] # "pending"
      BY <1>0, <2>1, <3>1, PendingFrame
    <3>5. ~(pc'["main"] = "starting" /\ on'["main"] = t[1])
      BY <1>c, <2>1, <3>4
    <3> QED
      BY <1>0, <1>b, <2>1, <3>1, <3>2, <3>3, <3>5, PhaseFrame
  <2>5. ASSUME NEW u \in RetryTasks, RetryStep(u), u # t PROVE rpc'[t] = rpc[t]
    BY <2>5 DEF RetryStep, RetryWakes, RetryOk, RetryUnavailable, RetryDown, RetryFails,
                FailedDown, RetryPublished, RetryCancelled, TypeOK
  <2>6. OnlyCancels => rpc[t] = "sleep"
    BY <1>1 DEF OnlyCancels
  <2> QED
    BY <1>1, <2>2, <2>3, <2>4, <2>5, <2>6, RetryFrame
<1>2. ASSUME NEW c \in Callers, pc'[c] = "degPublish" PROVE phase'[on'[c]] = "clean"
  <2>1. on'[c] = on[c] /\ (pc[c] = "degPublish" \/ phase'[on[c]] = "clean")
    BY <1>0, <1>2, EnterPublish
  <2>2. CASE pc[c] = "degPublish"
    <3> DEFINE m == on[c]
    <3>1. ~RollingBack' /\ ~RollingBack /\ m \in Modules
      BY <1>2, <1>a, <1>e, MainStepLabels
    <3>2. phase[m] = "clean" /\ status[m] = "degraded"
          /\ \A t \in RetryTasks : t[1] = m => rpc[t] \notin Working
      BY <1>0, <2>2, <3>1 DEF CleanInv, OpenInv, DegradeOwns, InDegrade
    <3>3. ASSUME NEW t \in RetryTasks, t[1] = m, RetryStep(t) PROVE phase'[m] = phase[m]
      BY <3>2, <3>3 DEF RetryStep, RetryWakes, RetryOk, RetryUnavailable, RetryDown, RetryFails,
                        FailedDown, RetryPublished, RetryCancelled, Working
    <3>4. status'[m] # "pending"
      BY <1>0, <3>1, <3>2, PendingFrame
    <3>5. ~(pc'["main"] = "starting" /\ on'["main"] = m)
      BY <1>c, <3>1, <3>4
    <3>6. phase'[m] = "clean"
      BY <1>0, <1>b, <1>d, <3>1, <3>2, <3>3, <3>5, PhaseFrame
    <3> QED
      BY <2>1, <3>6
  <2> QED
    BY <2>1, <2>2
<1>3. ASSUME ~RollingBack', NEW m \in Modules, status'[m] = "pending",
             ~(pc'["main"] = "starting" /\ on'["main"] = m)
      PROVE  phase'[m] = "clean"
  <2>1. ~RollingBack /\ status[m] = "pending"
    BY <1>0, <1>3, MainStepLabels, PendingFrame
  <2>2. ~(pc["main"] = "starting" /\ on["main"] = m)
    <3>1. MainStep /\ pc["main"] = "starting" => StartOk \/ StartUnavailable \/ StartFails
      BY DEF MainStep, Boot, HealthEnded, RetriesEnded, ModuleStopped, CloseBackend, Degrading,
             DegradeShutdown, DegradePublished
    <3>2. (StartOk \/ StartUnavailable) /\ on["main"] = m => status'[m] # "pending"
      BY DEF StartOk, StartUnavailable, TypeOK
    <3>3. ShutdownRequested => pc["main"] # "starting"
      BY DEF ShutdownRequested
    <3> QED
      BY <1>3, <1>d, <3>1, <3>2, <3>3, MainStepLabels
  <2>3. phase[m] = "clean"
    BY <1>3, <2>1, <2>2 DEF CleanInv
  <2>4. (StartOk \/ StartUnavailable) => m # on["main"]
    BY <1>3 DEF StartOk, StartUnavailable, TypeOK
  <2>5. ASSUME NEW t \in RetryTasks, t[1] = m, RetryStep(t) PROVE FALSE
    <3>1. ~Over(t)
      BY <2>5 DEF RetryStep, RetryWakes, RetryOk, RetryUnavailable, RetryDown, RetryFails,
                  FailedDown, RetryPublished, RetryCancelled, Over
    <3> QED
      BY <1>0, <2>1, <2>5, <3>1 DEF PendingIsUntouched
  <2> QED
    BY <1>0, <1>3, <1>d, <2>1, <2>3, <2>4, <2>5, PhaseFrame
<1> QED
  BY <1>1, <1>2, <1>3 DEF CleanInv

\* startup is called only of a module that holds nothing, first starts and retries alike,
\* if nobody but the health poll reports modules (startup, _degrade, _retry_loop).
THEOREM StartsAreClean == Unreported => (Spec => StartsClean)
<1> SUFFICES ASSUME Unreported PROVE Spec => StartsClean
  OBVIOUS
<1> USE CallerNames, RegistryAssumption
<1>1. Init => CleanInv
  BY DEF Init, CleanInv
<1>2. /\ TypeOK /\ TypeOK' /\ ShutdownStrong /\ ShutdownStrong' /\ CleanInv /\ [Next]_regVars
      => CleanInv'
  BY CleanStep
<1>3. TypeOK /\ ShutdownStrong /\ CleanInv /\ [Next]_regVars
        => [\A m \in Modules : StartupCalled(m) => phase[m] = "clean"]_regVars
  <2> SUFFICES ASSUME TypeOK, ShutdownStrong, CleanInv, [Next]_regVars,
                      NEW m \in Modules, StartupCalled(m)
               PROVE  phase[m] = "clean"
    OBVIOUS
  <2>1. CASE \E t \in RetryTasks : t[1] = m /\ rpc[t] = "sleep"
    BY <2>1 DEF CleanInv
  <2>2. CASE /\ pc'["main"] = "starting" /\ on'["main"] = m
             /\ ~(pc["main"] = "starting" /\ on["main"] = m)
    <3>1. /\ pc["main"] \in {"boot", "starting", "degShutdown", "degPublish"}
          /\ pc["main"] # "boot" => m = on["main"] + 1
      BY <2>2, MainForward, MainStepLabels
         DEF Boot, StartOk, InDegrade, ShutdownRequested, TypeOK, PcOK
    <3>2. status[m] = "pending"
      BY <3>1 DEF ShutdownStrong, PendingIsUntouched, InDegrade, TypeOK, Modules
    <3> QED
      BY <2>2, <3>1, <3>2 DEF CleanInv, RollingBack
  <2> QED
    BY <2>1, <2>2 DEF StartupCalled
<1>4. Spec => []ShutdownStrong
  BY ShutdownAlways
<1> QED
  BY <1>1, <1>2, <1>3, <1>4, TypeCorrect, PTL DEF Spec, StartsClean
=============================================================================
