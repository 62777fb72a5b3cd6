------------------------------- MODULE Gateway ------------------------------
(***************************************************************************)
(* The tool gateway of farmhub/core/gateway.py, over the module registry.  *)
(*                                                                         *)
(* invoke() is a coroutine of its caller's task: it looks the tool up,     *)
(* awaits the INTENT write, decides, awaits the handler or not, awaits the *)
(* OUTCOME write and returns.  Between two awaits every action of the      *)
(* registry may happen.  Of a tool the model keeps its name and its tier,  *)
(* of an audit row its phase and decision, of a result the decision; the   *)
(* bounding of payloads (_bounded) and the texts of results are left out.  *)
(***************************************************************************)
EXTENDS Registry, Sequences

CONSTANTS
  Calls,        \* the calls made, named by their call_id
  AsksFor,      \* names a call may carry: ToolNames and names of no tool
  TierOf        \* the tier of every tool

READ == 0
FORBIDDEN == 3

ASSUME GatewayAssumption ==
  /\ ToolNames \subseteq AsksFor
  /\ TierOf \in [ToolNames -> READ..FORBIDDEN]

VARIABLES
  callAt,    \* where each call is suspended
  found,     \* the local variable found: the tool's name, its module, available
  decision,  \* the decision of the call
  audit,     \* the rows of the audit sink, in the order they were written
  lost       \* calls whose OUTCOME write failed (history)

gwVars == <<callAt, found, decision, audit, lost>>
systemVars == <<regVars, gwVars>>

CallLabels == {"new", "intent", "running", "outcome", "returned", "cancelled"}
Undecided == "undecided"

\* Of Decision; nothing is pending or expires yet.
Decisions == {Undecided, "denied", "executed"}

\* find_tool of a name no module has registered.
NotFound == [tool |-> "", module |-> 0, available |-> FALSE]

\* Bug: what is found for an unknown name still carries the name.
FindRegistered_Unknown(name) ==
  IF Owners(name) = {} THEN [NotFound EXCEPT !.tool = name]
  ELSE [tool |-> name, module |-> FindTool(name),
        available |-> status[FindTool(name)] = "running"]

FindRegistered(name) ==
  IF Owners(name) = {} THEN NotFound
  ELSE [tool |-> name, module |-> FindTool(name),
        available |-> status[FindTool(name)] = "running"]

Row(phaseOfRow, c, d) == [phase |-> phaseOfRow, call |-> c, decision |-> d]

-----------------------------------------------------------------------------

\* Bug: T1 tools run like T0 tools.
DenialReason_T1Runs(f) ==
  IF f = NotFound THEN "unknown"
  ELSE IF TierOf[f.tool] = FORBIDDEN THEN "forbidden"
  ELSE IF ~f.available THEN "unavailable"
  ELSE IF TierOf[f.tool] > READ + 1 THEN "no policy"
  ELSE ""

\* The first denial that applies, in the code's order; "" to run.
DenialReason(f) ==
  IF f = NotFound THEN "unknown"
  ELSE IF TierOf[f.tool] = FORBIDDEN THEN "forbidden"
  ELSE IF ~f.available THEN "unavailable"
  ELSE IF TierOf[f.tool] > READ THEN "no policy"
  ELSE ""

Allowed(f) == DenialReason(f) = ""

Invoke(c, name) ==
  /\ callAt[c] = "new"
  /\ found' = [found EXCEPT ![c] = FindRegistered(name)]
  /\ callAt' = [callAt EXCEPT ![c] = "intent"]
  /\ UNCHANGED <<decision, audit, lost>>

\* Bug: a denial returns without its OUTCOME row.
IntentWritten_DenialUnaudited(c) ==
  /\ callAt[c] = "intent"
  /\ audit' = Append(audit, Row("INTENT", c, Undecided))
  /\ IF Allowed(found[c])
     THEN callAt' = [callAt EXCEPT ![c] = "running"] /\ UNCHANGED decision
     ELSE /\ callAt' = [callAt EXCEPT ![c] = "returned"]
          /\ decision' = [decision EXCEPT ![c] = "denied"]
  /\ UNCHANGED <<found, lost>>

\* The INTENT row is written: run the handler, or go on to the outcome of a denial.
IntentWritten(c) ==
  /\ callAt[c] = "intent"
  /\ audit' = Append(audit, Row("INTENT", c, Undecided))
  /\ IF Allowed(found[c])
     THEN callAt' = [callAt EXCEPT ![c] = "running"] /\ UNCHANGED decision
     ELSE /\ callAt' = [callAt EXCEPT ![c] = "outcome"]
          /\ decision' = [decision EXCEPT ![c] = "denied"]
  /\ UNCHANGED <<found, lost>>

\* Bug: the AuditWriteError of the INTENT row is logged and the call goes on.
IntentRefused_RunsAnyway(c) ==
  /\ callAt[c] = "intent"
  /\ IF Allowed(found[c])
     THEN callAt' = [callAt EXCEPT ![c] = "running"] /\ UNCHANGED decision
     ELSE /\ callAt' = [callAt EXCEPT ![c] = "returned"]
          /\ decision' = [decision EXCEPT ![c] = "denied"]
  /\ UNCHANGED <<found, audit, lost>>

\* Bug: a call whose INTENT row was refused goes on to an OUTCOME row.
IntentRefused_ThenRecorded(c) ==
  /\ callAt[c] = "intent"
  /\ callAt' = [callAt EXCEPT ![c] = "outcome"]
  /\ decision' = [decision EXCEPT ![c] = "denied"]
  /\ UNCHANGED <<found, audit, lost>>

\* AuditWriteError: denied, with no row at all.
IntentRefused(c) ==
  /\ callAt[c] = "intent"
  /\ callAt' = [callAt EXCEPT ![c] = "returned"]
  /\ decision' = [decision EXCEPT ![c] = "denied"]
  /\ UNCHANGED <<found, audit, lost>>

\* The handler returns, raises or runs into its timeout: executed, all the same.
HandlerEnds(c) ==
  /\ callAt[c] = "running"
  /\ callAt' = [callAt EXCEPT ![c] = "outcome"]
  /\ decision' = [decision EXCEPT ![c] = "executed"]
  /\ UNCHANGED <<found, audit, lost>>

OutcomeWritten(c) ==
  /\ callAt[c] = "outcome"
  /\ audit' = Append(audit, Row("OUTCOME", c, decision[c]))
  /\ callAt' = [callAt EXCEPT ![c] = "returned"]
  /\ UNCHANGED <<found, decision, lost>>

\* AuditWriteError: logged, and the real result returned.
OutcomeRefused(c) ==
  /\ callAt[c] = "outcome"
  /\ callAt' = [callAt EXCEPT ![c] = "returned"]
  /\ lost' = lost \cup {c}
  /\ UNCHANGED <<found, decision, audit>>

\* CancelledError at any await: no except clause of invoke or _run catches it.
CallCancelled(c) ==
  /\ callAt[c] \in {"intent", "running", "outcome"}
  /\ callAt' = [callAt EXCEPT ![c] = "cancelled"]
  /\ UNCHANGED <<found, decision, audit, lost>>

-----------------------------------------------------------------------------

GatewayInit ==
  /\ callAt = [c \in Calls |-> "new"]
  /\ found = [c \in Calls |-> NotFound]
  /\ decision = [c \in Calls |-> Undecided]
  /\ audit = <<>>
  /\ lost = {}

\* The steps of a call that was made, but for its cancellation.
CallStep(c) == \/ IntentWritten(c) \/ IntentRefused(c) \/ HandlerEnds(c)
               \/ OutcomeWritten(c) \/ OutcomeRefused(c)

GatewayNext == \E c \in Calls : \/ \E name \in AsksFor : Invoke(c, name)
                                \/ CallStep(c) \/ CallCancelled(c)

SystemInit == Init /\ GatewayInit

SystemNext == \/ Next /\ UNCHANGED gwVars
              \/ GatewayNext /\ UNCHANGED regVars

SystemSpec == SystemInit /\ [][SystemNext]_systemVars

-----------------------------------------------------------------------------
(* Properties.                                                             *)

RowsOf(c, p) == {i \in 1..Len(audit) : audit[i].call = c /\ audit[i].phase = p}
Ran(c) == callAt[c] = "running" \/ decision[c] = "executed"

GatewayTypeOK ==
  /\ callAt \in [Calls -> CallLabels]
  /\ found \in [Calls -> [tool : ToolNames \cup {""}, module : 0..N, available : BOOLEAN]]
  /\ decision \in [Calls -> Decisions]
  /\ audit \in Seq([phase : {"INTENT", "OUTCOME"}, call : Calls,
                    decision : Decisions])
  /\ lost \subseteq Calls

\* Only T0 tools run, and only the handler of the one module that has the tool
\* registered, whatever happened to the modules since the call looked it up.
RunsOnlyRead ==
  \A c \in Calls : Ran(c) =>
    /\ found[c].tool \in ToolNames /\ TierOf[found[c].tool] = READ
    /\ Owners(found[c].tool) = {found[c].module}

\* "nothing runs without an audit trail": a handler that runs or ran has its INTENT row.
NothingRunsUnaudited == \A c \in Calls : Ran(c) => RowsOf(c, "INTENT") # {}

\* "Every call writes an INTENT row, then exactly one OUTCOME row", executed or denied:
\* a call that returned after writing INTENT, and whose OUTCOME write the sink did not
\* refuse, has one OUTCOME row, after its one INTENT row, with the decision returned.
OutcomeRecorded(c) ==
  \E i, j \in 1..Len(audit) :
    /\ RowsOf(c, "INTENT") = {i} /\ RowsOf(c, "OUTCOME") = {j} /\ i < j
    /\ audit[j].decision = decision[c]

ExactlyOneOutcome ==
  \A c \in Calls :
    callAt[c] = "returned" /\ RowsOf(c, "INTENT") # {} /\ c \notin lost => OutcomeRecorded(c)

\* The calls whose handler was called; of a cancelled one its INTENT row and what it had
\* found tell.
Acted ==
  {c \in Calls : \/ Ran(c)
                 \/ /\ callAt[c] = "cancelled"
                    /\ RowsOf(c, "INTENT") # {} /\ Allowed(found[c])}

CallsOver == {c \in Calls : callAt[c] \in {"returned", "cancelled"}}

Trail == INSTANCE AuditTrail WITH trail <- audit, acted <- Acted, closed <- CallsOver

\* The gateway is an AuditTrail, whatever the sink refuses and whoever is cancelled: no
\* call acts or has an outcome before it is on the trail, no row follows its end, and the
\* outcome says what it did (Gateway.invoke, _run).
ImplementsAuditTrail == Trail!Spec

\* The same of a call that ended in any way, its cancellation included.
EveryIntentHasOutcome ==
  \A c \in Calls :
    /\ callAt[c] \in {"returned", "cancelled"}
    /\ RowsOf(c, "INTENT") # {}
    /\ c \notin lost
    => OutcomeRecorded(c)

\* "tools of degraded modules ... are denied": when a handler is called, the module it
\* belongs to is running.
RunsOnlyAvailable ==
  [][\A c \in Calls : callAt[c] = "intent" /\ callAt'[c] = "running"
                         => status[found[c].module] = "running"]_systemVars
=============================================================================
