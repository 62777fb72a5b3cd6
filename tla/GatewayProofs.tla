----------------------------- MODULE GatewayProofs ---------------------------
(***************************************************************************)
(* What holds of the gateway for every number of calls, modules and tools, *)
(* whatever the registry does between two awaits of a call.                *)
(*                                                                         *)
(* The steps of the system are steps of the registry, so that what is      *)
(* proved of the registry holds here; of a call, its rows in the audit     *)
(* follow from where it is.                                                *)
(***************************************************************************)
EXTENDS Gateway, RegistryProofs

-----------------------------------------------------------------------------
(* The registry under the gateway.                                         *)

\* The gateway only reads the registry: every behaviour of the system is one of the
\* registry (Gateway.invoke).
THEOREM GatewayOnlyReads == SystemSpec => Spec
<1>1. SystemInit => Init
  BY DEF SystemInit
<1>2. [SystemNext]_systemVars => [Next]_regVars
  BY DEF SystemNext, systemVars
<1> QED
  BY <1>1, <1>2, PTL DEF SystemSpec, Spec

\* A module has registered all of its tools, or none.
ToolsAreOffered == \A m \in Modules : tools[m] \in {{}, Offers[m]}

LEMMA OfferedStep ==
  ASSUME TypeOK, ToolsAreOffered, [Next]_regVars
  PROVE  ToolsAreOffered' /\ \A m \in Modules : tools[m] \subseteq tools'[m]
<1>1. CASE UNCHANGED tools
  BY <1>1 DEF ToolsAreOffered
<1>2. ASSUME NEW m \in Modules, tools' = [tools EXCEPT ![m] = Offers[m]]
      PROVE  ToolsAreOffered' /\ \A k \in Modules : tools[k] \subseteq tools'[k]
  BY <1>2 DEF ToolsAreOffered, TypeOK
<1> QED
  BY <1>1, <1>2, ToolsStep

\* A name with one owner keeps it: registered tools stay, and no other module gets them.
LEMMA OwnersStay ==
  ASSUME TypeOK, ToolsAreOffered, OneOwnerPerTool', TypeOK', [Next]_regVars,
         NEW name \in ToolNames, NEW m \in Modules, Owners(name) = {m}
  PROVE  Owners(name)' = {m}
<1>1. name \in tools'[m]
  BY OfferedStep DEF Owners
<1> QED
  BY <1>1 DEF Owners, OneOwnerPerTool

-----------------------------------------------------------------------------
(* Types.                                                                  *)

\* What find_tool found is nothing, or a tool with its one owner.
FoundIsOwned ==
  \A c \in Calls : found[c] # NotFound =>
    /\ found[c].tool \in ToolNames
    /\ found[c].module \in Modules
    /\ Owners(found[c].tool) = {found[c].module}

LEMMA FindRegisteredIsOwned ==
  ASSUME TypeOK, OneOwnerPerTool, NEW name
  PROVE  /\ FindRegistered(name) \in [tool : ToolNames \cup {""}, module : 0..N,
                                      available : BOOLEAN]
         /\ FindRegistered(name) # NotFound =>
              /\ FindRegistered(name).tool \in ToolNames
              /\ FindRegistered(name).module \in Modules
              /\ Owners(FindRegistered(name).tool) = {FindRegistered(name).module}
<1> USE RegistryAssumption
<1>1. CASE Owners(name) = {}
  BY <1>1 DEF FindRegistered, NotFound
<1>2. CASE Owners(name) # {}
  <2>1. PICK m \in Modules : name \in tools[m]
    BY <1>2 DEF Owners
  <2>2. Owners(name) = {m}
    BY <2>1 DEF Owners, OneOwnerPerTool
  <2>3. FindTool(name) = m
    BY <2>2 DEF FindTool, Modules
  <2>4. name \in ToolNames
    BY <2>1 DEF TypeOK
  <2>5. PICK b \in BOOLEAN : FindRegistered(name) = [tool |-> name, module |-> m, available |-> b]
    BY <1>2, <2>3, Zenon DEF FindRegistered
  <2>6. m \in 0..N
    BY DEF Modules
  <2>7. FindRegistered(name).tool = name /\ FindRegistered(name).module = m
    BY <2>5
  <2>8. [tool |-> name, module |-> m, available |-> b]
          \in [tool : ToolNames \cup {""}, module : 0..N, available : BOOLEAN]
    BY <2>4, <2>6
  <2> QED
    BY <2>2, <2>4, <2>5, <2>7, <2>8
<1> QED
  BY <1>1, <1>2

GatewayTypes == GatewayTypeOK /\ ToolsAreOffered /\ FoundIsOwned

LEMMA GatewayTypesInit == SystemInit => GatewayTypes
<1> USE RegistryAssumption
<1> SUFFICES ASSUME SystemInit PROVE GatewayTypes
  OBVIOUS
<1>1. NotFound \in [tool : ToolNames \cup {""}, module : 0..N, available : BOOLEAN]
  BY DEF NotFound
<1>2. audit \in Seq([phase : {"INTENT", "OUTCOME"}, call : Calls, decision : Decisions])
  BY DEF SystemInit, GatewayInit
<1>3. GatewayTypeOK
  BY <1>1, <1>2 DEF SystemInit, GatewayInit, GatewayTypeOK, CallLabels, Decisions
<1>4. ToolsAreOffered
  BY DEF SystemInit, Init, ToolsAreOffered
<1> QED
  BY <1>3, <1>4 DEF SystemInit, GatewayInit, GatewayTypes, FoundIsOwned

LEMMA GatewayTypesStep ==
  ASSUME TypeOK, OneOwnerPerTool, TypeOK', OneOwnerPerTool', GatewayTypes,
         [SystemNext]_systemVars
  PROVE  GatewayTypes'
<1>1. ASSUME [Next]_regVars, UNCHANGED gwVars PROVE GatewayTypes'
  <2>1. GatewayTypeOK'
    BY <1>1 DEF gwVars, GatewayTypes, GatewayTypeOK
  <2>2. ToolsAreOffered'
    BY <1>1, OfferedStep DEF GatewayTypes
  <2>3. FoundIsOwned'
    BY <1>1, OwnersStay DEF gwVars, GatewayTypes, FoundIsOwned
  <2> QED
    BY <2>1, <2>2, <2>3 DEF GatewayTypes
<1>2. ASSUME NEW c \in Calls, NEW name \in AsksFor, Invoke(c, name), UNCHANGED regVars
      PROVE  GatewayTypes'
  <2>1. GatewayTypeOK'
    BY <1>2, FindRegisteredIsOwned DEF Invoke, GatewayTypes, GatewayTypeOK, CallLabels
  <2>2. FoundIsOwned'
    BY <1>2, FindRegisteredIsOwned
       DEF Invoke, GatewayTypes, GatewayTypeOK, FoundIsOwned, regVars, Owners
  <2> QED
    BY <1>2, <2>1, <2>2 DEF GatewayTypes, ToolsAreOffered, regVars
<1>3. ASSUME NEW c \in Calls, CallStep(c) \/ CallCancelled(c), UNCHANGED regVars
      PROVE  GatewayTypes'
  <2>1. UNCHANGED found
    BY <1>3 DEF CallStep, IntentWritten, IntentRefused, HandlerEnds, OutcomeWritten,
                OutcomeRefused, CallCancelled
  <2>2. callAt' \in [Calls -> CallLabels] /\ decision' \in [Calls -> Decisions]
        /\ lost' \subseteq Calls
    BY <1>3 DEF GatewayTypes, GatewayTypeOK, CallStep, IntentWritten, IntentRefused,
                HandlerEnds, OutcomeWritten, OutcomeRefused, CallCancelled, CallLabels, Decisions
  <2>3. audit' \in Seq([phase : {"INTENT", "OUTCOME"}, call : Calls, decision : Decisions])
    <3> DEFINE Rows == [phase : {"INTENT", "OUTCOME"}, call : Calls, decision : Decisions]
    <3>1. Row("INTENT", c, Undecided) \in Rows /\ Row("OUTCOME", c, decision[c]) \in Rows
      BY DEF GatewayTypes, GatewayTypeOK, Row, Decisions
    <3>2. \/ audit' = Append(audit, Row("INTENT", c, Undecided))
          \/ audit' = Append(audit, Row("OUTCOME", c, decision[c]))
          \/ audit' = audit
      BY <1>3 DEF CallStep, IntentWritten, IntentRefused, HandlerEnds, OutcomeWritten,
                  OutcomeRefused, CallCancelled
    <3>3. audit \in Seq(Rows)
      BY DEF GatewayTypes, GatewayTypeOK
    <3> HIDE DEF Rows
    <3>4. audit' \in Seq(Rows)
      BY <3>1, <3>2, <3>3
    <3> QED
      BY <3>4 DEF Rows
  <2> QED
    BY <1>3, <2>1, <2>2, <2>3
       DEF GatewayTypes, GatewayTypeOK, ToolsAreOffered, FoundIsOwned, regVars, Owners
<1>4. CASE UNCHANGED systemVars
  BY <1>4, <1>1 DEF systemVars
<1> QED
  BY <1>1, <1>2, <1>3, <1>4 DEF SystemNext, GatewayNext

\* Whatever calls are made and however the registry moves, calls, decisions and audit rows
\* are of the kinds the code has, and what a call found is a tool with its owner.
THEOREM GatewayTypeCorrect == SystemSpec => []GatewayTypes
<1>1. SystemSpec => []TypeOK /\ []OneOwnerPerTool
  BY GatewayOnlyReads, TypeCorrect, ToolsHaveOneOwner, PTL
<1> QED
  BY <1>1, GatewayTypesInit, GatewayTypesStep, PTL DEF SystemSpec

-----------------------------------------------------------------------------
(* Only T0 tools run.                                                      *)

\* A call that got past its denial reasons asks for a T0 tool; until then it is undecided.
RunsOnlyReadInv ==
  \A c \in Calls :
    /\ Ran(c) => found[c] # NotFound /\ TierOf[found[c].tool] = READ
    /\ callAt[c] \in {"new", "intent"} => decision[c] = Undecided

LEMMA LowestTier == \A x \in READ..FORBIDDEN : ~(x > READ) => x = READ
BY DEF READ, FORBIDDEN

LEMMA NoReasonIsRead ==
  ASSUME GatewayTypes, NEW c \in Calls, Allowed(found[c])
  PROVE  found[c] # NotFound /\ TierOf[found[c].tool] = READ
<1>1. found[c] # NotFound /\ ~(TierOf[found[c].tool] > READ)
  BY DEF Allowed, DenialReason
<1>2. TierOf[found[c].tool] \in READ..FORBIDDEN
  BY <1>1, GatewayAssumption DEF GatewayTypes, FoundIsOwned
<1> QED
  BY <1>1, <1>2, LowestTier

\* Only T0 tools run, and only the handler of the one module that has the tool registered:
\* also when that module was stopped, failed or started again since the lookup (invoke,
\* _denial_reason, find_tool).
THEOREM OnlyReadRuns == SystemSpec => []RunsOnlyRead
<1>1. SystemInit => RunsOnlyReadInv
  BY DEF SystemInit, GatewayInit, RunsOnlyReadInv, Ran, Undecided
<1>2. GatewayTypes /\ RunsOnlyReadInv /\ [SystemNext]_systemVars => RunsOnlyReadInv'
  <2> SUFFICES ASSUME GatewayTypes, RunsOnlyReadInv, [SystemNext]_systemVars
               PROVE  RunsOnlyReadInv'
    OBVIOUS
  <2>1. CASE UNCHANGED gwVars
    BY <2>1 DEF gwVars, RunsOnlyReadInv, Ran
  <2>2. ASSUME NEW c \in Calls, NEW name \in AsksFor, Invoke(c, name) PROVE RunsOnlyReadInv'
    <3>1. ~Ran(c)'
      BY <2>2 DEF Ran, Invoke, RunsOnlyReadInv, GatewayTypes, GatewayTypeOK, Undecided
    <3> QED
      BY <2>2, <3>1 DEF Invoke, RunsOnlyReadInv, Ran, GatewayTypes, GatewayTypeOK
  <2>3. ASSUME NEW c \in Calls, IntentWritten(c) PROVE RunsOnlyReadInv'
    BY <2>3, NoReasonIsRead
       DEF IntentWritten, RunsOnlyReadInv, Ran, GatewayTypes, GatewayTypeOK
  <2>4. ASSUME NEW c \in Calls, \/ IntentRefused(c) \/ HandlerEnds(c) \/ OutcomeWritten(c)
                                \/ OutcomeRefused(c) \/ CallCancelled(c)
        PROVE  RunsOnlyReadInv'
    BY <2>4 DEF IntentRefused, HandlerEnds, OutcomeWritten, OutcomeRefused, CallCancelled,
                RunsOnlyReadInv, Ran, GatewayTypes, GatewayTypeOK
  <2> QED
    BY <2>1, <2>2, <2>3, <2>4 DEF SystemNext, GatewayNext, CallStep, systemVars
<1>3. GatewayTypes /\ RunsOnlyReadInv => RunsOnlyRead
  BY DEF GatewayTypes, FoundIsOwned, RunsOnlyReadInv, RunsOnlyRead
<1> QED
  BY <1>1, <1>2, <1>3, GatewayTypeCorrect, PTL DEF SystemSpec

-----------------------------------------------------------------------------
(* The audit trail.                                                        *)

\* The rows of a call follow from where it is: none before the INTENT write, one INTENT
\* row until the OUTCOME write.  A handler that ran leaves its INTENT row behind.
AuditOf(c) ==
  /\ callAt[c] \in {"new", "intent"} =>
       RowsOf(c, "INTENT") = {} /\ RowsOf(c, "OUTCOME") = {} /\ decision[c] = Undecided
  /\ callAt[c] \in {"running", "outcome"} =>
       (\E i \in 1..Len(audit) : RowsOf(c, "INTENT") = {i}) /\ RowsOf(c, "OUTCOME") = {}
  /\ callAt[c] = "returned" =>
       RowsOf(c, "INTENT") = {} \/ c \in lost \/ OutcomeRecorded(c)
  /\ Ran(c) => RowsOf(c, "INTENT") # {}

AuditInv == \A c \in Calls : AuditOf(c)

LEMMA AppendedRows ==
  ASSUME GatewayTypes, NEW k \in Calls, NEW q \in {"INTENT", "OUTCOME"}, NEW r \in Decisions,
         audit' = Append(audit, Row(q, k, r))
  PROVE  /\ Len(audit) \in Nat /\ Len(audit)' = Len(audit) + 1
         /\ \A i \in 1..Len(audit) : audit'[i] = audit[i]
         /\ audit'[Len(audit) + 1] = Row(q, k, r)
         /\ \A c \in Calls, p \in {"INTENT", "OUTCOME"} :
              RowsOf(c, p)' = RowsOf(c, p) \cup
                (IF c = k /\ p = q THEN {Len(audit) + 1} ELSE {})
<1> DEFINE Rows == [phase : {"INTENT", "OUTCOME"}, call : Calls, decision : Decisions]
           row == Row(q, k, r)
<1>1. audit \in Seq(Rows)
  BY DEF GatewayTypes, GatewayTypeOK
<1>2. row \in Rows /\ row.call = k /\ row.phase = q
  BY DEF Row
<1>a. audit' = Append(audit, row)
  OBVIOUS
<1> HIDE DEF Rows, row
<1>3. Len(audit) \in Nat /\ Len(audit)' = Len(audit) + 1
  BY <1>1, <1>2, <1>a
<1>4. \A i \in 1..Len(audit) : audit'[i] = audit[i]
  BY <1>1, <1>2, <1>a
<1>5. audit'[Len(audit) + 1] = row
  BY <1>1, <1>2, <1>a
<1>6. ASSUME NEW c \in Calls, NEW p \in {"INTENT", "OUTCOME"}
      PROVE  RowsOf(c, p)' = RowsOf(c, p) \cup (IF c = k /\ p = q THEN {Len(audit) + 1} ELSE {})
  BY <1>2, <1>3, <1>4, <1>5 DEF RowsOf
<1> QED
  BY <1>3, <1>4, <1>5, <1>6 DEF row

\* A row of one call says nothing of another.
LEMMA OthersKeepRows ==
  ASSUME GatewayTypes, NEW k \in Calls, NEW q \in {"INTENT", "OUTCOME"}, NEW r \in Decisions,
         audit' = Append(audit, Row(q, k, r)), NEW c \in Calls, c # k,
         AuditOf(c), callAt'[c] = callAt[c], decision'[c] = decision[c], c \in lost => c \in lost'
  PROVE  AuditOf(c)'
<1>0. \A p \in {"INTENT", "OUTCOME"} :
        RowsOf(c, p)' = RowsOf(c, p) \cup (IF c = k /\ p = q THEN {Len(audit) + 1} ELSE {})
  BY AppendedRows
<1>1. /\ RowsOf(c, "INTENT")' = RowsOf(c, "INTENT")
      /\ RowsOf(c, "OUTCOME")' = RowsOf(c, "OUTCOME")
  BY <1>0
<1>2. Len(audit) \in Nat /\ Len(audit)' = Len(audit) + 1
      /\ \A i \in 1..Len(audit) : i \in 1..Len(audit)' /\ audit'[i] = audit[i]
  BY AppendedRows
<1>3. OutcomeRecorded(c) => OutcomeRecorded(c)'
  BY <1>1, <1>2 DEF OutcomeRecorded
<1>4. Ran(c)' => Ran(c)
  BY DEF Ran
<1> QED
  BY <1>1, <1>2, <1>3, <1>4 DEF AuditOf

\* A call that writes no row, and is not where a row is due, keeps its rows.
LEMMA SameRows ==
  ASSUME NEW c \in Calls, AuditOf(c), audit' = audit, callAt'[c] = callAt[c],
         decision'[c] = decision[c], c \in lost => c \in lost'
  PROVE  AuditOf(c)'
<1>1. /\ RowsOf(c, "INTENT")' = RowsOf(c, "INTENT")
      /\ RowsOf(c, "OUTCOME")' = RowsOf(c, "OUTCOME")
  BY DEF RowsOf
<1>2. OutcomeRecorded(c) => OutcomeRecorded(c)'
  BY <1>1 DEF OutcomeRecorded
<1>3. Ran(c)' => Ran(c)
  BY DEF Ran
<1> QED
  BY <1>1, <1>2, <1>3 DEF AuditOf

LEMMA AuditStep ==
  ASSUME GatewayTypes, AuditInv, [SystemNext]_systemVars
  PROVE  AuditInv'
<1> SUFFICES ASSUME NEW c \in Calls PROVE AuditOf(c)'
  BY DEF AuditInv
<1>0. AuditOf(c) /\ callAt \in [Calls -> CallLabels] /\ decision \in [Calls -> Decisions]
  BY DEF AuditInv, GatewayTypes, GatewayTypeOK
<1>1. CASE UNCHANGED gwVars
  BY <1>0, <1>1, SameRows DEF gwVars
<1>2. ASSUME NEW k \in Calls, NEW name \in AsksFor, Invoke(k, name) PROVE AuditOf(c)'
  <2>1. /\ RowsOf(c, "INTENT")' = RowsOf(c, "INTENT")
        /\ RowsOf(c, "OUTCOME")' = RowsOf(c, "OUTCOME")
    BY <1>2 DEF Invoke, RowsOf
  <2>2. CASE c = k
    BY <1>0, <1>2, <2>1, <2>2 DEF Invoke, AuditOf, Ran, Undecided
  <2>3. CASE c # k
    BY <1>0, <1>2, <2>3, SameRows DEF Invoke
  <2> QED
    BY <2>2, <2>3
<1>3. ASSUME NEW k \in Calls, IntentWritten(k) PROVE AuditOf(c)'
  <2>1. audit' = Append(audit, Row("INTENT", k, Undecided)) /\ Undecided \in Decisions
    BY <1>3 DEF IntentWritten, Decisions
  <2>2. CASE c = k
    <3>1. RowsOf(c, "INTENT") = {} /\ RowsOf(c, "OUTCOME") = {}
      BY <1>0, <1>3, <2>2 DEF IntentWritten, AuditOf
    <3>2. /\ RowsOf(c, "INTENT")' = {Len(audit) + 1} /\ RowsOf(c, "OUTCOME")' = {}
          /\ Len(audit) + 1 \in 1..Len(audit)'
      BY <2>1, <2>2, <3>1, AppendedRows
    <3>3. callAt'[c] \in {"running", "outcome"}
      BY <1>0, <1>3, <2>2 DEF IntentWritten
    <3> QED
      BY <3>2, <3>3 DEF AuditOf
  <2>3. CASE c # k
    BY <1>0, <1>3, <2>1, <2>3, OthersKeepRows DEF IntentWritten
  <2> QED
    BY <2>2, <2>3
<1>4. ASSUME NEW k \in Calls, OutcomeWritten(k) PROVE AuditOf(c)'
  <2>1. audit' = Append(audit, Row("OUTCOME", k, decision[k])) /\ decision[k] \in Decisions
    BY <1>0, <1>4 DEF OutcomeWritten
  <2>2. CASE c = k
    <3>1. PICK i \in 1..Len(audit) : RowsOf(c, "INTENT") = {i} /\ RowsOf(c, "OUTCOME") = {}
      BY <1>0, <1>4, <2>2 DEF OutcomeWritten, AuditOf
    <3>2. /\ RowsOf(c, "INTENT")' = {i} /\ RowsOf(c, "OUTCOME")' = {Len(audit) + 1}
          /\ Len(audit) \in Nat /\ Len(audit)' = Len(audit) + 1
          /\ audit'[Len(audit) + 1] = Row("OUTCOME", c, decision[c])
      BY <2>1, <2>2, <3>1, AppendedRows
    <3>3. audit'[Len(audit) + 1].decision = decision'[c]
      BY <1>4, <3>2 DEF OutcomeWritten, Row
    <3>6. /\ i \in 1..Len(audit)' /\ Len(audit) + 1 \in 1..Len(audit)'
          /\ i < Len(audit) + 1
      BY <3>2
    <3>4. OutcomeRecorded(c)'
      BY <3>2, <3>3, <3>6 DEF OutcomeRecorded
    <3>5. callAt'[c] = "returned"
      BY <1>0, <1>4, <2>2 DEF OutcomeWritten
    <3> QED
      BY <3>2, <3>4, <3>5 DEF AuditOf
  <2>3. CASE c # k
    BY <1>0, <1>4, <2>1, <2>3, OthersKeepRows DEF OutcomeWritten
  <2> QED
    BY <2>2, <2>3
<1>5. ASSUME NEW k \in Calls, \/ IntentRefused(k) \/ HandlerEnds(k)
                              \/ OutcomeRefused(k) \/ CallCancelled(k)
      PROVE  AuditOf(c)'
  <2>0. audit' = audit
    BY <1>5 DEF IntentRefused, HandlerEnds, OutcomeRefused, CallCancelled
  <2>1. /\ RowsOf(c, "INTENT")' = RowsOf(c, "INTENT")
        /\ RowsOf(c, "OUTCOME")' = RowsOf(c, "OUTCOME")
    BY <2>0 DEF RowsOf
  <2>2. CASE c = k
    <3>1. CASE IntentRefused(k)
      BY <1>0, <2>1, <2>2, <3>1 DEF IntentRefused, AuditOf, Ran
    <3>2. CASE HandlerEnds(k)
      BY <1>0, <2>0, <2>1, <2>2, <3>2 DEF HandlerEnds, AuditOf, Ran
    <3>3. CASE OutcomeRefused(k)
      BY <1>0, <2>1, <2>2, <3>3 DEF OutcomeRefused, AuditOf, Ran
    <3>4. CASE CallCancelled(k)
      BY <1>0, <2>1, <2>2, <3>4 DEF CallCancelled, AuditOf, Ran
    <3> QED
      BY <1>5, <3>1, <3>2, <3>3, <3>4
  <2>3. CASE c # k
    BY <1>0, <1>5, <2>0, <2>3, SameRows
       DEF IntentRefused, HandlerEnds, OutcomeRefused, CallCancelled
  <2> QED
    BY <2>2, <2>3
<1> QED
  BY <1>1, <1>2, <1>3, <1>4, <1>5 DEF SystemNext, GatewayNext, CallStep, systemVars

LEMMA AuditAlways == SystemSpec => []AuditInv
<1>1. SystemInit => AuditInv
  BY DEF SystemInit, GatewayInit, AuditInv, AuditOf, RowsOf, Ran, Undecided
<1>2. GatewayTypes /\ AuditInv /\ [SystemNext]_systemVars => AuditInv'
  BY AuditStep
<1> QED
  BY <1>1, <1>2, GatewayTypeCorrect, PTL DEF SystemSpec

\* Nothing runs without an audit trail: a handler that runs, or ran, has its INTENT row,
\* whatever the sink refuses and whoever is cancelled (invoke).
THEOREM NothingUnaudited == SystemSpec => []NothingRunsUnaudited
<1>1. AuditInv => NothingRunsUnaudited
  BY DEF AuditInv, AuditOf, NothingRunsUnaudited
<1> QED
  BY <1>1, AuditAlways, PTL

\* A call that returned has one OUTCOME row after its one INTENT row, with the decision it
\* returned, or no row at all, or an OUTCOME row the sink refused (invoke).
THEOREM OutcomeIsOne == SystemSpec => []ExactlyOneOutcome
<1>1. AuditInv => ExactlyOneOutcome
  BY DEF AuditInv, AuditOf, ExactlyOneOutcome
<1> QED
  BY <1>1, AuditAlways, PTL

-----------------------------------------------------------------------------
(* The gateway as an audit trail.                                          *)

\* What was decided of a call is what it had found, also after its handler's await.
VerdictOf(c) ==
  /\ callAt[c] = "running" => Allowed(found[c])
  /\ callAt[c] = "outcome" => decision[c] =
       (IF Allowed(found[c]) THEN "executed" ELSE "denied")

VerdictInv == \A c \in Calls : VerdictOf(c)

LEMMA VerdictStep ==
  ASSUME GatewayTypes, VerdictInv, [SystemNext]_systemVars
  PROVE  VerdictInv'
<1> SUFFICES ASSUME NEW c \in Calls PROVE VerdictOf(c)'
  BY DEF VerdictInv
<1>0. /\ VerdictOf(c)
      /\ callAt \in [Calls -> CallLabels] /\ decision \in [Calls -> Decisions]
  BY DEF VerdictInv, GatewayTypes, GatewayTypeOK
<1>1. CASE callAt'[c] = callAt[c] /\ decision'[c] = decision[c] /\ found'[c] = found[c]
  BY <1>0, <1>1 DEF VerdictOf
<1>2. CASE UNCHANGED gwVars
  BY <1>1, <1>2 DEF gwVars
<1>3. ASSUME NEW k \in Calls, NEW name \in AsksFor, Invoke(k, name) PROVE VerdictOf(c)'
  BY <1>0, <1>1, <1>3 DEF Invoke, VerdictOf
<1>4. ASSUME NEW k \in Calls, IntentWritten(k) PROVE VerdictOf(c)'
  <2>1. CASE c = k
    BY <1>0, <1>4, <2>1 DEF IntentWritten, VerdictOf
  <2>2. CASE c # k
    BY <1>0, <1>1, <1>4, <2>2 DEF IntentWritten
  <2> QED
    BY <2>1, <2>2
<1>5. ASSUME NEW k \in Calls, HandlerEnds(k) PROVE VerdictOf(c)'
  <2>1. CASE c = k
    BY <1>0, <1>5, <2>1 DEF HandlerEnds, VerdictOf
  <2>2. CASE c # k
    BY <1>0, <1>1, <1>5, <2>2 DEF HandlerEnds
  <2> QED
    BY <2>1, <2>2
<1>6. ASSUME NEW k \in Calls, \/ IntentRefused(k) \/ OutcomeWritten(k)
                              \/ OutcomeRefused(k) \/ CallCancelled(k)
      PROVE  VerdictOf(c)'
  <2>1. callAt'[k] \in {"returned", "cancelled"} /\ found' = found
    BY <1>0, <1>6 DEF IntentRefused, OutcomeWritten, OutcomeRefused, CallCancelled
  <2>2. c # k => callAt'[c] = callAt[c] /\ decision'[c] = decision[c]
    BY <1>0, <1>6 DEF IntentRefused, OutcomeWritten, OutcomeRefused, CallCancelled
  <2>3. CASE c = k
    BY <2>1, <2>3 DEF VerdictOf
  <2>4. CASE c # k
    BY <1>1, <2>1, <2>2, <2>4
  <2> QED
    BY <2>3, <2>4
<1> QED
  BY <1>2, <1>3, <1>4, <1>5, <1>6 DEF SystemNext, GatewayNext, CallStep, systemVars

\* A step that leaves alone what is known of a call, its cancellation apart, leaves what
\* it did.
LEMMA SameActed ==
  ASSUME NEW c \in Calls, callAt'[c] = callAt[c], decision'[c] = decision[c],
         found'[c] = found[c], RowsOf(c, "INTENT")' = RowsOf(c, "INTENT")
  PROVE  (c \in Acted)' <=> c \in Acted
BY DEF Acted, Ran

LEMMA SameRowsOf ==
  ASSUME NEW c \in Calls, audit' = audit
  PROVE  RowsOf(c, "INTENT")' = RowsOf(c, "INTENT")
BY DEF RowsOf

LEMMA OnTrailRows ==
  ASSUME GatewayTypes, NEW c \in Calls
  PROVE  Trail!OnTrail(c) <=> RowsOf(c, "INTENT") # {} \/ RowsOf(c, "OUTCOME") # {}
<1>1. \A i \in 1..Len(audit) : audit[i].phase \in {"INTENT", "OUTCOME"}
  <2> DEFINE Rows == [phase : {"INTENT", "OUTCOME"}, call : Calls, decision : Decisions]
  <2>1. audit \in Seq(Rows)
    BY DEF GatewayTypes, GatewayTypeOK
  <2> HIDE DEF Rows
  <2>2. \A i \in 1..Len(audit) : audit[i] \in Rows
    BY <2>1
  <2> QED
    BY <2>2 DEF Rows
<1> QED
  BY <1>1 DEF Trail!OnTrail, RowsOf

\* A call that ends without a row leaves the trail: it acted as much as it did before.
LEMMA EndLeaves ==
  ASSUME NEW k \in Calls, k \notin CallsOver, audit' = audit,
         callAt \in [Calls -> CallLabels], callAt'[k] \in {"returned", "cancelled"},
         callAt' = [callAt EXCEPT ![k] = callAt'[k]],
         \A c \in Calls \ {k} : decision'[c] = decision[c], found' = found,
         (k \in Acted)' <=> k \in Acted
  PROVE  Trail!Next
<1>1. \A c \in Calls : (c \in Acted)' <=> c \in Acted
  <2> SUFFICES ASSUME NEW c \in Calls, c # k PROVE (c \in Acted)' <=> c \in Acted
    OBVIOUS
  <2>1. callAt'[c] = callAt[c] /\ decision'[c] = decision[c] /\ found'[c] = found[c]
    OBVIOUS
  <2> QED
    BY <2>1, SameActed, SameRowsOf
<1>2. Acted' = Acted
  BY <1>1 DEF Acted
<1>3. CallsOver' = CallsOver \cup {k}
  BY DEF CallsOver
<1> QED
  BY <1>2, <1>3 DEF Trail!Next, Trail!Leave

LEMMA CallIsTrail ==
  ASSUME GatewayTypes, AuditInv, VerdictInv, NEW k \in Calls, CallStep(k) \/ CallCancelled(k)
  PROVE  [Trail!Next]_(Trail!trailVars)
<1>0. /\ callAt \in [Calls -> CallLabels] /\ decision \in [Calls -> Decisions]
      /\ AuditOf(k) /\ VerdictOf(k)
  BY DEF GatewayTypes, GatewayTypeOK, AuditInv, VerdictInv
<1>1. CASE IntentWritten(k)
  <2>1. /\ callAt[k] = "intent" /\ audit' = Append(audit, Row("INTENT", k, Undecided))
        /\ found' = found /\ Undecided \in Decisions
    BY <1>1 DEF IntentWritten, Decisions
  <2>2. RowsOf(k, "INTENT") = {} /\ RowsOf(k, "OUTCOME") = {} /\ decision[k] = Undecided
    BY <1>0, <2>1 DEF AuditOf
  <2>3. k \notin CallsOver /\ ~Trail!OnTrail(k) /\ k \notin Acted
    BY <2>1, <2>2, OnTrailRows DEF CallsOver, Acted, Ran, Undecided
  <2>4. \A c \in Calls \ {k} : (c \in Acted)' <=> c \in Acted
    <3> SUFFICES ASSUME NEW c \in Calls, c # k PROVE (c \in Acted)' <=> c \in Acted
      OBVIOUS
    <3>1. RowsOf(c, "INTENT")' = RowsOf(c, "INTENT")
      <4>1. \A p \in {"INTENT", "OUTCOME"} : RowsOf(c, p)' =
              RowsOf(c, p) \cup (IF c = k /\ p = "INTENT" THEN {Len(audit) + 1} ELSE {})
        BY <2>1, AppendedRows
      <4> QED
        BY <4>1
    <3>2. callAt'[c] = callAt[c] /\ decision'[c] = decision[c]
      BY <1>0, <1>1 DEF IntentWritten
    <3> QED
      BY <2>1, <3>1, <3>2, SameActed
  <2>5. Acted' \in {Acted, Acted \cup {k}}
    <3>1. Acted \subseteq Calls /\ Acted' \subseteq Calls
      BY DEF Acted
    <3> QED
      BY <2>3, <2>4, <3>1
  <2>6. CallsOver' = CallsOver
    BY <1>0, <1>1 DEF IntentWritten, CallsOver
  <2>7. Trail!Announce(k)
    BY <2>1, <2>3, <2>5, <2>6 DEF Trail!Announce, Row, Undecided
  <2> QED
    BY <2>7 DEF Trail!Next
<1>2. CASE OutcomeWritten(k)
  <2>1. /\ callAt[k] = "outcome" /\ audit' = Append(audit, Row("OUTCOME", k, decision[k]))
        /\ found' = found /\ decision' = decision
        /\ callAt' = [callAt EXCEPT ![k] = "returned"]
    BY <1>2 DEF OutcomeWritten
  <2>2. RowsOf(k, "INTENT") # {} /\ k \notin CallsOver
    BY <1>0, <2>1 DEF AuditOf, CallsOver
  <2>3. decision[k] = IF k \in Acted THEN "executed" ELSE "denied"
    BY <1>0, <2>1 DEF VerdictOf, Acted, Ran
  <2>4. \A c \in Calls : (c \in Acted)' <=> c \in Acted
    <3> SUFFICES ASSUME NEW c \in Calls PROVE (c \in Acted)' <=> c \in Acted
      OBVIOUS
    <3>1. CASE c = k
      BY <1>0, <2>1, <3>1 DEF Acted, Ran
    <3>2. CASE c # k
      <4>1. \A p \in {"INTENT", "OUTCOME"} : RowsOf(c, p)' =
              RowsOf(c, p) \cup (IF c = k /\ p = "OUTCOME" THEN {Len(audit) + 1} ELSE {})
        BY <1>0, <2>1, AppendedRows
      <4>2. RowsOf(c, "INTENT")' = RowsOf(c, "INTENT")
        BY <4>1
      <4>3. callAt'[c] = callAt[c] /\ decision'[c] = decision[c] /\ found'[c] = found[c]
        BY <1>0, <2>1, <3>2
      <4> QED
        BY <4>2, <4>3, SameActed
    <3> QED
      BY <3>1, <3>2
  <2>5. Acted' = Acted
    BY <2>4 DEF Acted
  <2>6. CallsOver' = CallsOver \cup {k}
    BY <1>0, <2>1 DEF CallsOver
  <2>7. Trail!OnTrail(k)
    BY <2>2, OnTrailRows
  <2>8. Trail!Conclude(k)
    BY <2>1, <2>2, <2>3, <2>5, <2>6, <2>7 DEF Trail!Conclude, Row
  <2> QED
    BY <2>8 DEF Trail!Next
<1>3. CASE HandlerEnds(k)
  <2>1. audit' = audit /\ found' = found /\ callAt[k] = "running"
        /\ callAt' = [callAt EXCEPT ![k] = "outcome"]
        /\ decision' = [decision EXCEPT ![k] = "executed"]
    BY <1>3 DEF HandlerEnds
  <2>2. \A c \in Calls : (c \in Acted)' <=> c \in Acted
    <3> SUFFICES ASSUME NEW c \in Calls PROVE (c \in Acted)' <=> c \in Acted
      OBVIOUS
    <3>1. CASE c = k
      BY <1>0, <2>1, <3>1 DEF Acted, Ran
    <3>2. CASE c # k
      BY <1>0, <2>1, <3>2, SameActed, SameRowsOf
    <3> QED
      BY <3>1, <3>2
  <2>3. Acted' = Acted
    BY <2>2 DEF Acted
  <2>4. CallsOver' = CallsOver
    BY <1>0, <2>1 DEF CallsOver
  <2> QED
    BY <2>1, <2>3, <2>4 DEF Trail!trailVars
<1>4. CASE IntentRefused(k) \/ OutcomeRefused(k)
  <2>1. /\ audit' = audit /\ found' = found /\ callAt[k] \in {"intent", "outcome"}
        /\ callAt' = [callAt EXCEPT ![k] = "returned"]
        /\ \A c \in Calls \ {k} : decision'[c] = decision[c]
        /\ decision'[k] = IF callAt[k] = "intent" THEN "denied" ELSE decision[k]
    BY <1>0, <1>4 DEF IntentRefused, OutcomeRefused
  <2>2. callAt[k] = "intent" => decision[k] = Undecided
    BY <1>0 DEF AuditOf
  <2>3. (k \in Acted)' <=> k \in Acted
    BY <1>0, <2>1, <2>2 DEF Acted, Ran, Undecided
  <2>4. k \notin CallsOver
    BY <2>1 DEF CallsOver
  <2>5. callAt'[k] = "returned"
    BY <1>0, <2>1
  <2> QED
    BY <1>0, <2>1, <2>3, <2>4, <2>5, EndLeaves
<1>5. CASE CallCancelled(k)
  <2>1. /\ audit' = audit /\ found' = found /\ decision' = decision
        /\ callAt[k] \in {"intent", "running", "outcome"}
        /\ callAt' = [callAt EXCEPT ![k] = "cancelled"]
    BY <1>5 DEF CallCancelled
  <2>2. callAt'[k] = "cancelled" /\ RowsOf(k, "INTENT")' = RowsOf(k, "INTENT")
    BY <1>0, <2>1, SameRowsOf
  <2>3. /\ callAt[k] = "intent" => RowsOf(k, "INTENT") = {} /\ decision[k] = Undecided
        /\ callAt[k] \in {"running", "outcome"} => RowsOf(k, "INTENT") # {}
    BY <1>0 DEF AuditOf
  <2>4. (k \in Acted)' <=> k \in Acted
    <3>1. (k \in Acted)' <=> decision[k] = "executed"
                             \/ (RowsOf(k, "INTENT") # {} /\ Allowed(found[k]))
      BY <2>1, <2>2 DEF Acted, Ran, Allowed, DenialReason
    <3>2. k \in Acted <=> callAt[k] = "running" \/ decision[k] = "executed"
      BY <2>1 DEF Acted, Ran
    <3> QED
      BY <1>0, <2>1, <2>3, <3>1, <3>2 DEF VerdictOf, Undecided
  <2>5. k \notin CallsOver
    BY <2>1 DEF CallsOver
  <2> QED
    BY <1>0, <2>1, <2>2, <2>4, <2>5, EndLeaves
<1> QED
  BY <1>1, <1>2, <1>3, <1>4, <1>5 DEF CallStep

\* Whatever the sink refuses, whoever is cancelled and however the registry moves, the
\* gateway does what an AuditTrail does: a call acts after its INTENT row and before its
\* OUTCOME row, which says so, and nothing follows its end (invoke, _run, _audit).
THEOREM GatewayImplementsAuditTrail == SystemSpec => ImplementsAuditTrail
<1>1. SystemInit => Trail!Init /\ VerdictInv
  <2> SUFFICES ASSUME SystemInit PROVE Trail!Init /\ VerdictInv
    OBVIOUS
  <2>1. audit = <<>> /\ \A c \in Calls : callAt[c] = "new" /\ decision[c] = Undecided
    BY DEF SystemInit, GatewayInit
  <2>2. Acted = {} /\ CallsOver = {}
    BY <2>1 DEF Acted, CallsOver, Ran, Undecided
  <2> QED
    BY <2>1, <2>2 DEF Trail!Init, VerdictInv, VerdictOf
<1>2. GatewayTypes /\ VerdictInv /\ [SystemNext]_systemVars => VerdictInv'
  BY VerdictStep
<1>3. GatewayTypes /\ AuditInv /\ VerdictInv /\ [SystemNext]_systemVars
        => [Trail!Next]_(Trail!trailVars)
  <2> SUFFICES ASSUME GatewayTypes, AuditInv, VerdictInv, [SystemNext]_systemVars
               PROVE  [Trail!Next]_(Trail!trailVars)
    OBVIOUS
  <2>1. CASE UNCHANGED gwVars
    BY <2>1 DEF gwVars, Trail!trailVars, Acted, CallsOver, Ran, RowsOf, Allowed, DenialReason
  <2>2. ASSUME NEW k \in Calls, NEW name \in AsksFor, Invoke(k, name)
        PROVE  UNCHANGED Trail!trailVars
    <3>1. /\ callAt[k] = "new" /\ callAt' = [callAt EXCEPT ![k] = "intent"]
          /\ decision' = decision /\ audit' = audit
          /\ callAt \in [Calls -> CallLabels]
          /\ \A c \in Calls \ {k} : found'[c] = found[c]
      <4>1. callAt \in [Calls -> CallLabels] /\ DOMAIN found = Calls
        BY DEF GatewayTypes, GatewayTypeOK
      <4> QED
        BY <2>2, <4>1 DEF Invoke
    <3>2. \A c \in Calls : (c \in Acted)' <=> c \in Acted
      <4> SUFFICES ASSUME NEW c \in Calls PROVE (c \in Acted)' <=> c \in Acted
        OBVIOUS
      <4>1. CASE c = k
        BY <3>1, <4>1 DEF Acted, Ran
      <4>2. CASE c # k
        BY <3>1, <4>2, SameActed, SameRowsOf
      <4> QED
        BY <4>1, <4>2
    <3>3. Acted' = Acted
      BY <3>2 DEF Acted
    <3>4. CallsOver' = CallsOver
      BY <3>1 DEF CallsOver
    <3> QED
      BY <3>1, <3>3, <3>4 DEF Trail!trailVars
  <2> QED
    BY <2>1, <2>2, CallIsTrail DEF SystemNext, GatewayNext, systemVars
<1> QED
  BY <1>1, <1>2, <1>3, GatewayTypeCorrect, AuditAlways, PTL
     DEF SystemSpec, ImplementsAuditTrail, Trail!Spec
=============================================================================
