-------------------------------- MODULE Scoring -----------------------------
(***************************************************************************)
(* How the evaluation scores one candidate (evals/cases/*.py, score and    *)
(* what report.total makes of it): the latency case with its streams, then *)
(* the tool, grounding and classifier cases, one request after the other.  *)
(*                                                                         *)
(* A reply keeps what the scoring tells apart: which tool with which       *)
(* arguments, which phrases an answer contains, what a classification      *)
(* parses to; whether it reasoned, and whether it was cut off.  A record   *)
(* of the results is the set of its marks, and a case of the report the    *)
(* number of records with each mark.                                       *)
(***************************************************************************)
EXTENDS Integers, FiniteSets, Sequences

CONSTANTS
  None,             \* Python's None
  Odd,              \* in a reply: what JSON may hold there and the cases do not expect
  Schemas,          \* of every tool offered: properties and required
  ToolCases, GroundingCases, ClassifierCases,   \* sequences of cases
  ToolReplies, GroundingReplies, ClassifierReplies,   \* what the model may reply
  Warm,             \* how many prompts the latency case has
  Concurrent,       \* how many streams it opens at once
  Tokens,           \* the counts of tokens a stream may report
  Cuts,             \* may a stream say it was cut off, or that it was not
  MaxTime           \* bound: how long the latency case may take

\* Every case file of evals/data has cases; an integer parameter of a schema has bounds;
\* arguments that parse are values of JSON, of which "integer" are Python's without bool.
ASSUME ScoringAssumption ==
  /\ Warm \in Nat \ {0} /\ Concurrent \in Nat
  /\ Tokens \subseteq Nat /\ Cuts \subseteq BOOLEAN /\ MaxTime \in Nat
  /\ \A cases \in {ToolCases, GroundingCases, ClassifierCases} : Len(cases) \in Nat \ {0}
  /\ \A name \in DOMAIN Schemas : \A k \in DOMAIN Schemas[name].properties :
       LET spec == Schemas[name].properties[k] IN
       /\ spec.integer \in BOOLEAN
       /\ spec.integer => spec.minimum \in Int /\ spec.maximum \in Int
  /\ \A reply \in ToolReplies : reply.call \notin {None, Odd} =>
       \A k \in DOMAIN reply.call.args :
         LET value == reply.call.args[k] IN
         value = <<value[1], value[2]>> /\ (value[1] = "integer" => value[2] \in Int)
  /\ \A reply \in ToolReplies \cup GroundingReplies \cup ClassifierReplies :
       reply.reasons \in {"no", "content", "field"}

\* The streams in the order they are opened: cold, warm, and those opened at once.
Together == (Warm + 1)..(Warm + Concurrent)
Streams == 0..(Warm + Concurrent)
Cases == {"latency", "tools", "grounding", "classifier"}

VARIABLES
  stage,     \* the case that runs, "scored", or "error" (scoring_error)
  asked,     \* how many requests of the stage were made
  stream,    \* of the latency case
  clock,     \* time since the latency case began
  tally,     \* for every case, how many records have each mark
  last,      \* the last reply to a quality case, with its marks (history)
  reasoned   \* replies that reasoned: "content" or "field" of "stream" or "reply" (history)

scoringVars == <<stage, asked, stream, clock, tally, last, reasoned>>

Marks == {"case", "ok", "truncated", "reasoning", "violations", "invented",
          "unparseable", "false positive", "wrong figure", "not refused", "valid"}

If(mark, condition) == IF condition THEN {mark} ELSE {}

-----------------------------------------------------------------------------
(* What the cases make of a reply.  Values of arguments are pairs of their *)
(* type and themselves.                                                    *)

\* The loop of _violations over the arguments.
ArgProblems(spec, args) ==
  LET known == DOMAIN args \cap DOMAIN spec
      number == {k \in known : spec[k].integer /\ args[k][1] = "integer"}
  IN  {<<"invented parameter", k>> : k \in DOMAIN args \ DOMAIN spec}
      \cup {<<"outside enum", k>> : k \in {j \in known :
              spec[j].enum # {} /\ args[j] \notin spec[j].enum}}
      \cup {<<"not an integer", k>> : k \in {j \in known : spec[j].integer} \ number}
      \cup {<<"below minimum", k>> : k \in {j \in number : args[j][2] < spec[j].minimum}}
      \cup {<<"above maximum", k>> : k \in {j \in number : args[j][2] > spec[j].maximum}}

\* Bug: parameters that are required and not there are let pass.
Problems_NoneMissing(name, args) ==
  IF name \notin DOMAIN Schemas THEN {<<"unknown tool", name>>}
  ELSE ArgProblems(Schemas[name].properties, args)

\* _violations: where the arguments break the declared schema.
Problems(name, args) ==
  IF name \notin DOMAIN Schemas THEN {<<"unknown tool", name>>}
  ELSE ArgProblems(Schemas[name].properties, args)
       \cup {<<"missing", k>> : k \in Schemas[name].required \ DOMAIN args}

\* Arguments that are no JSON object become empty ones.
ArgsOf(call) == IF call.parses THEN call.args ELSE <<>>

CallIsRight(case, call) ==
  /\ call.name = case.expects
  /\ Problems(call.name, ArgsOf(call)) = {}
  /\ case.within \/ \A k \in DOMAIN case.args :
       k \in DOMAIN ArgsOf(call) /\ ArgsOf(call)[k] = case.args[k]

\* tools.run, for the first tool call of a reply.
ToolMarks(case, reply) ==
  LET call == reply.call IN
  IF call = None THEN If("ok", case.expects = None)
  ELSE If("ok", case.expects # None /\ CallIsRight(case, call))
       \cup If("unparseable", ~call.parses)
       \cup If("invented", call.name \notin DOMAIN Schemas)
       \cup If("violations", Problems(call.name, ArgsOf(call)) # {})
       \cup If("false positive", case.expects = None)

\* grounding.run: an answer is the set of phrases it contains; "refusal" is any of REFUSALS.
GroundingMarks(case, reply) ==
  LET hit == IF case.any THEN case.wanted \cap reply.phrases # {}
             ELSE case.wanted \subseteq reply.phrases
      leaked == case.wrong \cap reply.phrases
      refused == "refusal" \in reply.phrases
  IN  IF case.refusal
      THEN If("ok", refused) \cup If("not refused", ~refused)
      ELSE If("ok", hit /\ leaked = {}) \cup If("wrong figure", leaked # {})

Kinds == {"question", "action", "mixed"}

\* classifier.run: reply.parsed is the object's kind, or "not JSON", or "other keys".
ClassifierMarks(case, reply) ==
  If("valid", reply.parsed \in Kinds)
  \cup If("ok", reply.parsed \in Kinds /\ reply.parsed = case.expects)

\* reasoning_in and truncated, which every case adds.
ReplyMarks(reply) ==
  If("reasoning", reply.reasons # "no") \cup If("truncated", reply.finish = "length")

-----------------------------------------------------------------------------
(* The quality cases: one request at a time, each reply one record.        *)

CaseList == [tools |-> ToolCases, grounding |-> GroundingCases,
             classifier |-> ClassifierCases]
Replies == [tools |-> ToolReplies, grounding |-> GroundingReplies,
            classifier |-> ClassifierReplies]
Following == [latency |-> "tools", tools |-> "grounding", grounding |-> "classifier",
              classifier |-> "scored"]

MarksOf(kind, case, reply) ==
  CASE kind = "tools" -> ToolMarks(case, reply)
    [] kind = "grounding" -> GroundingMarks(case, reply)
    [] kind = "classifier" -> ClassifierMarks(case, reply)

\* Bug: a request that failed leaves no record.
Counted_OnlyReplies(kind, marks) ==
  IF marks = {"case"} THEN tally
  ELSE [tally EXCEPT ![kind] = [mark \in Marks |->
          @[mark] + (IF mark \in marks THEN 1 ELSE 0)]]

Counted(kind, marks) ==
  [tally EXCEPT ![kind] = [mark \in Marks |-> @[mark] + (IF mark \in marks THEN 1 ELSE 0)]]

NoReply == [kind |-> "none"]

\* Go to the next case of the list, or to the next kind.
AskNext ==
  IF asked + 1 < Len(CaseList[stage])
  THEN asked' = asked + 1 /\ UNCHANGED stage
  ELSE asked' = 0 /\ stage' = Following[stage]

Quality == stage \in {"tools", "grounding", "classifier"}

\* A tool call without a function or a name, or with arguments that are no string; contents
\* that are no text; a kind that is a list, which cannot be looked up in the set KINDS.
Unforeseen(kind, reply) ==
  CASE kind = "tools" -> reply.call = Odd
    [] kind = "grounding" -> reply.phrases = Odd
    [] kind = "classifier" -> reply.parsed = Odd

Replied(reply) ==
  LET case == CaseList[stage][asked + 1]
      marks == MarksOf(stage, case, reply)
  IN  /\ Quality
      /\ reply \in Replies[stage]
      /\ ~Unforeseen(stage, reply)
      /\ tally' = Counted(stage, {"case"} \cup marks \cup ReplyMarks(reply))
      /\ last' = [kind |-> stage, case |-> case, reply |-> reply, marks |-> marks]
      /\ reasoned' = reasoned \cup
           (IF reply.reasons = "no" THEN {} ELSE {<<"reply", reply.reasons>>})
      /\ AskNext
      /\ UNCHANGED <<stream, clock>>

\* A status, a time-out, a lost connection, a reply without choices: a record with its error and no more.
RequestFails ==
  /\ Quality
  /\ tally' = Counted(stage, {"case"})
  /\ last' = NoReply
  /\ AskNext
  /\ UNCHANGED <<stream, clock, reasoned>>

\* What an unforeseen reply raises is outside of the try, and ends the scoring.
ReplyRaises ==
  /\ Quality
  /\ \E reply \in Replies[stage] : Unforeseen(stage, reply)
  /\ stage' = "error"
  /\ UNCHANGED <<asked, stream, clock, tally, last, reasoned>>

-----------------------------------------------------------------------------
(* The latency case: streams, each timed from its own start.               *)

Unsent == [at |-> "unsent", started |-> 0, ttft |-> None, total |-> None,
           tokens |-> None, cut |-> FALSE, reasons |-> FALSE]

Over(s) == stream[s].at \in {"ended", "failed"}

\* Bug: every stream is timed from the start of the case.
Opened_AtStart(s) == [Unsent EXCEPT !.at = "open"]

Opened(s) == [Unsent EXCEPT !.at = "open", !.started = clock]

\* cold and warm: the next stream is opened when the last one has ended.
OpenNext ==
  \E s \in 0..Warm :
    /\ stage = "latency"
    /\ stream[s].at = "unsent"
    /\ \A r \in 0..(s - 1) : Over(r)
    /\ stream' = [stream EXCEPT ![s] = Opened(s)]
    /\ UNCHANGED <<stage, asked, clock, tally, last, reasoned>>

\* gather: the others are opened at once.
OpenTogether ==
  /\ stage = "latency"
  /\ \A s \in 0..Warm : Over(s)
  /\ \E s \in Together : stream[s].at = "unsent"
  /\ stream' = [s \in Streams |-> IF s \in Together THEN Opened(s) ELSE stream[s]]
  /\ UNCHANGED <<stage, asked, clock, tally, last, reasoned>>

\* A chunk with content: the first of them is the first token.
Content(s, reasons) ==
  /\ stream[s].at = "open"
  /\ stream' = [stream EXCEPT
       ![s].ttft = IF @ = None THEN clock - stream[s].started ELSE @,
       ![s].reasons = @ \/ reasons]
  /\ UNCHANGED <<stage, asked, clock, tally, last, reasoned>>

\* A chunk with reasoning_content, which nothing reads.
ReasoningField(s) ==
  /\ stream[s].at = "open"
  /\ reasoned' = reasoned \cup {<<"stream", "field">>}
  /\ UNCHANGED <<stage, asked, stream, clock, tally, last>>

\* A chunk with a finish_reason, and the one with the usage.
Finishes(s, cut) ==
  /\ stream[s].at = "open"
  /\ stream' = [stream EXCEPT ![s].cut = cut]
  /\ UNCHANGED <<stage, asked, clock, tally, last, reasoned>>

Usage(s, n) ==
  /\ stream[s].at = "open"
  /\ stream' = [stream EXCEPT ![s].tokens = n]
  /\ UNCHANGED <<stage, asked, clock, tally, last, reasoned>>

\* [DONE], or the response just ends.
StreamEnds(s) ==
  /\ stream[s].at = "open"
  /\ stream' = [stream EXCEPT ![s].at = "ended", ![s].total = clock - stream[s].started]
  /\ reasoned' = IF stream[s].reasons THEN reasoned \cup {<<"stream", "content">>} ELSE reasoned
  /\ UNCHANGED <<stage, asked, clock, tally, last>>

\* An error status, a time-out, a lost connection.  gather keeps the exception as a
\* result; of the cold and the warm streams it ends the scoring of the candidate.
StreamFails(s) ==
  /\ stream[s].at = "open"
  /\ stream' = [stream EXCEPT ![s].at = "failed"]
  /\ stage' = IF s \in Together THEN stage ELSE "error"
  /\ UNCHANGED <<asked, clock, tally, last, reasoned>>

\* tokens_per_s: tokens after the first, and the time they took; None if unknown.
Rate(r) ==
  IF r.tokens = None \/ r.ttft = None THEN None
  ELSE IF r.total <= r.ttft \/ r.tokens <= 1 THEN None
  ELSE [tokens |-> r.tokens - 1, time |-> r.total - r.ttft]

\* every: the streams that are reported.
Ended == {s \in Streams : stream[s].at = "ended"}

Flagged(field) == Cardinality({s \in Ended : stream[s][field]})

\* run returns the summaries; the times go into the report and are used no more.
LatencyDone ==
  /\ stage = "latency"
  /\ \A s \in Streams : Over(s)
  /\ tally' = [tally EXCEPT !["latency"]["case"] = Cardinality(Ended),
                            !["latency"]["reasoning"] = Flagged("reasons"),
                            !["latency"]["truncated"] = Flagged("cut")]
  /\ stage' = "tools"
  /\ stream' = [s \in Streams |-> Unsent]
  /\ clock' = 0
  /\ UNCHANGED <<asked, last, reasoned>>

Tick == /\ stage = "latency"
        /\ clock < MaxTime
        /\ clock' = clock + 1
        /\ UNCHANGED <<stage, asked, stream, tally, last, reasoned>>

-----------------------------------------------------------------------------

Init ==
  /\ stage = "latency"
  /\ asked = 0
  /\ stream = [s \in Streams |-> Unsent]
  /\ clock = 0
  /\ tally = [c \in Cases |-> [mark \in Marks |-> 0]]
  /\ last = NoReply
  /\ reasoned = {}

StreamStep(s) == \/ \E reasons \in BOOLEAN : Content(s, reasons)
                 \/ ReasoningField(s)
                 \/ \E cut \in Cuts : Finishes(s, cut)
                 \/ \E n \in Tokens : Usage(s, n)
                 \/ StreamEnds(s)
                 \/ StreamFails(s)

Finished == stage \in {"scored", "error"} /\ UNCHANGED scoringVars

Next == \/ OpenNext \/ OpenTogether \/ LatencyDone \/ Tick
        \/ \E s \in Streams : StreamStep(s)
        \/ \E reply \in ToolReplies \cup GroundingReplies \cup ClassifierReplies :
             Replied(reply)
        \/ RequestFails \/ ReplyRaises
        \/ Finished

Spec == Init /\ [][Next]_scoringVars

-----------------------------------------------------------------------------
(* What the report shows of a candidate.                                   *)

\* Bug: the latency case's counters are not at the level that total reads.
Total_NotLatency(mark) ==
  IF stage = "error" THEN 0
  ELSE tally["tools"][mark] + tally["grounding"][mark] + tally["classifier"][mark]

\* report.total; an entry whose scoring failed has none of the cases.
Total(mark) ==
  IF stage = "error" THEN 0
  ELSE tally["latency"][mark] + tally["tools"][mark] + tally["grounding"][mark]
       + tally["classifier"][mark]

-----------------------------------------------------------------------------
(* Properties.                                                             *)

ScoringTypeOK ==
  /\ stage \in Cases \cup {"scored", "error"}
  /\ asked \in Nat /\ clock \in 0..MaxTime
  /\ stream \in [Streams -> [at : {"unsent", "open", "ended", "failed"}, started : Nat,
                             ttft : Nat \cup {None}, total : Nat \cup {None},
                             tokens : Nat \cup {None}, cut : BOOLEAN, reasons : BOOLEAN]]
  /\ tally \in [Cases -> [Marks -> Nat]]
  /\ reasoned \subseteq {"stream", "reply"} \X {"content", "field"}

\* JSON Schema's own reading of the schemas: the values each parameter may have.
Allows(spec, value) ==
  /\ spec.enum # {} => value \in spec.enum
  /\ spec.integer => value \in {<<"integer", n>> : n \in spec.minimum..spec.maximum}

Conforms(name, args) ==
  /\ name \in DOMAIN Schemas
  /\ Schemas[name].required \subseteq DOMAIN args
  /\ DOMAIN args \subseteq DOMAIN Schemas[name].properties
  /\ \A k \in DOMAIN args : Allows(Schemas[name].properties[k], args[k])

\* What was asked for: the tool expected with arguments its schema allows, as asked for, or
\* no tool where none is expected.
AsAsked(case, call) ==
  IF case.expects = None THEN call = None
  ELSE /\ call # None
       /\ call.name = case.expects
       /\ Conforms(call.name, ArgsOf(call))
       /\ case.within \/ \A k \in DOMAIN case.args :
            k \in DOMAIN ArgsOf(call) /\ ArgsOf(call)[k] = case.args[k]

\* Replies of which the repository says the opposite of what the code counts: "one that
\* clamps or asks is acceptable" where only the bounds are tested (evals/data/tools.json:107),
\* "a truncated reply is scored as a failure either way" (evals/cases/common.py:68).
Disputed(case, reply) ==
  \/ case.within /\ reply.call = None
  \/ reply.finish = "length"

\* A tool case is right exactly if the model did what was asked, unless the reply is one of
\* the disputed ones; and a schema violation is reported exactly if the call does not
\* conform (tools.py).
ScoresAreFaithful ==
  last.kind = "tools" =>
    LET call == last.reply.call
    IN  /\ ~Disputed(last.case, last.reply) =>
             ("ok" \in last.marks <=> AsAsked(last.case, call))
        /\ "violations" \in last.marks <=> call # None /\ ~Conforms(call.name, ArgsOf(call))

Failures == {"violations", "invented", "unparseable", "false positive", "wrong figure",
             "not refused"}

\* The report's numbers belong together: no case is counted as correct and as a failure,
\* nothing is correct that is not valid, and in the end every case of the data was
\* counted, whatever requests failed, so that scores of candidates can be compared.
TallyAddsUp ==
  /\ \A c \in Cases, f \in Failures : tally[c]["ok"] + tally[c][f] <= tally[c]["case"]
  /\ tally["classifier"]["ok"] <= tally["classifier"]["valid"]
  /\ stage = "scored" => \A c \in DOMAIN CaseList : tally[c]["case"] = Len(CaseList[c])

\* "A silently ignored parameter must not be able to pass as a clean run" (common.py): the
\* run's total shows reasoning if a quality reply or the text of a reported stream reasoned.
ReasoningShows ==
  stage = "scored" /\ reasoned \ {<<"stream", "field">>} # {} => Total("reasoning") > 0

\* The same of every reply.  Not so: see MCScoringField.cfg.
ReasoningAlwaysShows == stage = "scored" /\ reasoned # {} => Total("reasoning") > 0

\* The times of a stream are its own: the first token comes within its answer, and the
\* answer within the case.  The streams of cold and warm ran one after the other, and those
\* opened at once after them, so that no second is counted for two of them (_stream).
TimesAreOwn ==
  LET end(s) == stream[s].started + stream[s].total
  IN  /\ \A s \in Ended : /\ stream[s].ttft = None \/ stream[s].ttft <= stream[s].total
                          /\ Rate(stream[s]) = None \/ Rate(stream[s]).time > 0
                          /\ end(s) <= clock
      /\ \A r \in Ended \cap 0..Warm, s \in Streams :
           r < s /\ stream[s].at # "unsent" => end(r) <= stream[s].started

\* What is said of the disputed replies: where only the bounds are tested, a reply that
\* calls nothing (it may ask) is right, and a reply that was cut off is not.  Neither is so:
\* see MCScoringDisputed.cfg.
AskingIsAcceptable ==
  last.kind = "tools" /\ last.case.within /\ last.reply.call = None => "ok" \in last.marks

CutOffIsFailure ==
  last.kind # "none" /\ last.reply.finish = "length" => "ok" \notin last.marks

\* A reply nobody expected costs its own case, not the scores of the candidate: only a
\* stream of the latency case ends the scoring.  Not so: see MCScoringList.cfg.
RepliesEndNothing == stage = "error" => \E s \in Streams : stream[s].at = "failed"
=============================================================================
